SPECIFICATION FairSpec
CONSTANTS
    Workers = {w1, w2}
    Acceptor = acceptor
    Closer = closer
    QueueCap = 1
    MaxPackets = 1
    MaxBytes = 4
    RecvCap = 4
    PacketSize = 2
    Size <- MCEqual
    PeerFills = FALSE
    OtherErrors = FALSE
CHECK_DEADLOCK FALSE
PROPERTIES
    CancelEnds
    PeerGoneEnds
