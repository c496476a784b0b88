SPECIFICATION FairSpec
CONSTANTS
    Workers = {w1, w2}
    Acceptor = acceptor
    Closer = closer
    QueueCap = 3
    MaxPackets = 1
    MaxBytes = 3
    RecvCap = 3
    PacketSize = 2
    Size <- MCGrowing
    PeerFills = TRUE
    OtherErrors = FALSE
CHECK_DEADLOCK FALSE
PROPERTY
    PeerGoneEnds
