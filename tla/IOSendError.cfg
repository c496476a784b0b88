SPECIFICATION Spec
CONSTANTS
    Workers = {w1, w2}
    Acceptor = acceptor
    Closer = closer
    QueueCap = 3
    MaxPackets = 2
    MaxBytes = 2
    RecvCap = 3
    PacketSize = 1
    Size <- MCGrowing
    PeerFills = FALSE
    OtherErrors = TRUE
CHECK_DEADLOCK FALSE
INVARIANT
    SendedReachesZero
