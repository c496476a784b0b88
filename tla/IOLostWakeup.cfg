SPECIFICATION Spec
CONSTANTS
    Workers = {w1, w2}
    Acceptor = acceptor
    Closer = closer
    QueueCap = 3
    MaxPackets = 3
    MaxBytes = 3
    RecvCap = 2
    PacketSize = 1
    Size <- MCEqual
    PeerFills = FALSE
    OtherErrors = FALSE
CHECK_DEADLOCK FALSE
SYMMETRY MCSymmetry
INVARIANT
    QueuedIsSent
