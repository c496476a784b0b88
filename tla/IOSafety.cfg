SPECIFICATION Spec
CONSTANTS
    Workers = {w1, w2}
    Acceptor = acceptor
    Closer = closer
    QueueCap = 2
    MaxPackets = 3
    MaxBytes = 3
    RecvCap = 3
    PacketSize = 1
    Size <- MCEqual
    PeerFills = FALSE
    OtherErrors = TRUE
CHECK_DEADLOCK FALSE
SYMMETRY MCSymmetry
INVARIANTS
    TypeOK
    RefsAreOwned
    OneSend
    OneReceive
    PacketsConserved
    StreamIntact
    SendedFits
PROPERTY
    ImplementsSessionContract
