SPECIFICATION FairSpec
CONSTANTS
    bufferSize = 8
    Capacity = 6
    CharSize = 4
    Xor <- MCXor
    StaticKey = 2
    RandKeys = {1, 3}
    LoginType = 1
    AnswerType = 2
    Payloads <- MCPayloads
    MaxPackets = 2
CHECK_DEADLOCK FALSE
INVARIANTS
    TypeOK
    StreamInOrder
    PacketsIntact
    AnswersAreTheirs
    NothingHeldBack
PROPERTY
    EveryPacketArrives
