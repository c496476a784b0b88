SPECIFICATION FairSpec
CONSTANTS
    Producers = {p1, p2}
    Consumer = c
    PoolSize = 3
    MaxPushes = 4
CHECK_DEADLOCK FALSE
INVARIANTS
    NodesHaveOnePlace
    NothingLost
PROPERTY
    PopReturns
