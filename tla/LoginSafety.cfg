SPECIFICATION FairSpec
CONSTANTS
    Sessions = {s1, s2}
    Acceptor = acceptor
    Workers = {w1}
    Timer = timer
    Threshold = 0
    MaxTick = 1
    TickMod = 16
CHECK_DEADLOCK FALSE
INVARIANTS
    TypeOK
    MapIsExact
    RefsAreExact
PROPERTIES
    IterationIsStable
    OverdueEnds
    WorkerReturns
    ImplementsSessionContract
