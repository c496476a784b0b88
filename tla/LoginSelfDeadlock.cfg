SPECIFICATION FairSpec
CONSTANTS
    Sessions = {s1}
    Acceptor = acceptor
    Workers = {w1}
    Timer = timer
    Threshold = 1
    MaxTick = 2
    TickMod = 16
CHECK_DEADLOCK FALSE
PROPERTY
    TimerReturns
