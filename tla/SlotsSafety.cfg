\* One slot is reused by three sessions while two workers, a content thread and
\* the accept thread work on it.
CONSTANTS
    Slots = {s1}
    Acceptor = acc
    Workers = {w1, w2}
    Callers = {c1}
    MaxAccepts = 3
    MaxIO = 1
    IdWrap = 3
    NoSlot = noslot
    NoId = noid
SPECIFICATION Spec
INVARIANTS
    TypeOK
    CountIsReferences
    OwnersAreExclusive
    UsersHaveTheirSession
    NoOrphan
    AcceptorFindsItsSession
PROPERTIES
    DisconnectOnce
    ImplementsSlotPool
SYMMETRY Symmetry
