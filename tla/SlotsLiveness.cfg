\* One slot with three sessions after another, a worker and a content thread: every
\* deletion ends.
CONSTANTS
    Slots = {s1}
    Acceptor = acc
    Workers = {w1}
    Callers = {c1}
    MaxAccepts = 3
    MaxIO = 2
    IdWrap = 3
    NoSlot = noslot
    NoId = noid
SPECIFICATION FairSpec
PROPERTIES
    DeletionEnds
    UnreferencedEnds
