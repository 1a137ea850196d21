CONSTANTS
    Callers = {c1, c2, c3, c4}
    Capacity = 2
SPECIFICATION FairSpec
INVARIANTS
    TypeOK
    SlotsAccounted
    WithinCapacity
    NoLostGrant
PROPERTIES
    FIFO
    EveryWaitEnds
