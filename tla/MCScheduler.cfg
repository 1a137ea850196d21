CONSTANTS
    Tasks = {t1, t2}
    Workers = {w1, w2}
    Nobody = Nobody
    HandlerResults = {"SUCCESS"}
    RecoveryLimit = 1
    MaxClock = 1
    MaxFaults = 1
SPECIFICATION Spec
SYMMETRY Symmetry
INVARIANTS
    TypeOK
    AtMostOnce
    RunningIsOwned
    CancelReachesHandler
    ResultIsKept
    FewConflicts
PROPERTIES
    ImplementsTaskMachine
