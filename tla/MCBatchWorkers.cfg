CONSTANTS
    Batches = {b1, b2}
    RetryIDs = {b2}
    NDevices = 2
    Workers = {w1, w2}
    Clients = {k1}
    HandlerResults = {"SUCCESS", "FAILED"}
    Ops = {"retry"}
    ClientsFail = TRUE
    MaxFaults = 1
    Nobody = Nobody
SPECIFICATION Spec
SYMMETRY Symmetry
INVARIANTS
    TypeOK
    ClosedIsTrue
    FailFastStops
    RetryOnlyFailed
PROPERTIES
    ImplementsTaskMachine
