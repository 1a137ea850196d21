CONSTANTS
    Batches = {b1}
    RetryIDs = {}
    NDevices = 2
    Workers = {w1}
    Clients = {k1}
    HandlerResults = {"SUCCESS", "FAILED"}
    Ops = {"get", "cancel"}
    ClientsFail = FALSE
    MaxFaults = 1
    Nobody = Nobody
SPECIFICATION Spec
INVARIANTS
    ChildAuditsCompleted
