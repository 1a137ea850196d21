CONSTANTS
    Batches = {b1}
    RetryIDs = {}
    NDevices = 2
    Workers = {w1}
    Clients = {k1}
    HandlerResults = {"SUCCESS", "FAILED"}
    Ops = {"get", "cancel"}
    ClientsFail = FALSE
    MaxFaults = 1
    Nobody = Nobody
SPECIFICATION FairSpec
INVARIANTS
    FailFastBound
    CancelCoversAll
PROPERTIES
    ProgressIsMonotone
    EndedBatchCloses
