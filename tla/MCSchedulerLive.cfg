CONSTANTS
    Tasks = {t1}
    Workers = {w1}
    Nobody = Nobody
    HandlerResults = {"SUCCESS"}
    RecoveryLimit = 2
    MaxClock = 2
    MaxFaults = 2
SPECIFICATION FairSpec
PROPERTIES
    QueuedTaskEnds
    PendingIsRecovered
