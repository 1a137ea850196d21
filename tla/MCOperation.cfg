CONSTANTS
    Users <- MCUsers
    KeyID = "k"
    Absent = Absent
    Clients = {1, 2, 3}
    Scenarios <- MCScenarios
    CredIds = {"c1", "c2", "c3", "c4"}
    DevIds = {"d1", "d2", "d3"}
    InitCreds <- MCInitCreds
    InitDevices <- MCInitDevices
    Detections <- MCDetections
    MaxKeyVersion = 2
    Workers = 2
    MaxFaults = 1
SPECIFICATION Spec
INVARIANTS
    TypeOK
    KeyExecutesOnce
    ConfigOnlyWhereDetected
    
PROPERTIES
    SentWasApproved
