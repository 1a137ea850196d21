CONSTANTS
    Clients = {c1, c2, c3}
    Requests <- MCRequests
    MaxFileBytes = 2
    MaxCrashes = 1
    Nil = Nil
SYMMETRY Symmetry
SPECIFICATION Spec
INVARIANTS
    TypeOK
    AcknowledgedIsDurable
    VisibleIsComplete
