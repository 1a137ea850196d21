CONSTANTS
    Callers = {c1, c2, c3}
    Devices = {d1, d2}
    Entries = {e1, e2, e3}
    Nil = Nil
    MaxGlobal = 1
SPECIFICATION FairSpec
INVARIANTS
    TypeOK
    DeviceExclusive
    ReferencesExact
    NoEntryLeak
    NoIdleGlobalSlot
PROPERTIES
    ImplementsGlobalSemaphore
    ImplementsDeviceSemaphores
    EveryCallEnds
