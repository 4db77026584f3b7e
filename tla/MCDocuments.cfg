CONSTANTS
    k1 = k1
    c1 = c1
    c2 = c2
    NoValue = NoValue
    Keys <- MCKeys
    Clients <- MCClients
    Scenarios <- MCScenarios
SPECIFICATION Spec
INVARIANTS
    FilterCoversDisk
    PersistedMeansOnDisk
PROPERTIES
    
    
    LockHolds
CHECK_DEADLOCK FALSE
