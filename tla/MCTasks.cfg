SPECIFICATION LiveSpec
CONSTANTS
    Threads <- MCThreads
    Tasks <- MCTasks
    Buckets <- MCBuckets
    Readers <- MCReaders
    Scenarios <- MCScenarios
INVARIANTS
    OnePlace
    PoolCountersExact
    
    FetchNotForgotten
PROPERTIES
    WorkServed
    
CHECK_DEADLOCK FALSE
