SPECIFICATION LiveSpec
CONSTANTS
    Threads <- MCThreads
    Tasks <- MCTasks
    Buckets <- MCBuckets
    Readers <- MCReaders
    Scenarios <- MCPauseScenarios
PROPERTIES
    PendingMutationIterates
CHECK_DEADLOCK FALSE
