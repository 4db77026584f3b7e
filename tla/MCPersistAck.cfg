CONSTANTS
    MaxSeqno = 3
    MaxTables = 2
    SeqnoModulus = 65536
SPECIFICATION Spec
INVARIANTS
    PersistedSeqnoInFile
CHECK_DEADLOCK FALSE
