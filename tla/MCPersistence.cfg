CONSTANTS
    MaxSeqno = 3
    MaxTables = 2
    SeqnoModulus = 3
SPECIFICATION MCSpec
INVARIANTS
    AckedDurable
    StateDurable
PROPERTIES
    DocumentsKept
    WaiterAnswered
CHECK_DEADLOCK FALSE
