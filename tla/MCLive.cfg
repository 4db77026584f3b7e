CONSTANTS
    Keys = {k1}
    NoKey = NoKey
    Persistence = persistence
    DcpCursors = {dcp}
    TapCursors = {}
    CheckpointMaxItems = 1
    MaxCheckpoints = 2
    KeepClosed = FALSE
    MaxSeqno = 2
    MaxChkId = 5
    MaxOffset = 0
SPECIFICATION LiveSpec
PROPERTIES
    WritesBecomeDurable
    CheckpointsReclaimed
CHECK_DEADLOCK FALSE
