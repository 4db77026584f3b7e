CONSTANTS
    Keys = {k1}
    NoKey = NoKey
    Persistence = persistence
    DcpCursors = {dcp}
    TapCursors = {}
    CheckpointMaxItems = 2
    MaxCheckpoints = 2
    KeepClosed = FALSE
    MaxSeqno = 2
    MaxChkId = 3
    MaxOffset = 0
SPECIFICATION FailoverSpec
SYMMETRY KeySymmetry
INVARIANTS
    CursorsInList
    WellFormed
    NoItemLost
CHECK_DEADLOCK FALSE
