CONSTANTS
    Keys = {k1, k2}
    NoKey = NoKey
    Persistence = persistence
    DcpCursors = {dcp}
    TapCursors = {tap}
    CheckpointMaxItems = 2
    MaxCheckpoints = 2
    KeepClosed = FALSE
    MaxSeqno = 3
    MaxChkId = 3
    MaxOffset = 4
SPECIFICATION ActiveSpec
SYMMETRY KeySymmetry
INVARIANTS
    NoItemLost
    UnpersistedInMemory
    FlusherNotified
    CountsExact
CHECK_DEADLOCK FALSE
