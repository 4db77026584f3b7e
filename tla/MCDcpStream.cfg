SPECIFICATION Spec
CONSTANTS
    Keys = {k1, k2}
    k1 = k1
    k2 = k2
    NoKey = NoKey
    Persistence = Persistence
    Stream = Stream
    NoMessage = NoMessage
    DcpCursors = {Stream}
    TapCursors = {}
    CheckpointMaxItems = 1
    MaxCheckpoints = 2
    KeepClosed = FALSE
    MaxSeqno = 3
    Scenarios <- AllScenarios
    ItemSize = 2
    BackfillMaxBytes = 3
    LogMaxBytes = 1
INVARIANTS
    MessagesInOrder
    
    BufferAccounted
    
PROPERTIES
    PhasesEnd
CHECK_DEADLOCK FALSE
