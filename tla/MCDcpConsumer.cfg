SPECIFICATION LiveSpec
CONSTANTS
    c1 = c1
    c2 = c2
    v1 = v1
    v2 = v2
    Conns = {c1, c2}
    VBs = {v1, v2}
    NoVB = NoVB
    MaxOpaque = 2
    Scenarios <- ConsumerScenarios
INVARIANTS
    FlowAccounted
    BufferedNotForgotten
    BufferSizeAgreed
    HandoverAfterEverything
PROPERTIES
    AppliedInOrder
    EverythingApplied
    
CHECK_DEADLOCK FALSE
