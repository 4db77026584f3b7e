CONSTANTS
    Nodes = {n1, n2, n3}
    Keys = {k1, k2}
    Nobody = Nobody
    MaxEntries = 2
    Scenarios <- FailoverScenarios
SPECIFICATION SettledSpec
SYMMETRY Symmetry
INVARIANTS
    BranchesBegun
    InSync
    ObserveTellsLoss
CHECK_DEADLOCK FALSE
