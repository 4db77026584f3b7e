CONSTANTS
    Nodes = {n1, n2}
    Keys = {k1}
    Nobody = Nobody
    MaxEntries = 3
    Scenarios <- UnpersistedScenarios
SPECIFICATION Spec
SYMMETRY Symmetry
INVARIANTS
    InSync
CHECK_DEADLOCK FALSE
