SPECIFICATION Spec
CONSTANTS
    k1 = k1
    k2 = k2
    k3 = k3
    Keys = {k1, k2, k3}
    EMPTY = EMPTY
    Hash <- MCHash
    InitialCapacity = 4
    Horizon = 1
    Cycle = 2
    Scans <- MCScans
    Uninit = {0}
    MaxInserts = 4
INVARIANTS
    SumsOwnPoints
CHECK_DEADLOCK FALSE
