SPECIFICATION FairSpec
CONSTANTS
    k1 = k1
    k2 = k2
    k3 = k3
    Keys = {k1, k2, k3}
    EMPTY = EMPTY
    Hash <- MCHash
    InitialCapacity = 4
    Horizon = 1
    Cycle = 2
    Scans <- MCScans
    Uninit = {0, 7}
    MaxInserts = 4
INVARIANTS
    OwnSlot
    LiveCounted
    MatchesPromise
PROPERTIES
    InsertTerminates
CHECK_DEADLOCK FALSE
