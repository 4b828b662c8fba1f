SPECIFICATION CloudSpec
CONSTANTS
    Res = 2
    CoordBits = 3
    RawClouds <- MCRawClouds
    Neighbors = {3}
    Hash <- MCHash
    EMPTY = EMPTY
    MinCapacity = 4
    MaxShell = 2
    MinNeighbors = 2
    BfMaxPoints = 4
    MaxClouds = 2
INVARIANTS
    IndexOverKeys
CHECK_DEADLOCK FALSE
