SPECIFICATION SpecFlat
CONSTANTS
    Points <- MCPoints
    LeafSize = 2
    Horizon = 1
    Cycle = 2
    Scans <- MCScans
    NumOffsets = {1, 27}
    MaxInserts = 4
    MinSqDist = 2
    MaxNumPoints = 2
    PointIds = 4
    Neighbors = {1, 3}
    MaxDistance = 1000
INVARIANTS
    VisitedOnce
