SPECIFICATION SearchSpec
CONSTANTS
    Size = 8
    MaxLeafSize = 3
    ParallelThreshold = 4
    Axes <- MCAxes
    Coord <- MCCoord
    UninitIndex <- MCUninit
    Queries <- MCQueries
    Neighbors = {1, 3}
    Epsilons = {0, 6}
    MaxDistance = 1000
INVARIANTS
    TypeOK
    NodesInBounds
    NodesUnique
    NoIndexRace
    TreeCorrect
    NearestFound
PROPERTIES
    BuildTerminates
