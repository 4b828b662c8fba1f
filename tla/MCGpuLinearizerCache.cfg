SPECIFICATION Spec
CONSTANTS
    Res = 2
    CoordBits = 4
    Targets <- MCTargets
    Sources <- MCSources
    Poses <- MCPoses
    max_dist_sq = 64
    Engines = {"gicp", "vgicp"}
    Strategies = {"Voxel3", "Voxel5", "ExactBF"}
    WarpSize = 2
    BlockSize = 4
    MaxKernels = 4
INVARIANTS
    CachePerPoint
CHECK_DEADLOCK FALSE
