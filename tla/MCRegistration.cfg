SPECIFICATION FairSpec
CONSTANTS
    Source <- MCSource
    Target <- MCTarget
    NoTarget = NoTarget
    Poses <- MCPoses
    InitPoses <- MCPoses
    MaxDistSq = 4
    Eps = 1
    Prior = 0
    Weight = 0
    Threads = {1, 2}
    Optimizers = {"GN", "LM", "GPU"}
    MaxIterations = 3
    MaxInner = 2
INVARIANTS
    SystemIsSerialSum
    FinalError
PROPERTIES
    Descends
    AlignTerminates
CHECK_DEADLOCK FALSE
