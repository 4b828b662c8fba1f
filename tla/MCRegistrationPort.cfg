SPECIFICATION Spec
CONSTANTS
    Source <- MCOneSource
    Target = {1}
    NoTarget = NoTarget
    Poses = {0, 1}
    InitPoses = {0}
    MaxDistSq = 4
    Eps = 0
    Prior = 0
    Weight = 0
    Threads = {1, 2}
    Optimizers = {"GPU"}
    MaxIterations = 1
    MaxInner = 2
INVARIANTS
    ErrorAsPorted
CHECK_DEADLOCK FALSE
