SPECIFICATION Spec
CONSTANTS
    Source <- MCOneSource
    Target = {0}
    NoTarget = NoTarget
    Poses = {0, 1}
    InitPoses = {0}
    MaxDistSq = 4
    Eps = 0
    Prior = 2
    Weight = 1
    Threads = {1, 2}
    Optimizers = {"LM"}
    MaxIterations = 3
    MaxInner = 2
INVARIANTS
    ErrorOfPrior
CHECK_DEADLOCK FALSE
