SPECIFICATION Spec
CONSTANTS
    Clouds <- MCClouds
    Given <- MCGiven
    Size <- MCSize
    Sampled <- MCSampled
    Handles = {1, 2}
    Neighbors = {4, 10}
    Resolutions = {1, 2}
    Distances = {2}
    None = None
    NumFrames = 3
    Kinds = {"calls"}
    few = few
    empty = empty
INVARIANTS
    ResolutionAsSet
CHECK_DEADLOCK FALSE
