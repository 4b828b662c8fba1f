SPECIFICATION Spec
CONSTANTS
    Clouds <- MCClouds
    Given <- MCGiven
    Size <- MCSize
    Sampled <- MCSampled
    Handles = {1, 2}
    Neighbors = {4, 10}
    Resolutions = {0, 1}
    Distances = {2}
    None = None
    NumFrames = 3
    Kinds = {"python"}
    few = few
    empty = empty
INVARIANTS
    DistanceAsSet
CHECK_DEADLOCK FALSE
