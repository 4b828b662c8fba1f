SPECIFICATION Spec
CONSTANTS
    Clouds <- MCClouds
    LeafSize = 2
    CoordBits = 2
    SortThreshold = 3
    Blockings <- MCBlockings
INVARIANTS
    InvalidIgnored
CHECK_DEADLOCK FALSE
