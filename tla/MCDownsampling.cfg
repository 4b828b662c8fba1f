SPECIFICATION FairSpec
CONSTANTS
    Clouds <- MCClouds
    LeafSize = 2
    CoordBits = 2
    SortThreshold = 3
    Blockings <- MCBlockings
INVARIANTS
    TasksApart
    SlotsOnce
    AveragedOnce
PROPERTIES
    DownsamplingTerminates
CHECK_DEADLOCK FALSE
