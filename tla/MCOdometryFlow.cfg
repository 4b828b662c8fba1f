SPECIFICATION FairSpec
CONSTANTS
    Lengths <- MCLengths
    NoFrame = NoFrame
    ThreadCounts = {1, 2, 4}
INVARIANTS
    TypeOK
    NoDataRace
    AlignsPrepared
PROPERTIES
    InOrder
    EstimateReturns
CHECK_DEADLOCK FALSE
