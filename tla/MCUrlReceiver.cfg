SPECIFICATION FairSpec
CONSTANTS
    MaxLen = 7
    MaxPasses = 12
INVARIANTS
    RemovesEverySecondLine
PROPERTIES
    OneUrlEnds
CHECK_DEADLOCK FALSE
