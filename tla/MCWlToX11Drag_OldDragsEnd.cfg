SPECIFICATION FairSpec
CONSTANTS
    Windows = {w1}
    Dispatched = FALSE
    Supports = {{"copy"}, {"copy", "move"}}
    MaxDrags = 1
    MaxMoves = 2
PROPERTIES
    OldDragsEnd
CHECK_DEADLOCK FALSE
