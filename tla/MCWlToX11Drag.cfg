SPECIFICATION Spec
CONSTANTS
    Windows = {w1}
    Dispatched = TRUE
    Supports = {{"copy"}, {"copy", "move"}}
    MaxDrags = 2
    MaxMoves = 4
INVARIANTS
    AssertionsHold
    EndsOnce
    OnePositionUnderWay
CHECK_DEADLOCK FALSE
