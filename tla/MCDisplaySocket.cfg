SPECIFICATION FairSpec
CONSTANTS
    Processes = {p1, p2, p3}
    Displays = 2
    MaxEnds = 2
INVARIANTS
    Exclusive
PROPERTIES
    Decides
CHECK_DEADLOCK FALSE
