SPECIFICATION Spec
CONSTANTS
    MaxWindows = 3
    Initial = 1
    MaxSubspaces = 2
    Anywhere = FALSE
INVARIANTS
    NothingDangles
    ChainsFollow
PROPERTIES
    FocusPassesOn
CHECK_DEADLOCK FALSE
