SPECIFICATION Spec
CONSTANTS
    XClients = {c1, c2}
    Mimes = {m1, m2}
    MaxTime = 5
    MaxNative = 2
    MaxQueue = 2
SYMMETRY Symmetry
INVARIANTS
    AtMostOneSource
    Shielded
    SelectionLives
    FollowsFocus
CHECK_DEADLOCK FALSE
