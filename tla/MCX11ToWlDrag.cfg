SPECIFICATION FairSpec
CONSTANTS
    MaxDrags = 2
    MaxVisits = 2
    MaxRequests = 2
    MaxMessages = 1
    Dispatched = TRUE
INVARIANTS
    OnlyCurrentMapped
PROPERTIES
    AnswersAfterTransfers
    DroppedDragsEnd
CHECK_DEADLOCK FALSE
