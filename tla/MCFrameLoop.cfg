SPECIFICATION FairSpec
CONSTANTS
    Outputs = {1, 2}
    Windows = {1}
    Coverage <- MCBoth
CONSTRAINT MCBounded
INVARIANTS
    NoStall
    SwapIsUnderWay
    FeedbackToLive
    RepaintsOnOutputs
PROPERTIES
    FramesArrive
CHECK_DEADLOCK FALSE
