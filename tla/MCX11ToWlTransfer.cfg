SPECIFICATION FairSpec
CONSTANTS
    Total = 5
    PipeSize = 2
INVARIANTS
    CompleteMeansEverything
PROPERTIES
    ImplementsDelivery
    TransferEnds
CHECK_DEADLOCK FALSE
