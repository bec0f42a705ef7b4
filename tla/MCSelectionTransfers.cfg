SPECIFICATION FairTransfersSpec
CONSTANTS
    Transfers = {t1, t2, t3}
    Requestors = {w1}
    Properties = {p1}
INVARIANTS
    VectorsExact
    TimerIffTransfers
PROPERTIES
    EveryTransferEnds
CHECK_DEADLOCK FALSE
