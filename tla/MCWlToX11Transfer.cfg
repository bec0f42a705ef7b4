SPECIFICATION FairSpec
CONSTANTS ChunkSize = 2
          DataLen = 6
INVARIANTS IInv ReceivedInOrder DoneMeansEverything
PROPERTIES NeverOverwritten ImplementsDelivery TransferEnds
CHECK_DEADLOCK FALSE
