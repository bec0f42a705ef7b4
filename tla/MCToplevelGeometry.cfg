SPECIFICATION FairSpec
CONSTANTS
    Edge = 4
    Panel = 1
    MaxModes <- MCModes
    Sizes = {2}
    Places = {2}
    Spot = 1
    MaxSerial = 5
CONSTRAINT MCBounded
INVARIANTS PendingIsCurrent SettledModes
PROPERTIES ModesFollowAcks ReturnsToNormal EventsSettle
