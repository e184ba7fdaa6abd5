SPECIFICATION FairSpec
CONSTANTS
    NullId = none
    NoItem = none
    Channels = {"a", "b"}
    Ids = {1, 2, 3}
    Published <- SomePublished
    LastIdsMax = 1
    PendingMax = 2
    WaitMax = 1
    IdCacheTtl = 1
    MaxTime = 2
PROPERTIES
    PendingIsSignalledOrCleared
    GapOnlyAfterWait
    PendingLeaves
