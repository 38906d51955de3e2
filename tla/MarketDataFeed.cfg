SPECIFICATION FairSpec
CONSTANTS
    MaxOrders = 2
    MaxUpdates = 4
    MaxLosses = 2
    DistinctIds = TRUE
INVARIANTS
    GapsOnlyByRecovery
PROPERTIES
    SnapshotIsBookAtItsNumber
    RecoveryEnds
CHECK_DEADLOCK FALSE
