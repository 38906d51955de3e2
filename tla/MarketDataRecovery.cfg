SPECIFICATION Spec
CONSTANTS
    MaxOrders = 1
    MaxUpdates = 2
    MaxLosses = 1
    DistinctIds = TRUE
INVARIANT RecoveryRestoresBook
CHECK_DEADLOCK FALSE
