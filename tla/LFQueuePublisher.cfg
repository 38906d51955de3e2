SPECIFICATION FairSpec
CONSTANTS
    Size = 3
    MaxSent = 7
    Paced = TRUE
    ChecksSize = TRUE
    LateCopy = TRUE
INVARIANTS
    FifoDelivery
    LateCopyIntact
    AssertHolds
PROPERTIES
    ImplementsFifo
    EveryMessageConsumed
CHECK_DEADLOCK FALSE
