SPECIFICATION FairSpec
CONSTANTS
    Paths = {a}
    Subscribers = {s1, s2}
    NoPath = NoPath
    NumBuffers = 2
    MaxPool = 3
    MaxMessages = 3
    MaxFaults = 2
INVARIANTS
    WatchedOnce
PROPERTIES
    NeverBackwards
    WatchLostOnlyInTheGap
    PublishedIsSeen
    StopEndsOrHangs
CHECK_DEADLOCK FALSE
