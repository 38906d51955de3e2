SPECIFICATION FairSpec
CONSTANTS
    c1 = c1
    Clients = {c1}
    NoSocket = NoSocket
    MaxRequests = 2
    MaxRuns = 2
    Stamps = {1}
    MaxPending = 1
    StableUpTo = 16
    Lossy = TRUE
INVARIANTS RequestsInOrder ResponsesInOrder LossSilences
PROPERTY EveryRequestAnswered
CHECK_DEADLOCK FALSE
