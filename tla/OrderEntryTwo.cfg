SPECIFICATION Spec
CONSTANTS
    c1 = c1
    c2 = c2
    Clients = {c1, c2}
    NoSocket = NoSocket
    MaxRequests = 2
    MaxRuns = 1
    Stamps = {1, 2}
    MaxPending = 3
    StableUpTo = 16
    Lossy = FALSE
INVARIANTS RequestsInOrder ResponsesHaveSockets
CHECK_DEADLOCK FALSE
