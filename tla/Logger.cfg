SPECIFICATION LoggerSpec
CONSTANTS
    Size = 3
    MaxSent = 8
    Paced = FALSE
    ChecksSize = TRUE
    LateCopy = FALSE
INVARIANTS
    ClosedIsWritten
PROPERTIES
    LapHangsShutdown
    ShutdownEnds
CHECK_DEADLOCK FALSE
