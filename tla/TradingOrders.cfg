SPECIFICATION FairSpec
CONSTANTS
    Prices = {1, 2}
    Clip = 2
    MaxOrderSize = 2
    MaxPosition = 3
    MaxOrders = 4
    SendsNew = TRUE
    SignedSides = FALSE
    Invalid = Invalid
INVARIANTS
    LongLimit
    OneOrderPerSide
    ResponseMeetsItsOrder
    AgreesWhenQuiet
PROPERTIES
    SentEnds
CHECK_DEADLOCK FALSE
