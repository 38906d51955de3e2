SPECIFICATION ClientSpec
CONSTANTS
    MaxPriceLevels = 4
    DistinctIds = TRUE
    Null = Null
    Clients = {0}
    Tickers = {0}
    BuyPrices = {2, 3}
    SellPrices = {1, 3, 6}
    Qtys = {1, 2}
    MaxOrders = 4
INVARIANTS
    BookWellFormed
    ReplicaIsBook
    QuoteIsBest
    NotCrossed
    QuantityConserved
PROPERTIES
    EndedOrdersStayEnded
    ImplementsPriceTime
    MatchingEnds
CHECK_DEADLOCK FALSE
