SPECIFICATION Spec
CONSTANTS
    MaxPriceLevels = 4
    DistinctIds = FALSE
    Null = Null
    Clients = {0}
    Tickers = {0}
    BuyPrices = {1}
    SellPrices = {1, 2, 3}
    Qtys = {1}
    MaxOrders = 3
INVARIANT AsksSorted
CHECK_DEADLOCK FALSE
