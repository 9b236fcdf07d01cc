SPECIFICATION TraderSpec
CONSTANTS
    oax = oax
    weth = weth
    Scale = 10000
    PriceScale = 10
    Markets <- BothWays
    pairs <- Listed
    Fine = 2
    PriceUnit = 2
    MaxApproved = 100
    OverHTTP = TRUE
    AskedAmounts <- Amounts
    AskedPrices <- Prices
    Levels <- AllLevels
    MaxOrders = 3
    MaxRound = 1
INVARIANTS OrderIsShown TradesAreShown BookIsRecent
CHECK_DEADLOCK FALSE
CONSTRAINT ThirdOrder
