SPECIFICATION FairSpec
CONSTANTS
    Legs = {l1, l2}
    BuyQty = {1}
    MinSell = 1
    MaxCoins = 2
    Settings <- Quiet
PROPERTY PendingResolves
CHECK_DEADLOCK FALSE
