SPECIFICATION Spec
CONSTANTS
    Legs = {l1, l2}
    BuyQty = {2, 3}
    MinSell = 2
    MaxCoins = 5
    Settings <- AnySettings
SYMMETRY Tags
INVARIANTS SoldOnce BookedOnce NothingStranded HoldsBacked FileCurrent
CHECK_DEADLOCK FALSE
