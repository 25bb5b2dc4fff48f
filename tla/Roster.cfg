SPECIFICATION Spec
CONSTANTS
    ibs = ibs
    rsirev = rsirev
    Order <- Both
    Intraday = {rsirev}
    Prices = {2, 3, 4}
    Slices = {4}
    Settings <- AnySettings
    MaxEntries = 2
    MaxKills = 1
    MaxBoots = 1
INVARIANTS SoldAtMostWhole BoughtOnceThenSold FloorHolds RunnerTrails KilledStaysFlat
CHECK_DEADLOCK FALSE
