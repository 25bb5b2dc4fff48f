SPECIFICATION Spec
CONSTANTS
    ibs = ibs
    rsirev = rsirev
    Order <- Alone
    Intraday = {rsirev}
    Prices = {2, 3, 4}
    Slices = {24}
    Settings <- Everyday
    MaxEntries = 1
    MaxKills = 0
    MaxBoots = 0
INVARIANTS ExitSellsWhatIsHeld
CHECK_DEADLOCK FALSE
