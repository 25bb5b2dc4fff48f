SPECIFICATION EitherSpec
CONSTANTS
    Threads = {"ws", "http"}
    Symbols = {"btc", "eth", "sol", "xrp"}
    PilotSymbols = {"btc", "eth"}
    Filtered = {"btc", "eth"}
    Fallback = {"sol"}
    LotStep = 2
    MinQty = 2
    MinNotional = 20
    HardMax = 55
    PilotMax = 45
    GrossMax = 85
    CollarPct = 10
    Quarantine = 2
    Asked = {2}
    Prices = {10, 20}
    Outcomes = {"expired exit", "lost"}
    Faults = {"halt", "restart", "move"}
    Foreign = 0
    MaxHeld = 4
    MaxSum = 80
INVARIANTS SpentWithinCap EntriesFit RawOnlyIfCut AfterHaltBounded
CHECK_DEADLOCK FALSE
