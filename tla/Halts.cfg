SPECIFICATION FairSpec
CONSTANTS
    w1 = w1
    w2 = w2
    Order <- MCOrder
    Bps <- MCBps
    Settings <- AnySettings
    MaxTrades = 3
    MaxBoots = 1
    MaxResets = 1
INVARIANTS CapHolds KillHolds EquityIsAllTrades PeakKept LockedIffGivenBack EmergencyShuts
PROPERTIES GateReopens
