SPECIFICATION Spec
CONSTANTS
  rip = rip
  mirror = mirror
  Sources = {rip, mirror}
  Symbols = {"btc"}
  Prices = {1, 2}
  Fees = {0, 1}
  InitCash = 30
  Enforce = TRUE
  FeeNum = 1
  FeeDen = 10
  MaxQty = 2
  MaxOrders = 3
  Hazards = {}
SYMMETRY Sleeves
INVARIANT TypeOK
INVARIANT ReservedMatchesPending
INVARIANT NeverOverbooked
INVARIANT AttributionExact
PROPERTY ImplementsCashBook
CHECK_DEADLOCK FALSE
