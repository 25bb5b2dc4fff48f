SPECIFICATION FairSpec
CONSTANTS
  main = main
  ws = ws
  Threads = {main, ws}
  Traders = {main, ws}
  Reconcilers = {main}
  Sides = {"BUY", "SELL"}
  Ids = {1, 2, 3}
  Settings <- Faultless
INVARIANT StopsMatchRecord
PROPERTY EventuallyCovered
CHECK_DEADLOCK FALSE
