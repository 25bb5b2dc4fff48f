SPECIFICATION Spec
CONSTANTS
  main = main
  ws = ws
  Threads = {main, ws}
  Traders = {ws}
  Reconcilers = {main}
  Sides = {"BUY", "SELL"}
  Ids = {1, 2, 3}
  Settings <- Faultless
INVARIANT ExitNeverLocked
CHECK_DEADLOCK FALSE
