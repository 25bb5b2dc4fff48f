SPECIFICATION Spec
CONSTANTS
    main = main
    ws = ws
    Threads = {main}
    Traders = {main}
    Reconcilers = {main}
    Sides = {"BUY", "SELL"}
    Ids = {1, 2, 3, 4}
    Settings <- AnySettings
INVARIANTS ExitNeverLocked ExitCancelsEveryStop NoSilentNaked CoveredAfterReconcile
CHECK_DEADLOCK FALSE
