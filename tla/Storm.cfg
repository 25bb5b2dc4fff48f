SPECIFICATION EitherSpec
CONSTANTS
    s1 = s1
    s2 = s2
    main = main
    ws = ws
    btc = btc
    eth = eth
    xrp = xrp
    Signals = {s1, s2}
    Callers = {main, ws}
    Modes <- BothModes
    Threads = {main, ws}
    Symbols = {btc, eth, xrp}
    Limits <- WindowsAndLoops
SYMMETRY Symmetry
INVARIANTS AtMostOnce NeverBlind
INVARIANTS AdmissionsBounded UnfilledBounded AfterTripBounded RetriesStop
