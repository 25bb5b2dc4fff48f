SPECIFICATION FairGuards
CONSTANTS
    main = main
    ws = ws
    btc = btc
    eth = eth
    xrp = xrp
    Threads = {main}
    Symbols = {btc}
    Limits <- OnlyRefusals
PROPERTY ExitsKeepGoing
