SPECIFICATION FairSpec
CONSTANTS
    a = a
    b = b
    w1 = w1
    w2 = w2
    x = x
    y = y
    Symbols <- mcSymbols
    Prices <- mcPrices
    Sockets <- mcSockets
    Portfolios <- mcOnePortfolio
    Of <- mcOfOne
    None = None
    MaxQueue = 2
    MaxMoves = 1
    MaxEdits = 0
    MaxSlips = 1
    MaxFaults = 0
    MaxOutages = 0
    MaxBreaks = 1
    MaxDelays = 0
    MaxRestarts = 0
CHECK_DEADLOCK FALSE
INVARIANTS TypeOK NothingForgotten
PROPERTIES ViewsConverge
