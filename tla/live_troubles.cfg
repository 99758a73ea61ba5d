SPECIFICATION FairSpec
CONSTANTS
    a = a
    b = b
    w1 = w1
    w2 = w2
    x = x
    y = y
    Symbols <- mcSymbols
    Prices <- mcPrices
    Sockets <- mcOneSocket
    Portfolios <- mcOnePortfolio
    Of <- mcOfAlone
    None = None
    MaxQueue = 2
    MaxMoves = 1
    MaxEdits = 1
    MaxSlips = 0
    MaxFaults = 1
    MaxOutages = 1
    MaxBreaks = 1
    MaxDelays = 1
    MaxRestarts = 1
CHECK_DEADLOCK FALSE
INVARIANTS NothingForgotten
PROPERTIES ViewsConverge
