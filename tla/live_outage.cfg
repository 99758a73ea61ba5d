SPECIFICATION FairSpec
CONSTANTS
    a = a
    b = b
    w1 = w1
    w2 = w2
    x = x
    y = y
    Symbols <- mcSymbols
    Prices <- mcPrices
    Sockets <- mcOneSocket
    Portfolios <- mcOnePortfolio
    Of <- mcOfAlone
    None = None
    MaxQueue = 2
    MaxMoves = 0
    MaxEdits = 0
    MaxSlips = 0
    MaxFaults = 0
    MaxOutages = 1
    MaxBreaks = 0
    MaxDelays = 0
    MaxRestarts = 0
CHECK_DEADLOCK FALSE
PROPERTIES ViewsSurviveOutage
