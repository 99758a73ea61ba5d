SPECIFICATION FairSpec
CONSTANTS
    w1 = w1
    w2 = w2
    w3 = w3
    x = x
    y = y
    Sockets <- mcSockets
    Portfolios <- mcOnePortfolio
    Of <- mcOfOne
    Payloads <- mcPayloads
    None = None
    MaxBreaks = 1
CHECK_DEADLOCK FALSE
INVARIANTS TypeOK LiveStayRegistered NoGhosts NoEmptyEntries
PROPERTIES UndisturbedIsComplete BroadcastEnds GoneUnregistered
