SPECIFICATION Spec
CONSTANTS
    w1 = w1
    w2 = w2
    w3 = w3
    x = x
    y = y
    Sockets <- mcSockets
    Portfolios <- mcOnePortfolio
    Of <- mcOfOne
    Payloads <- mcPayloads
    None = None
    MaxBreaks = 0
CHECK_DEADLOCK FALSE
PROPERTIES BroadcastReachesAll
