SPECIFICATION Spec
CONSTANTS
    p1 = p1
    p2 = p2
    a = a
    b = b
    Processes <- mcOne
    Leaving <- mcNobody
    Symbols <- mcOneSymbol
    Prices <- mcPrices
    Fallback <- mcFallback
    None = None
    TTL = 2
    PromptTicks = TRUE
    MaxMoves = 0
    MaxMisses = 0
    MaxFaults = 0
PROPERTIES KeptWhileRunning
