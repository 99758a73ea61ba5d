SPECIFICATION Spec
CONSTANTS
    p1 = p1
    p2 = p2
    a = a
    b = b
    Processes <- mcOne
    Leaving <- mcNobody
    Symbols <- mcOneSymbol
    Prices <- mcPrices
    Fallback <- mcFallback
    None = None
    TTL = 2
    PromptTicks = FALSE
    MaxMoves = 0
    MaxMisses = 1
    MaxFaults = 1
PROPERTIES CachedSurvivesFailure
