SPECIFICATION FairSpec
CONSTANTS
    p1 = p1
    p2 = p2
    a = a
    b = b
    Processes <- mcOne
    Leaving <- mcNobody
    Symbols <- mcTwoSymbols
    Prices <- mcPrices
    Fallback <- mcFallback
    None = None
    TTL = 2
    PromptTicks = FALSE
    MaxMoves = 2
    MaxMisses = 1
    MaxFaults = 1
INVARIANTS TypeOK TickIsConsistent
PROPERTIES SilenceEnds CacheTracksQuote HeldIsPriced
