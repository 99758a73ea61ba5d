SPECIFICATION FairSpec
CONSTANTS
    p1 = p1
    p2 = p2
    a = a
    b = b
    Processes <- mcTwo
    Leaving <- mcOne
    Symbols <- mcOneSymbol
    Prices <- mcPrices
    Fallback <- mcFallback
    None = None
    TTL = 2
    PromptTicks = FALSE
    MaxMoves = 2
    MaxMisses = 1
    MaxFaults = 2
INVARIANTS NoSilentPrice
PROPERTIES ImplementsFeed CacheTracksQuote
