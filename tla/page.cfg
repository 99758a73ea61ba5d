SPECIFICATION PageFairSpec
CONSTANTS
    x = x
    y = y
    Portfolios <- mcPortfolios
    Filled <- mcFilled
    None = None
    Strict = TRUE
    MaxRuns = 2
    MaxBreaks = 1
    MaxAdds = 1
    MaxEvents = 1
    MaxTroubles = 1
CHECK_DEADLOCK FALSE
INVARIANTS TypeOK PageTypeOK OnePerRun NeverGivesUp LeavesFewer BadgeIsTrue
PROPERTIES Reconnects OnlyExpiryTakesBack PageComesRight
