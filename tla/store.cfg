SPECIFICATION FairSpec
CONSTANTS
    mail = mail
    mail2 = mail2
    growth = growth
    value = value
    aapl = aapl
    Calls <- mcCalls
    History <- mcHistory
    MaxRequests = 5
    Names <- mcNames
    Amounts <- mcAmounts
    None = None
    AckFirst = TRUE
    MaxFaults = 1
CHECK_DEADLOCK FALSE
INVARIANTS TypeOK PositionsHaveFolio OnlyRacesDuplicate EmailsUnique AckedHappens SomebodyGoesOn
PROPERTIES UndisturbedUpdate ImplementsAtomicStore RequestsEnd
