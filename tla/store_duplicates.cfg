SPECIFICATION Spec
CONSTANTS
    mail = mail
    mail2 = mail2
    growth = growth
    value = value
    aapl = aapl
    Calls <- mcOwnerCalls
    History <- mcHistory
    MaxRequests = 5
    Names <- mcNames
    Amounts <- mcAmounts
    None = None
    AckFirst = TRUE
    MaxFaults = 0
CHECK_DEADLOCK FALSE
INVARIANT OnePositionPerSymbol
