SPECIFICATION Spec
CONSTANTS
    a1 = a1
    a2 = a2
    A = A
    Alert <- MCAlert
    Ticker <- MCTicker
    Quote <- MCQuote
    MaxTime = 2
    MaxCrashes = 0
    Def <- MCDef
INVARIANT
    CreatedAlertListed
CHECK_DEADLOCK FALSE
