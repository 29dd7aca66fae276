SPECIFICATION FairSpec
CONSTANTS
    a1 = a1
    a2 = a2
    A = A
    Alert <- MCAlert
    Ticker <- MCTicker
    Quote <- MCQuote
    MaxTime = 3
    MaxCrashes = 1
    Def <- MCDef
INVARIANTS
    TypeOK
    ToldIsPersisted
    UnexposedEditsKept
PROPERTIES
    CooldownRespected
    FiredIsAnnounced
CHECK_DEADLOCK FALSE
