SPECIFICATION FairSpec
CONSTANTS
    s1 = s1
    s2 = s2
    A = A
    B = B
    Socket <- MCSocket
    NoSocket = NoSocket
    Ticker <- MCTicker
    Interest <- MCInterest
    Faults = TRUE
INVARIANTS
    TypeOK
    RegistryExact
    DiesOfChurnOnly
PROPERTIES
    BrokenLeaves
    SubscriberServed
CHECK_DEADLOCK FALSE
