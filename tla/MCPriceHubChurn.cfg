SPECIFICATION Spec
CONSTANTS
    s1 = s1
    s2 = s2
    A = A
    B = B
    Socket <- MCSocket
    NoSocket = NoSocket
    Ticker <- MCTicker
    Interest <- MCInterest
    Faults = FALSE
INVARIANT
    PollerAlive
CHECK_DEADLOCK FALSE
