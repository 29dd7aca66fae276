SPECIFICATION Spec
CONSTANTS
    c1 = c1
    c2 = c2
    Client = {c1, c2}
    Limit = 2
    Window = 3
    MaxTime = 7
INVARIANTS
    TypeOK
    WindowBound
    RejectionJustified
PROPERTIES
    RetryAfterHolds
