CONSTANTS
    Ticker = {t1, t2}
    Listed = {t1}
    AlertId = {a1, a2}
    NoAlert = NoAlert
    MaxAttempts = 2
    MaxAlerts = 2
    MaxMoves = 2
    MaxFiring = 2
    MaxInFlight = 2
    CardTicker = t1
    MaxReloads = 1
SPECIFICATION Spec
INVARIANT PageTypeOK
INVARIANT OneConnection
INVARIANT InterestKept

PROPERTY LiveNeverGoesBack
PROPERTY CatchesUp
PROPERTY NewestAlertToasted
