SPECIFICATION Spec
CONSTANTS
    k1 = k1
    n1 = n1
    n2 = n2
    Keys = {k1}
    Nonces = {n1, n2}
    Messages <- MCMessages
    Deliveries = {d1, d2}
    MaxSkew = 1
    ConfiguredTTL = 4
    CacheTTL = 2
    PerSecond = 1
    PerMinute = 1
    MinuteLen = 2
    MaxDelay = 1
    MaxClock = 5
    MaxRevokes = 2
    None = None
SYMMETRY Symmetry
INVARIANTS
    TypeOK
    AcceptedOnce
    RevokedIsRefused
    LimiterExact
CHECK_DEADLOCK FALSE
