CONSTANTS
    Records = {d1, d2, d3}
    Closers = {c1, c2}
    QueueSize = 1
    None = None
    Faults = {"storeError", "closeTimeout"}
SPECIFICATION FairSpec
CHECK_DEADLOCK FALSE
INVARIANTS
    TypeOK
    NoSendOnClosed
    HandedOverOnce
    DrainedOnReturn
PROPERTIES
    AllReturn
