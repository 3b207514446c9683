CONSTANTS
    r1 = r1
    r2 = r2
    r3 = r3
    r4 = r4
    k1 = k1
    k2 = k2
    Requests <- Four
    Key <- RivalKey
    Shadow <- NoShadow
    Local <- RivalLocal
    Budgeted <- BothKeys
    Limit = 1
    Retries = "sequential"
    Faults = {"policyError"}
SPECIFICATION Spec
CHECK_DEADLOCK FALSE
INVARIANTS
    OneDecisionPerKey
    OneHoldPerKey
