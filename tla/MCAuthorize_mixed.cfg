CONSTANTS
    r1 = r1
    r2 = r2
    r3 = r3
    r4 = r4
    k1 = k1
    k2 = k2
    Requests <- Three
    Key <- MixedKey
    Shadow <- MixedShadow
    Local <- MixedLocal
    Budgeted <- BothKeys
    Limit = 1
    Retries = "concurrent"
    Faults = {"disconnect", "cacheError", "policyError", "signError", "crash"}
SPECIFICATION FairSpec
CHECK_DEADLOCK FALSE
INVARIANTS
    TypeOK
    ApproveIsBacked
    HoldsAreApproved
PROPERTY
    AnswersAreAudited
