SPECIFICATION FairSpec
CONSTANTS
    Policies = {p1}
    Names = {n1}
    RuleSets = {r1, r2, bad}
    Publishable = {r1, r2}
    Calls = {c1, c2}
    Readers = {d1}
    Instances = {i1}
    MaxOps = 4
    MaxRestarts = 1
    None = None
INVARIANTS
    TypeOK
    ServedIsPublished
    LineageIsHistory
    UndisturbedTakesEffect
PROPERTIES
    Converges
CHECK_DEADLOCK FALSE
