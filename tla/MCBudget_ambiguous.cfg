CONSTANTS
    d1 = d1
    d2 = d2
    Decisions <- TwoDecisions
    Amount <- TwoAmounts
    MaxAmount = 2
    Limit = 3
    MaxWindow = 0
    Calls = {c1}
    Reconcilers = {r1}
    Batch = 2
    Faults = {"ambiguousCommit"}
SPECIFICATION Spec
INVARIANT
    NoOversell
