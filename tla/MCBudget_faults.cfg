CONSTANTS
    d1 = d1
    d2 = d2
    Decisions <- OneDecision
    Amount <- OneAmount
    MaxAmount = 2
    Limit = 3
    MaxWindow = 0
    Calls = {c1}
    Reconcilers = {r1, r2}
    Batch = 1
    Faults = {"crash", "counterError", "ledgerError", "ambiguousCommit", "counterLoss", "rebuild", "snapshotRace"}
SPECIFICATION FairSpec
PROPERTY
    DueHoldResolved
