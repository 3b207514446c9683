CONSTANTS
    d1 = d1
    d2 = d2
    Decisions <- TwoDecisions
    Amount <- TwoAmounts
    MaxAmount = 2
    Limit = 3
    MaxWindow = 1
    Calls = {c1, c2}
    Reconcilers = {r1, r2}
    Batch = 2
    Faults = {"crash", "counterError", "ledgerError"}
SPECIFICATION Spec
SYMMETRY ProcessSymmetry
INVARIANTS
    TypeOK
    NoOversell
    CounterCoversLedger
    ReleasedAtMostOnce
    NoPhantomSpend
    AnswersHold
PROPERTIES
    TerminalStates
    ImplementsGate
