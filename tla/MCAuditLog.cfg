CONSTANTS
    a1 = a1
    a2 = a2
    a3 = a3
    d1 = d1
    d2 = d2
    d3 = d3
    o1 = o1
    o2 = o2
    Genesis = Genesis
    Appenders <- Three
    Records <- TheRecords
    Org <- TheOrg
    MaxSeq = 3
    Faults = {"storeError", "ambiguousCommit"}
SPECIFICATION FairSpec
CHECK_DEADLOCK FALSE
INVARIANTS
    TypeOK
    ChainLinear
    AckedIsLogged
    NeverForks
PROPERTIES
    ImplementsChain
    AppendReturns
