CONSTANTS
    MaxResults = 4
    MaxRules = 3
SPECIFICATION Spec
CHECK_DEADLOCK FALSE
INVARIANTS
    LoopIsPrecedence
    NoFabricatedApprove
    PublishedIsServable
    DecisionFollowsRules
PROPERTY
    NeverMorePermissive
