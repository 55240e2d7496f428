SPECIFICATION FairSpec
CONSTANTS
    N = 3
    PathStates = {"down", "up"}
    MaxChanges = 1
    MAX_SUBFLOWS = 3
    TurnModulus = 4
INVARIANT TypeOK
PROPERTY KeepsContract
PROPERTY TurnSpentOnlyOnSend
PROPERTY StableRotation
