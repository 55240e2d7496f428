SPECIFICATION FairSpec
CONSTANTS
    N = 3
    PathStates = {"down", "stale", "up"}
    MaxChanges = 1
    MAX_SUBFLOWS = 3
INVARIANT TypeOK
PROPERTY KeepsContract
PROPERTY FailsOver
