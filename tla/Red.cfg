SPECIFICATION Spec
CONSTANTS
    N = 3
    PathStates = {"down", "stale", "up"}
    MaxChanges = 2
    MAX_SUBFLOWS = 3
INVARIANT TypeOK
PROPERTY MarksArePermitted
PROPERTY CopiesEverywhere
