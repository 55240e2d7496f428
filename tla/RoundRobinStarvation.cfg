SPECIFICATION FairSpec
CONSTANTS
    N = 3
    PathStates = {"up"}
    MaxChanges = 0
    MAX_SUBFLOWS = 3
    TurnModulus = 4
PROPERTY NoStarvation
