SPECIFICATION FairSpec
CONSTANTS
    N = 2
    PathStates = {"down", "up"}
    MaxChanges = 2
    NoEntry = NoEntry
    LocalWeights = {NoEntry, 2}
    RemoteWeights = {0}
    NeutralWeight = 1
    MaxWeight = 2
    Evictable = {1}
INVARIANT TypeOK
PROPERTY KeepsContract
PROPERTY TurnSpentOnlyOnSend
PROPERTY NoStarvation
