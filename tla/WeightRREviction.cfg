SPECIFICATION WaitSpec
CONSTANTS
    N = 2
    PathStates = {"stale", "up"}
    MaxChanges = 1
    NoEntry = NoEntry
    LocalWeights = {NoEntry, 3}
    RemoteWeights = {0}
    NeutralWeight = 1
    MaxWeight = 3
    Evictable = {1, 2}
INVARIANT CwBounded
INVARIANT BypassBounded
PROPERTY CreditKept
