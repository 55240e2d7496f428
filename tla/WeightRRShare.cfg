SPECIFICATION ShareSpec
CONSTANTS
    N = 4
    PathStates = {"stale", "up"}
    MaxChanges = 0
    NoEntry = NoEntry
    LocalWeights = {NoEntry, 2, 5}
    RemoteWeights = {0}
    NeutralWeight = 1
    MaxWeight = 5
    Evictable = {}
INVARIANT ExactShare
INVARIANT Interleaved
