SPECIFICATION FairSpec
CONSTANTS
    N = 3
    PathStates = {"down", "up"}
    MaxChanges = 2
INVARIANT TypeOK
PROPERTY KeepsContract
PROPERTY MovesToBackup
