SPECIFICATION FairSpec
CONSTANTS
    WANs = {1, 2, 3}
    Steady = {1}
    TriesUp = 2
    Probes = {"bad", "poor", "good"}
    Nobody = Nobody
INVARIANT TypeOK
INVARIANT NoDeadPath
INVARIANT HeldIsNoFailure
PROPERTY Debounced
PROPERTY Recovers
PROPERTY FailsOver
