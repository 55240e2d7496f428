SPECIFICATION FairSpec
CONSTANTS
    N = 3
    MaxStale = 2
    MaxChanges = 1
INVARIANT TypeOK
PROPERTY ChoiceIsEntitled
PROPERTY RefusesOnlyWithReason
PROPERTY StuckDataMoves
