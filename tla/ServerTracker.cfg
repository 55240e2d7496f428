SPECIFICATION FairSpec
CONSTANTS
    Masters = {1}
    Backups = {2, 3}
    Named = {1}
    MaxRestarts = 2
INVARIANT TypeOK
INVARIANT Served
INVARIANT HoldMeansBackup
PROPERTY BackupKept
PROPERTY StatusFollows
PROPERTY EndsWhereItShould
PROPERTY Settles
