SPECIFICATION FairSpec
CONSTANTS
    N = 5
    MaxDate = 3
    MaxSkew = 2
    Commit <- MCCommit
    Histories <- AllHistories
INVARIANTS TypeOK ResultsAreCommon MergeBasesExact
PROPERTY Terminates
CHECK_DEADLOCK FALSE
