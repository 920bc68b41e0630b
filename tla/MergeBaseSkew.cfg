SPECIFICATION Spec
CONSTANTS
    N = 4
    MaxDate = 3
    MaxSkew = 0
    Commit <- MCCommit
    Histories <- SkewedHistories
INVARIANT NoBaseMeansUnrelated
CHECK_DEADLOCK FALSE
