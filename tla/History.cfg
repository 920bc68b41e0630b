CONSTANTS
    x = x
    y = y
    z = z
    Slash = 2
    Plans <- MCPlans
    BlamePath <- BlamedPath
SPECIFICATION Spec
INVARIANT TypeOK
INVARIANT TreeIsIndex
INVARIANT RevisionsAreVersions
INVARIANT MergeKeepsRevisions
INVARIANT BlameIsHistorical
CHECK_DEADLOCK FALSE
