SPECIFICATION Spec
CONSTANTS
    blob1 = blob1
    blob2 = blob2
    tree1 = tree1
    tree2 = tree2
    commit1 = commit1
    commit2 = commit2
    commit3 = commit3
    stray = stray
    dropped = dropped
    Object <- MCObject
    Points <- MCPoints
    First = commit1
    Packed <- MCPacked
    Garbage <- MCGarbage
    Changes <- MCChanges
    Limited = TRUE
    MayDie = TRUE
INVARIANT TypeOK
INVARIANT NothingLost
INVARIANT StoredStays
