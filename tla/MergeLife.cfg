CONSTANTS
    p = p
    q = q
    a = a
    b = b
    c = c
    master = master
    topic = topic
    fresh = fresh
    Absent = Absent
    Joined = Joined
    Marked = Marked
    Edited = Edited
    None = None
    Path <- TwoPaths
    Version <- Versions
    Branch <- Branches
    Histories <- MCLife
SPECIFICATION Spec
INVARIANT TypeOK
INVARIANT MergeIsThreeWay
INVARIANT StagesReadable
INVARIANT HardResetReachesTree
CHECK_DEADLOCK FALSE
