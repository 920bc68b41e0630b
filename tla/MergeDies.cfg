CONSTANTS
    p = p
    q = q
    a = a
    b = b
    c = c
    master = master
    topic = topic
    fresh = fresh
    Absent = Absent
    Joined = Joined
    Marked = Marked
    Edited = Edited
    None = None
    Path <- Paths
    Version <- Versions
    Branch <- ThreeBranches
    Histories <- MCDies
SPECIFICATION Spec
INVARIANT ConflictsAreRecoverable
INVARIANT AbortReconstructs
CHECK_DEADLOCK FALSE
