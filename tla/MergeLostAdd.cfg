CONSTANTS
    p = p
    q = q
    a = a
    b = b
    c = c
    master = master
    topic = topic
    fresh = fresh
    Absent = Absent
    Joined = Joined
    Marked = Marked
    Edited = Edited
    None = None
    Path <- TwoPaths
    Version <- Versions
    Branch <- Branches
    Histories <- MCLostAdd
SPECIFICATION Spec
INVARIANT MergeIsThreeWay
CHECK_DEADLOCK FALSE
