CONSTANTS
    a = a
    b = b
    t1 = t1
    t2 = t2
    s1 = s1
    s2 = s2
    u1 = u1
    u2 = u2
    master = master
    dev = dev
    Blob = Blob
    None = None
    Name <- Names
    Repo <- Repos
    Commit <- Commits
    Submodules <- Modules
    Behind <- Ancestors
    Project <- Projects
    Branch <- Branches
    Master = master
    Remotes <- MCRemotes
    Options <- MCOptions
    MaxCalls = 3
    MaxFaults = 1
SPECIFICATION Spec
INVARIANT TypeOK
INVARIANT CloneIsComplete
INVARIANT UpdateReaches
INVARIANT UpdateHeals
CHECK_DEADLOCK FALSE
PROPERTY ImplementsAtomicClone
PROPERTY Ends
