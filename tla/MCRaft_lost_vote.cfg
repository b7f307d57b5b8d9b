SPECIFICATION Spec
CONSTANTS
    Server = {n1, n2, n3}
    Command = {c}
    Nil = Nil
    SnapshotThreshold = 0
    MaxTerm = 2
    MaxElections = 2
    MaxLogIndex = 0
    MaxAppends = 0
    MaxRestarts = 1
    MaxDiskFull = 1
    RestartFull = TRUE
    maxRedirects = 3
    Watched = {}
SYMMETRY Symmetry
PROPERTIES VoteOncePerTerm
CHECK_DEADLOCK FALSE
