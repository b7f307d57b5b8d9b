SPECIFICATION Spec
CONSTANTS
    Server = {n1, n2}
    Command = {c1, c2}
    Nil = Nil
    SnapshotThreshold = 1
    MaxTerm = 2
    MaxElections = 2
    MaxLogIndex = 2
    MaxAppends = 2
    MaxRestarts = 1
    MaxDiskFull = 1
    RestartFull = FALSE
    maxRedirects = 3
    Watched = {"disk"}
SYMMETRY Symmetry
VIEW View
INVARIANTS TypeOK LogMatching VoteDurable
CHECK_DEADLOCK FALSE
