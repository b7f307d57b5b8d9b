SPECIFICATION Spec
CONSTANTS
    Server = {n1, n2}
    Command = {c}
    Nil = Nil
    SnapshotThreshold = 1
    MaxTerm = 2
    MaxElections = 2
    MaxLogIndex = 2
    MaxAppends = 4
    MaxRestarts = 0
    MaxDiskFull = 0
    RestartFull = FALSE
    maxRedirects = 3
    Watched = {}
SYMMETRY Symmetry
VIEW View
PROPERTIES CommittedStable
CHECK_DEADLOCK FALSE
