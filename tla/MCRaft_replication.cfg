SPECIFICATION Spec
CONSTANTS
    Server = {n1, n2, n3}
    Command = {c}
    Nil = Nil
    SnapshotThreshold = 0
    MaxTerm = 3
    MaxElections = 3
    MaxLogIndex = 2
    MaxAppends = 2
    MaxRestarts = 0
    MaxDiskFull = 0
    RestartFull = FALSE
    maxRedirects = 3
    Watched = {}
SYMMETRY Symmetry
VIEW View
INVARIANTS LogMatching CommittedAgree LeaderCompleteness ElectableHasCommitted MatchIndexSound
CHECK_DEADLOCK FALSE
