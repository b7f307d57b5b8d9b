SPECIFICATION Spec
CONSTANTS
    Server = {n1, n2, n3}
    Command = {c}
    Nil = Nil
    SnapshotThreshold = 0
    MaxTerm = 2
    MaxElections = 2
    MaxLogIndex = 2
    MaxAppends = 2
    MaxRestarts = 1
    MaxDiskFull = 0
    RestartFull = FALSE
    maxRedirects = 3
    Watched = {"leaderID", "disk"}
SYMMETRY Symmetry
VIEW View
INVARIANTS ElectionSafety VotesBinding Durable HintsEnd
PROPERTIES VoteOncePerTerm ImplementsReplicatedLog
CHECK_DEADLOCK FALSE
