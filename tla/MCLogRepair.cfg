SPECIFICATION RepairSpec
CONSTANTS
    Server = {n1, n2, n3}
    L = n1
    F = n2
    Command = {c}
    Nil = Nil
    SnapshotThreshold = 2
    Term = 4
    MaxOldEntries = 3
    MaxInFlight = 2
    MaxTerm = 4
    MaxElections = 0
    MaxLogIndex = 3
    MaxAppends = 20
    MaxRestarts = 0
    MaxDiskFull = 0
    RestartFull = FALSE
INVARIANTS NextIndexInRange
PROPERTIES Repaired
CHECK_DEADLOCK FALSE
