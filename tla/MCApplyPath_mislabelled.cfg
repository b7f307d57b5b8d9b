SPECIFICATION Spec
CONSTANTS
    w1 = w1
    w2 = w2
    Worker = {w1, w2}
    Setting <- OnlyCompacting
    ApplyChCap = 2
    LateInstalls = FALSE
    MaxIndex = 3
    MaxRestarts = 0
INVARIANTS SnapshotFaithful
CHECK_DEADLOCK FALSE
