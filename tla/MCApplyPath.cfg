SPECIFICATION Spec
CONSTANTS
    w1 = w1
    w2 = w2
    Worker = {w1, w2}
    Setting <- SerialOrConcurrent
    ApplyChCap = 2
    LateInstalls = FALSE
    MaxIndex = 4
    MaxRestarts = 2
INVARIANTS TypeOK StoreIsPrefix SnapshotFaithful AppliedOnce OnlyCommittedApplied
PROPERTIES EventuallyApplied
CHECK_DEADLOCK FALSE
