SPECIFICATION Spec
CONSTANTS
    ElectionTimeout = 3
    HeartbeatInterval = 1
    Steps = {1, 2}
    MaxInFlight = 2
INVARIANTS HeartbeatsHold
PROPERTIES FullTimeout SilenceBeforeElection ElectsAfterStop LoopsEnd
