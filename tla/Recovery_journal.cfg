\* Journal alone, batches of two: what a crash may lose.  The behaviour ends at the bounds.
CONSTANTS
    MaxCmds = 5
    MaxCrashes = 2
    BatchSize = 2
    RotationThreshold = 0
    SnapshotInterval = 0
    TornWrites = FALSE
    Events <- MCEvents
    ReplayEvents <- MCReplayEvents
SPECIFICATION Spec
CHECK_DEADLOCK FALSE
INVARIANT ReplayInOrder
PROPERTY LossBounded
