\* Everything, with writes cut by crashes and I/O errors.
CONSTANTS
    MaxCmds = 5
    MaxCrashes = 3
    BatchSize = 2
    RotationThreshold = 3
    SnapshotInterval = 2
    TornWrites = TRUE
    Events <- MCEvents
    ReplayEvents <- MCReplayEvents
SPECIFICATION Spec
CHECK_DEADLOCK FALSE
INVARIANTS
    TypeOK
    SequenceCountsCommands
    ReplayInOrder
