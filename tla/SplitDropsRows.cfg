\* A split window is covered without a row.
CONSTANTS
    PoolInitBlock = 1
    LastBlock = 5
    EventBlocks <- MCEventBlocks
    Targets = {3, 4, 5}
    Configs = {c1}
    BlocksPerPartition = 2
    MaxBlocksPerSubRange = 2
    MayOverflow = TRUE
    MayReorg = FALSE
    NoCheckpoint = NoCheckpoint
    NoRow = NoRow
    NoHash = NoHash
SPECIFICATION Spec
INVARIANTS CheckpointCoversPersistedEvents
