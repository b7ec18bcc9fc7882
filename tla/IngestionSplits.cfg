\* Windows of up to four blocks whose answers may overflow.
CONSTANTS
    PoolInitBlock = 1
    LastBlock = 6
    EventBlocks <- SparseEventBlocks
    Targets = {3, 4, 6}
    Configs = {c1}
    BlocksPerPartition = 2
    MaxBlocksPerSubRange = 4
    MayOverflow = TRUE
    MayReorg = TRUE
    NoCheckpoint = NoCheckpoint
    NoRow = NoRow
    NoHash = NoHash
SPECIFICATION FairSpec
INVARIANTS CompleteMeansCoveredOnce
PROPERTIES CheckpointMonotonic RunEnds
