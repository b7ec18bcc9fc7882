\* Runs to three targets over a chain that may reorganise, crashes and cancellations.
CONSTANTS
    PoolInitBlock = 1
    LastBlock = 6
    EventBlocks <- DenseEventBlocks
    Targets = {3, 4, 6}
    Configs = {c1, c2}
    BlocksPerPartition = 2
    MaxBlocksPerSubRange = 2
    MayOverflow = FALSE
    MayReorg = TRUE
    NoCheckpoint = NoCheckpoint
    NoRow = NoRow
    NoHash = NoHash
SPECIFICATION Spec
INVARIANTS TypeOK CheckpointCoversPersistedEvents CoveredEventsHaveHeaders
PROPERTIES ForkedPrefixNeverExtended
