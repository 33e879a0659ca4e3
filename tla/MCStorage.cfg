SPECIFICATION MCSpec
CONSTANTS
    Producers = {p1, p2}
    GRPCProducers = {}
    Aggregators = {p2}
    MaxSize = 2
    Configs <- AllPolicies
    BlockBytes = 2
    ChunkFileSize = 5
    MaxInmemoryBlocks = 1
    WriteBufferBlocks = 2
    MaxBlocks = 4
    First = g1
    Second = g2
    MaxSeries = 2
    MaxBatchSize = 2
    QueueSize = 2
    ChannelSize = 1
    Accepts = 1
    Poisoned = {3}
    DrainSize = 2
    BurstSize = 1
    c1 = c1
    c2 = c2
    Calls = {c1, c2}
    Fallback = 0
    Points <- CallPoints
    Hashes <- HashValues
    KeyHash <- HashOfKey
    Placements <- AllPlacements
    Endpoints = {1, 2, 3}
    Limit = 2
    MaxChanges = 1
INVARIANTS
    EntryInOnePlace
    OvershootBounded
    FinalFlushTakesAll
    InOrder
    CountCovers
    ReaderChunkKept
    AnsweredIsAccountedFor
    ShutdownKeepsAnswered
    OpenIsInMap
    NilMeansSent
PROPERTY MinimalMoves
CHECK_DEADLOCK FALSE
