SPECIFICATION Spec
CONSTANTS
    BlockBytes = 2
    ChunkFileSize = 9
    MaxInmemoryBlocks = 1
    WriteBufferBlocks = 2
    MaxSize = 4
    Configs <- Quiet
CHECK_DEADLOCK FALSE
INVARIANT NothingSkipped
