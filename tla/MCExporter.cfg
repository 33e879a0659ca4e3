SPECIFICATION MCSpec
CONSTANTS
    g1 = g1
    g2 = g2
    Goroutines = {g1, g2}
    Batches <- AllBatches
    MaxAccept = 1
    Poison = {4}
    DiskCap = 2
    MemCap = 2
    ChanCap = 1
    Configs <- Modes
CHECK_DEADLOCK FALSE
INVARIANTS OnePlace NothingForgotten UnifiedCloseKeepsData QueuedIsSafe
PROPERTIES BacklogSettles CloseReturns
