SPECIFICATION HybridSpec
CONSTANTS
    Workers = {w1, w2}
    Files <- HybridFiles
    Metrics <- LimitMetrics
    Trackers = {"hybrid"}
    Colliding = {}
    Kept = {"u1"}
    CacheSize = 1
    MaxGroups = 2
    Threshold = 2
    MaxCalls = 2
    MaxClock = 2
    MaxEvents = 0
    Flushers = {f1, f2}
    MaxTenantBatches = 3
    MaxSwaps = 1
    MaxTime = 2
    MaxPRWRequests = 3
    MaxSeconds = 1
    Keys = {k1, k2}
    Elements = {1}
    TrackerMemory = 4
    MaxMemory = 5
    MaxSize = 1
    StateTTL = 0
    MaxIds = 2
    MaxHour = 1
    MaxRounds = 2
    MaxCrashes = 1
PROPERTIES SwitchReturns
CHECK_DEADLOCK FALSE
