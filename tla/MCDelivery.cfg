SPECIFICATION MCSpec
CONSTANTS
    MaxSize = 3
    MaxBytes = 5
    EntrySizes = {0, 1, 2, 4, 6}
    MaxPushes = 6
    FailureThreshold = 2
    MaxLen = 5
    ItemSizes = {0, 1, 3}
    LongLens = {6, 15, 16, 17, 31, 33, 40}
    Limits = {0, 1, 2, 4, 7}
    Pushers = {p1, p2}
    Poppers = {c1}
    Free = Free
    QueueSize = 2
    QueueBytes = 3
    BatchSizes = {1, 3}
    Callers = {g1, g2}
    MaxRequests = 3
    MaxSends = 3
    MaxBatches = 3
CHECK_DEADLOCK FALSE
INVARIANTS BytesBounded SplitSound Accounted HalfOpenHasResolver AnswersTrue CountersFollow
PROPERTIES ImplementsFailoverQueue CallsReturn EmergenciesEnd
