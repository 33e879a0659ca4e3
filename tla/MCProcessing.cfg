SPECIFICATION MCSpec
CONSTANTS
    Workers = {w1, w2}
    Streams <- MCStreams
    Files <- MCFiles
    CacheSize = 1
    MaxReloads = 1
    Units = {"rules", "shutdown", "downsample", "accumulate", "relabel", "wire"}
    Methods = {"avg", "min", "max", "sum", "count", "last", "delta", "lttb", "sdt", "adaptive"}
    Window = 2
    Deviation = 2
    Wrap = 64
    MaxOneIn = 2
    Stamps = {0, 1, 2, 4}
    Vals = {0, 5}
    MaxPoints = 4
    Reservoir = 2
    Seconds = 10
    AccVals = {0, 1, 4}
    MaxAdds = 4
    MaxWindows = 1
    MaxBatch = 2
    MaxEdits = 1
    Schemas <- MCSchemas
    OtlpTypes <- MCOtlpTypes
    Depth = 1
INVARIANTS  AggregateOnce ShutdownDelivers DownsamplingSound AccumulatorsSound OneName WireSound
CHECK_DEADLOCK FALSE
PROPERTY GroupsFlushed
