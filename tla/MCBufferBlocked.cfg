SPECIFICATION FairSpec
CONSTANTS
    Producers = {p1, p2}
    GRPCProducers = {p1, p2}
    Aggregators = {}
    MaxSize = 2
    Configs <- Blocking
PROPERTY BlockedResumes
CHECK_DEADLOCK FALSE
