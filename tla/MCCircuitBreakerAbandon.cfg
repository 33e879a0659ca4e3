SPECIFICATION FairCircuitSpec
CONSTANTS
    Callers = {g1, g2}
    FailureThreshold = 2
PROPERTY HalfOpenResolves
