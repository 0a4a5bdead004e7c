SPECIFICATION Spec
CONSTANTS
    ZeroSampleCount = 2
    MaxChunk = 2
    MaxConnections = 1
    MaxGenerations = 1
INVARIANT FailedZeroKeepsOffset
CHECK_DEADLOCK FALSE
