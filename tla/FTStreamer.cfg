SPECIFICATION FairSpec
CONSTANTS
    ZeroSampleCount = 2
    MaxChunk = 2
    MaxConnections = 2
    MaxGenerations = 3
INVARIANTS
    TypeOK
    OffsetIsOneCollection
    SuccessIsApplied
    NoOrphanCollection
    OneStrayWrench
PROPERTIES
    EveryZeroAnswered
    ShutdownCompletes
CHECK_DEADLOCK FALSE
