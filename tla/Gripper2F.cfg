SPECIFICATION FairSpec
CONSTANTS
    MaxRetries = 2
    WriteResponseSize = 1
    ReadResponseSize = 2
    MaxFaults = 2
    MaxDelays = 1
INVARIANTS
    TypeOK
    DriverNotShared
    NoMotionUnlessActivated
    AnswerIsOwn
    InactiveIsOff
    LagIsBounded
PROPERTIES
    EveryRequestAnswered
    DeactivationEnds
CHECK_DEADLOCK FALSE
