SPECIFICATION FairSpec
CONSTANTS
    o1 = o1
    s1 = s1
    NoStatus = NoStatus
    Ops = {o1}
    KindsOf <- AnyRequest
    Goals <- HomeGoal
    ActivationMode = 0
    Modes = {0}
    Positions = {0}
    CommandDepth = 1
    StatusDepth = 1
    MaxLives = 2
    MayShutDown = TRUE
    MaxOutages = 1
PROPERTIES
    EveryRequestEnds
    ShutdownCompletes
CHECK_DEADLOCK FALSE
