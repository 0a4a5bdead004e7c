SPECIFICATION Spec
CONSTANTS
    o1 = o1
    s1 = s1
    NoStatus = NoStatus
    Ops = {o1, s1}
    KindsOf <- OperationAndStop
    Goals <- PinchGoal
    ActivationMode = 1
    Modes = {0, 1}
    Positions = {0, 1}
    CommandDepth = 2
    StatusDepth = 1
    MaxLives = 1
    MayShutDown = FALSE
    MaxOutages = 1
INVARIANTS
    TypeOK
    SuccessIsExecuted
    OnlyStopsOvertake
    HaltIsLast
    OneOperation
CHECK_DEADLOCK FALSE
