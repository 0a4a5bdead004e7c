SPECIFICATION Spec
CONSTANTS
    o1 = o1
    s1 = s1
    NoStatus = NoStatus
    Ops = {o1, s1}
    KindsOf <- MoveAndStop
    Goals <- OneGoal
    ActivationMode = 0
    Modes = {0}
    Positions = {0, 1}
    CommandDepth = 2
    StatusDepth = 1
    MaxLives = 1
    MayShutDown = FALSE
    AllowAutomaticRelease = FALSE
    InitialDelay = 1
    MaxDelay = 1
    MaxFaults = 1
    MaxRestarts = 0
INVARIANT StopNeverActivates
CHECK_DEADLOCK FALSE
