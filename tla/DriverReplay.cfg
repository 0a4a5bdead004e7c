SPECIFICATION Spec
CONSTANTS
    Modes = {0}
    Positions = {0}
    CommandDepth = 1
    StatusDepth = 1
    Shapes <- MCOneShape
    AllowAutomaticRelease = FALSE
    InitialDelay = 1
    MaxDelay = 3
    MaxCommands = 1
    MaxFaults = 1
    MaxRestarts = 0
INVARIANT NeverReplayed
CHECK_DEADLOCK FALSE
