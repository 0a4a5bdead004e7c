SPECIFICATION FairSpec
CONSTANTS
    Modes = {0, 4}
    Positions = {0}
    CommandDepth = 1
    StatusDepth = 1
    Shapes <- MCShapes
    AllowAutomaticRelease = FALSE
    InitialDelay = 1
    MaxDelay = 3
    MaxCommands = 2
    MaxFaults = 2
    MaxRestarts = 1
INVARIANTS
    TypeOK
    WrittenInOrder
    WrittenAuthorised
    StoredStaysInSession
    LastIdIsLastWrite
PROPERTIES
    ImplementsContract
    EventuallyServing
    SlotDrains
    ShutdownCompletes
CHECK_DEADLOCK FALSE
