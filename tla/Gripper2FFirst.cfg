SPECIFICATION Spec
CONSTANTS
    MaxRetries = 2
    WriteResponseSize = 1
    ReadResponseSize = 2
    MaxFaults = 0
    MaxDelays = 0
INVARIANT OnlyCommandsAreSent
CHECK_DEADLOCK FALSE
