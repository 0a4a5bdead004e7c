SPECIFICATION FairSpec
CONSTANTS
    MaxRetries = 1
    BootListens = 0
    DetectionMax = 0
    ValidMax = 0
    MaxFaults = 0
PROPERTY StreamStartsOrInit
CHECK_DEADLOCK FALSE
