SPECIFICATION FairSpec
CONSTANTS
    MaxRetries = 2
    BootListens = 1
    DetectionMax = 0
    ValidMax = 1
    MaxFaults = 1
INVARIANTS TypeOK SilenceIsBounded
PROPERTIES LateOnlyFirst ZeroInForce ReadingResumes DeactivationEnds
\* After rclcpp::shutdown() nothing is left to do.
CHECK_DEADLOCK FALSE
