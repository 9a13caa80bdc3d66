CONSTANTS
    s1 = s1
    s2 = s2
    Sinks <- TwoSinks
    Drivers <- AllDrivers
    HasRecovery = TRUE
    Faulty = TRUE
    Overrun <- OneSink
SPECIFICATION FairSpec
INVARIANTS AcceptsOnlyDelivered NothingUsedAfterClose EverythingReleased NoFailureHidden
PROPERTY ShutdownCompletes
CHECK_DEADLOCK FALSE
