CONSTANTS
    s1 = s1
    s2 = s2
    u1 = u1
    u2 = u2
    k1 = k1
    k2 = k2
    Uuids <- TwoIds
    Slots <- OneSlot
    Sinks <- OneSink
    StartFrom <- AllEarliest
    Overrun <- NoSink
    MaxLog = 2
    MaxStalled = 1
    MaxAckPending = 2
SPECIFICATION FairSpec
INVARIANT StalledIsUnsettled
PROPERTY FlowsAroundStalled
