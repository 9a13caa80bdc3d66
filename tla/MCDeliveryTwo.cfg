CONSTANTS
    s1 = s1
    s2 = s2
    u1 = u1
    u2 = u2
    k1 = k1
    k2 = k2
    Uuids <- OneId
    Slots <- TwoSlots
    Sinks <- TwoSinks
    StartFrom <- SecondNow
    Overrun <- OneSink
    MaxLog = 1
    MaxStalled = 1
    MaxAckPending = 2
SPECIFICATION Spec
INVARIANTS OneAttemptAtATime AckedWasHandled NothingSkipped
PROPERTY KeepsPromise
