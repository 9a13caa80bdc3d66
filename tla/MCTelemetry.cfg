CONSTANTS
    Classes <- AllClasses
    Runs <- OneRun
    Jobs <- OneJob
    Conclusions <- SomeConclusions
    MaxAttempt = 2
    MaxSteps = 1
    MaxTime = 2
    MaxSent = 5
    MaxStored = 3
    Timeout = 3
    Attempts = 3
    Backoff = 1
    Minute = 3
    Waits <- SomeWaits
    Deadlines <- SomeDeadlines
SPECIFICATION TelemetrySpec
INVARIANTS
    ViewShowsFurthest TraceIsTree LogsPointIntoTrace
    NeverSleepsIntoDeadline TotalBounded PermanentIsRefusal SuccessIsStored
PROPERTIES StopsAtOnce NotResentOnceConfirmed
