CONSTANTS
    g1 = g1
    g2 = g2
    Guids <- TwoGuids
    Refused <- OneGuid
    Lookback = 3
    Overlap = 1
    Grace = 1
    Interval = 1
    MaxPerScan = 1
    ListDelay = 0
    ScanTime = 0
    MaxAttempts = 2
SPECIFICATION Spec
PROPERTY AskedBeforeGivenUp
