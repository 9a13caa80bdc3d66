CONSTANTS
    g1 = g1
    g2 = g2
    Guids <- TwoGuids
    Refused <- NoGuid
    Lookback = 5
    Overlap = 1
    Grace = 2
    Interval = 2
    MaxPerScan = 1
    ListDelay = 1
    ScanTime = 1
    MaxAttempts = 2
SPECIFICATION Spec
PROPERTIES NothingOverlooked LeftAloneWithinGrace AskedBeforeGivenUp
SYMMETRY Symmetric
