CONSTANTS
    c1 = c1
    c2 = c2
    k1 = k1
    k2 = k2
    Callers <- TwoCallers
    Closers <- OneCloser
    MaxOpens = 2
SPECIFICATION StreamSpec
INVARIANT StreamOutlivesWrite
CHECK_DEADLOCK FALSE
