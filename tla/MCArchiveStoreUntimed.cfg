CONSTANTS
    r1 = r1
    r2 = r2
    Records <- TwoRecords
    Gzip = TRUE
    RotateSize = TRUE
    RotateEvery = FALSE
    MaxAppends = 3
SPECIFICATION Spec
INVARIANT AckedIsReadable
SYMMETRY Symmetric
