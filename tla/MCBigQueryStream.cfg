CONSTANTS
    c1 = c1
    c2 = c2
    k1 = k1
    k2 = k2
    Callers <- TwoCallers
    Closers <- TwoClosers
    MaxOpens = 2
SPECIFICATION StreamFairSpec
INVARIANTS SharesOne NoneLeaked
PROPERTIES ImplementsLazyOpen NeverWedged
CHECK_DEADLOCK FALSE
