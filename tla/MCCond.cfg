CONSTANTS
    u1 = u1
    u2 = u2
    x1 = x1
    x2 = x2
    d1 = d1
    d2 = d2
    e1 = e1
    e2 = e2
    m1 = m1
    m2 = m2
    NULL = NULL
    ULT <- MCULT
    EXT <- MCEXT
    XSTREAM <- MCXSTREAM
    MUTEX <- MCMUTEX
    DUMMY <- MCDUMMY
    PROGRAMS <- MCPROGRAMS
SPECIFICATION CondFairSpec
INVARIANT ListedWhileWaiting
PROPERTIES ImplementsAbstractCond EveryThreadFinishes
