CONSTANTS
    u1 = u1
    u2 = u2
    x1 = x1
    e1 = e1
    e2 = e2
    NULL = NULL
    ULT <- MCULT
    EXT <- MCEXT
    XSTREAM <- MCXSTREAM
    SPINNER <- MCSPINNER
    ROUND <- MCROUND
    MAXNEST = 1
SPECIFICATION MutexFairSpec
INVARIANTS MutualExclusion NoLostWakeup ResumesBlockedWaiters UltInOnePlace BlockedUltsCounted
PROPERTIES ImplementsAbstractMutex EveryThreadFinishes
