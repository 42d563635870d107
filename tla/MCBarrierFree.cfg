CONSTANTS
    u1 = u1
    u2 = u2
    x1 = x1
    e1 = e1
    e2 = e2
    NULL = NULL
    ULT <- MCULT
    EXT <- MCEXT
    XSTREAM <- MCXSTREAM
    FREER <- MCFREER
    ROUND <- MCROUND
    NUM_WAITERS = 3
SPECIFICATION BarrierSpec
INVARIANTS FreedBarrierUnused
