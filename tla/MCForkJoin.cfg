CONSTANTS
    u1 = u1
    u2 = u2
    k1 = k1
    x1 = x1
    e1 = e1
    e2 = e2
    pool1 = pool1
    pool2 = pool2
    NULL = NULL
    ULT <- MCULT
    EXT <- MCEXT
    XSTREAM <- MCXSTREAM
    NUM_WAITERS = 3
    ROUND <- MCROUND
    FREER <- MCEXT
    WAITS = 3
    TAGS = 2
    UNIT <- MCUNIT
    TASKLET <- MCTASKLET
    PROGRAMS <- MCPROGRAMS
    NUM_THREADS = 5
    NUM_ELEMS = 12
    APP_THREADS = 3
    NUM_XSTREAMS = 2
    NA = 7
    ROWS = 6
    NOBODY = NOBODY
    JOBS <- MCJOBS
    USERPOOL <- MCUSERPOOL
    BUILTIN = BUILTIN
    UNITID <- MCUNITID
    Hash <- MCHash
    MOVES <- MCMOVES
SPECIFICATION Spec
INVARIANTS
    ArrivalsCounted
    FreedBarrierUnused
    ResumesBlockedJoiner
    JoinerRemembered
    SpinsForRunningJoiner
    BlockedUltsCounted
    CombinesUndisturbed
    PartialResults
    ResultComplete
    WaitsOrder
    UnitsMapped
PROPERTIES
    ImplementsAbstractBarrier
    XstreamBarrierImplements
    EverybodyFinishes
