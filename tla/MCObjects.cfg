CONSTANTS
    u1 = u1
    u2 = u2
    x1 = x1
    e1 = e1
    e2 = e2
    t1 = t1
    t2 = t2
    t3 = t3
    t4 = t4
    es0 = es0
    es1 = es1
    es2 = es2
    c1 = c1
    c2 = c2
    p1 = p1
    p2 = p2
    p3 = p3
    s1 = s1
    s2 = s2
    s3 = s3
    v = v
    w = w
    m1 = m1
    m2 = m2
    n1 = n1
    ext = ext
    MEM_ES = {m1, m2}
    MEM_EXT = {n1}
    PRIMARY_ES = m1
    PER = 3
    PPG = 4
    MAXPAGE = 4
    BUCKETS = 1
    OPS <- MCOPS
    NULL = NULL
    ULT <- MCULT
    EXT <- MCEXT
    XSTREAM <- MCXSTREAM
    NUM_COMPARTMENTS = 2
    USES <- MCUSES
    NOBODY = NOBODY
    LOCKER <- MCLOCKER
    RWPROGRAMS <- MCRWPROGRAMS
    STREAM <- MCSTREAM
    CALLER <- MCCALLER
    PRIMARY = es0
    NOSTREAM = NOSTREAM
    UNIT = {1, 2, 3, 4, 9}
    EXITS = {9}
    ESPROGRAMS <- MCESPROGRAMS
    USER <- MCUSER
    WORK = {1, 2, 3}
    NIL = NIL
    POOLUSES <- MCPOOLUSES
    SETTER <- MCSETTER
    KEYID = {1, 2, 3, 4, 5}
    MIGRATION = 1
    SIZE = 2
    EXTRA = 1
    PERDESC = 2
    UNSET = UNSET
    DATUM = {v, w}
    KEYUSES <- MCKEYUSES
SPECIFICATION Spec
INVARIANTS
    ReadersExcludeWriters
    XstreamsConsistent
    JoinDrains
    SleepersWoken
    FreedOnce
    HeaderInOnePlace
    BucketsComplete
    PagesFreed
PROPERTIES
    ImplementsAbstractEventual
    ImplementsAbstractPool
    ImplementsAbstractKeys
    EveryThreadFinishes
