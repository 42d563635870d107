CONSTANTS
    u1 = u1
    u2 = u2
    u3 = u3
    x1 = x1
    e1 = e1
    e2 = e2
    p1 = p1
    p2 = p2
    q1 = q1
    s1 = s1
    s2 = s2
    s3 = s3
    s4 = s4
    a1 = a1
    a2 = a2
    r1 = r1
    r2 = r2
    w1 = w1
    w2 = w2
    NULL = NULL
    ULT <- MCULT
    EXT <- MCEXT
    XSTREAM <- MCXSTREAM
    POOL <- MCPOOL
    PRIV <- MCPRIV
    SCHED <- MCSCHED
    KIND <- MCKIND
    POOLS <- MCPOOLS
    SETUPS <- MCSETUPS
SPECIFICATION FairSpec
INVARIANTS BlockedUltsCounted PrimaryComesHome
PROPERTIES NoUltLeftBehind JoinsReturn
