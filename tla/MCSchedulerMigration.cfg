CONSTANTS
    u1 = u1
    x1 = x1
    e1 = e1
    p1 = p1
    p2 = p2
    s1 = s1
    NULL = NULL
    ULT = {u1}
    EXT = {x1}
    XSTREAM = {e1}
    POOL = {p1, p2}
    PRIV = {}
    SCHED = {s1}
    KIND <- MCKIND
    POOLS <- MCPOOLS
    SETUPS <- MCMIGRATION
SPECIFICATION FairSpec
PROPERTY JoinsReturn
