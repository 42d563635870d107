SPECIFICATION MemPoolSpec
CONSTANTS
    x1 = x1
    x2 = x2
    e1 = e1
    MEM_ES <- MCXSTREAM
    PRIMARY_ES = x1
    MEM_EXT <- MCEXT
    ext = ext
    PER = 3
    PPG = 4
    MAXPAGE = 4
    BUCKETS = 1
    OPS <- MCOPS
INVARIANT
    PartialBucketCounted
