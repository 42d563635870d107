CONSTANTS
    t1 = t1
    t2 = t2
    pool1 = pool1
    pool2 = pool2
    UNSET = UNSET
    SETTER <- MCSETTER
    KEYID = {1}
    MIGRATION = 1
    SIZE = 4
    EXTRA = 1
    PERDESC = 2
    DATUM = {pool1, pool2}
    KEYUSES <- MCKEYUSES
SPECIFICATION Spec
INVARIANT MigrationPoolKnown
