CONSTANTS
    NUM_THREADS = 2
    NA = 4
    ROWS = 4
    NUM_XSTREAMS = 1
    JOBS <- MCJOBS
    NOBODY = NOBODY
    MODE = "default"
    PROGRAM = "makea"
SPECIFICATION Spec
INVARIANTS PhasesOrdered
