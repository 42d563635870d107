CONSTANTS
    NUM_THREADS = 2
    NA = 4
    ROWS = 4
    NUM_XSTREAMS = 2
    JOBS <- MCJOBS
    NOBODY = NOBODY
    MODE = "ws"
    PROGRAM = "conj_grad"
SPECIFICATION Spec
INVARIANTS PhasesOrdered
