SPECIFICATION FairSpec
CONSTANTS
    Workers = {w1, w2}
    Threads = {t1}
    MaxJobs = 2
    Attempts = 2
    MaxStalls = 1
    None = None
VIEW Observed
PROPERTIES
    Settled
    LockFreed
CHECK_DEADLOCK FALSE
