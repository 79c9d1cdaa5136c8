SPECIFICATION Spec
CONSTANTS
    Workers = {w1, w2}
    Threads = {t1, t2}
    MaxJobs = 3
    Attempts = 3
    MaxStalls = 1
    None = None
SYMMETRY Symmetry
PROPERTY SentInOrder
CHECK_DEADLOCK FALSE
