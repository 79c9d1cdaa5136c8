SPECIFICATION Spec
CONSTANTS
    Workers = {w1, w2}
    Threads = {t1}
    MaxJobs = 2
    Attempts = 2
    MaxStalls = 1
    None = None
SYMMETRY Symmetry
INVARIANTS
    TypeOK
    LockExclusion
    ResendNeedsFault
PROPERTIES
    DeliverySpec
CHECK_DEADLOCK FALSE
