SPECIFICATION Spec
CONSTANTS
    Logins = {l1, l2}
    MaxRuns = 1
    MaxRows = 2
    None = None
SYMMETRY Symmetry
INVARIANT LogoutCloses
CHECK_DEADLOCK FALSE
