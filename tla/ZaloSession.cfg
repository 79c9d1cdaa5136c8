SPECIFICATION Spec
CONSTANTS
    Logins = {l1, l2, l3}
    MaxRuns = 2
    MaxRows = 2
    None = None
SYMMETRY Symmetry
INVARIANTS
    TypeOK
    StatusAgrees
    InstanceAgrees
    LoggedOutStaysOut
CHECK_DEADLOCK FALSE
