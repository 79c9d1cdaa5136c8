SPECIFICATION MCSpec
CONSTANTS
    People = {p1, p2}
    Pins = {x1}
    MaxChanges = 2
    MaxTasks = 3
SYMMETRY Symmetry
INVARIANTS
    TypeOK
    MembersAgree
    MetadataAgrees
    SummaryKept
CHECK_DEADLOCK FALSE
