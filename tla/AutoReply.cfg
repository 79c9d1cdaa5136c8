SPECIFICATION Spec
CONSTANTS
    asks = {a1, a2}
    others = {b1, b2, b3}
    Events <- MCEvents
    Kind <- MCKind
    Group = TRUE
    History = 4
    Recent = 1
    Trigger = 2
    RateMax = 1
SYMMETRY Symmetry
INVARIANTS
    TypeOK
    ContextComplete
    TriggerInContext
    RepliesWithinWindows
CHECK_DEADLOCK FALSE
