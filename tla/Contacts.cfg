SPECIFICATION Spec
CONSTANTS
    People = {p1}
    Calls = {c1, c2}
    Syncs = {s1, s2}
    MaxChanges = 3
SYMMETRY Symmetry
INVARIANTS
    TypeOK
    FriendsAgree
    RequestsAgree
CHECK_DEADLOCK FALSE
