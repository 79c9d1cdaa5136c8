SPECIFICATION ConsoleSpec
CONSTANTS
    d1 = d1
    d2 = d2
    alice = alice
    bob = bob
    me = me
    Documents = {d1, d2}
    Blank = {d2}
    Slots = {s1, s2}
    MaxStalls = 1
    None = None
    Requests = {r1, r2}
    Idle = Idle
    Sockets = {c1, c2}
    Questions = {q1, q2}
    Names = {n1, n2}
    Placeholder = Placeholder
    Unnamed = Unnamed
    Errands = {e1, e2}
    Free = Free
    Messages = {1, 2, 3}
    Own = {2}
    People = {alice, bob, me}
    Me = me
    Handlers = {h1, h2}
    Window = 1
    Take = 1
    Nil = Nil
    Recent = 2
    Zones = {0, 1}
    Plans <- MCPlans
INVARIANTS
    ConsoleTypeOK
    EmbeddedIsFound
    QuietIsSettled
    TextReadable
    SessionKept
    OldTokensEnd
    InflightMeansCall
    NamesKept
    LogAgrees
    PagesCover
    HistoryShown
    ReportAgrees
PROPERTIES
    Settles
CHECK_DEADLOCK FALSE
