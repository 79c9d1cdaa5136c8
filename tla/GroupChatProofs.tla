-------------------------- MODULE GroupChatProofs --------------------------
(***************************************************************************)
(* Proofs about GroupChat for any people, pins and numbers of changes and  *)
(* tasks: type correctness, and that the rows, the mirrored keys and the   *)
(* summary agree with Zalo and with what was last written, outside of the  *)
(* exceptions the properties name.                                        *)
(*                                                                         *)
(* The invariants are stated of a set T of tasks, so that a step can be    *)
(* followed through the sets that make up tasks'.                         *)
(***************************************************************************)
EXTENDS GroupChat, TLAPS

\* A refresh that has Zalo's answer.
Answered(t) ==
    t.kind = "refresh" /\ t.stage \in {"write", "profiles", "list", "rows", "rest"}

\* What a task is about, and where it can stand.
Apt(t) ==
    /\ t.kind \in {"join", "leave", "message", "remove", "promote", "demote"} => t.about \in People
    /\ t.kind \in {"pin", "unpin"} => t.about \in Pins
    /\ t.kind = "join" => t.stage = "rows"
    /\ t.kind \in {"promote", "demote"} => t.stage \in {"call", "write"}
    /\ t.kind = "topics" => t.stage \in {"fetch", "write"}
    /\ t.kind = "refresh" => Answered(t) \/ t.stage = "fetch"
    /\ t.sound = {} \/ Answered(t) \/ (t.kind = "topics" /\ t.stage = "write")

Distinct(T) == \A t, u \in T : t.n = u.n => t = u

\* Tasks as the first n of them may be.
Fit(T, n) == T \subseteq Tasks /\ Distinct(T) /\ \A t \in T : t.n <= n /\ Apt(t)

\* A copy is the metadata M but for the keys that were written since it was read.
CopyOK(T, M) == \A t \in T : Holds(t) => \A k \in Keys \ t.missed : t.copy[k] = M[k]

\* A request that still has to write a rank.
Ranks(t) == t.kind \in {"promote", "demote"} /\ t.stage = "write"

\* An answer about the deputies that will be written.
TellsAdmins(t) == t.kind = "refresh" /\ t.stage = "write" /\ "admins" \in t.sound

\* The deputies D differ from adminIds by the one rank that is to be written;
\* who writes one of several makes the others miss it.
RanksOK(T, D, ids) ==
    /\ (\A t \in T : ~ Ranks(t)) => ids = D
    /\ \A t \in T :
          Ranks(t) => \/ "admins" \in t.missed
                      \/ AdminsAfter(t) = D
                      \/ \E u \in T : u # t /\ Ranks(u)

AdminsOK(T, D, ids, a) ==
    /\ "admins" \in a \/ RanksOK(T, D, ids)
    /\ \A t \in T : TellsAdmins(t) => t.admins = D

\* A handler that still has to write about a pinned message.
Pinning(t) == t.kind \in {"pin", "unpin"}

\* An answer about the pins that will be written.
TellsPins(t) == t.kind = "topics" /\ t.stage = "write" /\ "pins" \in t.sound

\* The pins P differ from pinnedMessages where a handler is on its way, which
\* will write what is so.
HandlersOK(T, P, pinned) ==
    /\ \A x \in Pins : (x \in P <=> x \in pinned) \/ \E t \in T : Pinning(t) /\ t.about = x
    /\ \A t \in T : Pinning(t) => (t.kind = "pin" <=> t.about \in P)

\* An answer that is still true leaves no handler on its way.
PinsOK(T, P, pinned, a) ==
    /\ "pins" \in a \/ HandlersOK(T, P, pinned)
    /\ \A t \in T : TellsPins(t) => t.pins = P /\ \A u \in T : ~ Pinning(u)

\* Nothing about p overlapped or was lost, or an answer about p is still true.
Steady(p, T, a) == p \notin a \/ \E t \in T : p \in t.sound

\* What t will do to the row of p is right, if the members are G.
Right(t, p, G) ==
    /\ Adds(t, p) => p \in G
    /\ Removes(t, p) => p \notin G
    /\ Answered(t) =>
          /\ t.stage \in {"write", "profiles", "list"} => (p \in t.members <=> p \in G)
          /\ p \in t.members => p \in G
          /\ t.stage = "rows" => (p \in t.gone => p \notin G)

\* The answer that t got about p will leave the right row, if those of R have one.
Vouches(t, p, G, R) ==
    /\ Answered(t)
    /\ t.stage = "rows" => IF p \in G THEN p \in t.members \cup R ELSE p \in R => p \in t.gone

\* An event that will put the row of p right.
Awaits(t, p) == t.about = p /\ t.kind \in {"join", "leave"} /\ t.stage = "rows"

RowOK(p, T, G, R, a) ==
    /\ Steady(p, T, a) => \A t \in T : Right(t, p, G)
    /\ \A t \in T : p \in t.sound => Vouches(t, p, G, R) /\ \A u \in T : ~ Removes(u, p)
    /\ p \in a \/ (p \in G <=> p \in R) \/ \E t \in T : Awaits(t, p)

TasksInv == Fit(tasks, started)
CopyInv == CopyOK(tasks, meta)
AdminsInv == AdminsOK(tasks, group.admins, meta.admins, astray)
PinsInv == PinsOK(tasks, group.pins, meta.pins, astray)
RowOf(p) == RowOK(p, tasks, group.members, participants, astray)
RowsInv == \A p \in People : RowOf(p)

-----------------------------------------------------------------------------
(* Sets of tasks                                                           *)

Stages == {"call", "read", "fetch", "write", "profiles", "list", "rows", "rest"}

\* v is o after others wrote and changed: it missed more and vouches for less.
Later(v, o) ==
    /\ v.n = o.n /\ v.kind = o.kind /\ v.about = o.about /\ v.stage = o.stage
    /\ v.copy = o.copy /\ v.admins = o.admins /\ v.members = o.members
    /\ v.pins = o.pins /\ v.gone = o.gone
    /\ o.missed \subseteq v.missed /\ v.sound \subseteq o.sound

\* S are the tasks T, later.
Follows(S, T) ==
    /\ \A v \in S : \E o \in T : Later(v, o)
    /\ \A o \in T : \E v \in S : Later(v, o)

\* The set that Writes leaves.
Noted(T, t, own) ==
    {IF u.n # t.n /\ Holds(u) THEN [u EXCEPT !.missed = @ \cup own \cup t.missed] ELSE u : u \in T}

\* The fields of a task.
LEMMA TaskFields ==
    ASSUME NEW t \in Tasks
    PROVE  /\ t.n \in 1 .. MaxTasks /\ t.kind \in Kinds
           /\ t.about \in People \cup Pins \cup {"group"} /\ t.stage \in Stages
           /\ t.copy \in Metadata /\ t.admins \in SUBSET People /\ t.members \in SUBSET People
           /\ t.pins \in SUBSET Pins /\ t.gone \in SUBSET People
           /\ t.missed \in SUBSET Keys /\ t.sound \in SUBSET (People \cup Keys)
BY DEF Tasks, Stages

\* The metadata has its three keys.
LEMMA MetadataFields ==
    /\ NoMetadata \in Metadata
    /\ \A M \in Metadata :
          /\ M.admins \in SUBSET People /\ M.pins \in SUBSET Pins /\ M.summary \in 0 .. MaxTasks
          /\ \A X \in SUBSET People : [M EXCEPT !.admins = X] \in Metadata
          /\ \A X \in SUBSET Pins : [M EXCEPT !.pins = X] \in Metadata
          /\ \A n \in 0 .. MaxTasks : [M EXCEPT !.summary = n] \in Metadata
BY GroupChatAssumption DEF Metadata, NoMetadata

\* A task that begins.
LEMMA NewTask ==
    ASSUME started \in 0 .. MaxTasks, started < MaxTasks, NEW kind \in Kinds,
           NEW about \in People \cup Pins \cup {"group"}, NEW stage \in Stages
    PROVE  LET t == Task(kind, about, stage) IN
           /\ t \in Tasks
           /\ t.n = started + 1 /\ t.kind = kind /\ t.about = about /\ t.stage = stage
           /\ t.copy = NoMetadata /\ t.members = {} /\ t.gone = {} /\ t.missed = {} /\ t.sound = {}
<1>1. started + 1 \in 1 .. MaxTasks
  BY GroupChatAssumption
<1> QED
  BY <1>1, MetadataFields DEF Task, Tasks, Stages

\* One that begins with a copy of the metadata.
LEMMA NewReader ==
    ASSUME NEW t \in Tasks, meta \in Metadata
    PROVE  LET u == [t EXCEPT !.copy = meta] IN
           /\ u \in Tasks
           /\ u.n = t.n /\ u.kind = t.kind /\ u.about = t.about /\ u.stage = t.stage
           /\ u.copy = meta /\ u.members = t.members /\ u.gone = t.gone
           /\ u.missed = t.missed /\ u.sound = t.sound
BY DEF Tasks

\* A changed task takes the place of what it was.
LEMMA FitBecomes ==
    ASSUME NEW T, NEW n, Fit(T, n), NEW t \in T, NEW u \in Tasks, u.n = t.n, Apt(u)
    PROVE  Fit((T \ {t}) \cup {u}, n)
BY DEF Fit, Distinct

LEMMA FitEnded ==
    ASSUME NEW T, NEW n, Fit(T, n), NEW t
    PROVE  Fit(T \ {t}, n)
BY DEF Fit, Distinct

LEMMA FitNew ==
    ASSUME NEW T, NEW n \in Nat, Fit(T, n), NEW u \in Tasks, u.n = n + 1, Apt(u)
    PROVE  Fit(T \cup {u}, n + 1)
<1>1. \A t \in T : t.n \in Nat /\ t.n # u.n
  BY TaskFields DEF Fit
<1> QED
  BY <1>1 DEF Fit, Distinct

\* What doubt does to one task, and what somebody else's write does.
LEMMA DoubtedTask ==
    ASSUME NEW o \in Tasks, NEW X
    PROVE  LET v == [o EXCEPT !.sound = @ \ X] IN
           v \in Tasks /\ Later(v, o) /\ v.missed = o.missed /\ v.sound = o.sound \ X
<1> DEFINE v == [o EXCEPT !.sound = @ \ X]
<1>1. v \in Tasks
  BY DEF Tasks
<1>2. /\ v.n = o.n /\ v.kind = o.kind /\ v.about = o.about /\ v.stage = o.stage
      /\ v.copy = o.copy /\ v.admins = o.admins /\ v.members = o.members
      /\ v.pins = o.pins /\ v.gone = o.gone
      /\ v.missed = o.missed /\ v.sound = o.sound \ X
  BY DEF Tasks
<1> QED
  BY <1>1, <1>2 DEF Later

LEMMA NotedTask ==
    ASSUME NEW o \in Tasks, NEW t \in Tasks, NEW own \in SUBSET Keys
    PROVE  LET v == [o EXCEPT !.missed = @ \cup own \cup t.missed] IN
           /\ v \in Tasks /\ Later(v, o)
           /\ v.missed = o.missed \cup own \cup t.missed /\ v.sound = o.sound
<1> DEFINE v == [o EXCEPT !.missed = @ \cup own \cup t.missed]
<1>0. o.missed \cup own \cup t.missed \in SUBSET Keys
  BY TaskFields
<1>1. v \in Tasks
  BY <1>0 DEF Tasks
<1>2. /\ v.n = o.n /\ v.kind = o.kind /\ v.about = o.about /\ v.stage = o.stage
      /\ v.copy = o.copy /\ v.admins = o.admins /\ v.members = o.members
      /\ v.pins = o.pins /\ v.gone = o.gone
      /\ v.missed = o.missed \cup own \cup t.missed /\ v.sound = o.sound
  BY DEF Tasks
<1> QED
  BY <1>1, <1>2 DEF Later

\* Doubt leaves the tasks what they are and takes X from what they vouch for.
LEMMA DoubtedTasks ==
    ASSUME NEW T, NEW n, Fit(T, n), NEW X
    PROVE  /\ Fit(Doubt(X, T), n) /\ Follows(Doubt(X, T), T)
           /\ \A v \in Doubt(X, T) : v.sound \cap X = {}
           /\ \A v \in Doubt(X, T) : \E o \in T : Later(v, o) /\ v.missed = o.missed
<1> DEFINE After(o) == [o EXCEPT !.sound = @ \ X]
<1>0. \A o \in T : /\ After(o) \in Doubt(X, T) /\ After(o) \in Tasks /\ Later(After(o), o)
                   /\ After(o).missed = o.missed /\ After(o).sound = o.sound \ X
  <2> SUFFICES ASSUME NEW o \in T
               PROVE  /\ After(o) \in Doubt(X, T) /\ After(o) \in Tasks /\ Later(After(o), o)
                      /\ After(o).missed = o.missed /\ After(o).sound = o.sound \ X
    OBVIOUS
  <2>1. o \in Tasks /\ After(o) \in Doubt(X, T)
    BY DEF Fit, Doubt
  <2> QED
    BY <2>1, DoubtedTask
<1>1. \A v \in Doubt(X, T) : \E o \in T : v = After(o)
  BY DEF Doubt
<1> HIDE DEF After
<1>2. Distinct(Doubt(X, T))
  BY <1>0, <1>1 DEF Fit, Distinct, Later
<1>3. \A v \in Doubt(X, T) : v.n <= n /\ Apt(v)
  BY <1>0, <1>1 DEF Fit, Later, Apt, Answered
<1>4. /\ \A v \in Doubt(X, T) : v.sound \cap X = {}
      /\ \A v \in Doubt(X, T) : \E o \in T : Later(v, o) /\ v.missed = o.missed
  BY <1>0, <1>1
<1>5. Fit(Doubt(X, T), n) /\ Follows(Doubt(X, T), T)
  BY <1>0, <1>1, <1>2, <1>3 DEF Fit, Follows
<1> QED
  BY <1>4, <1>5

\* A write leaves them what they are, and whoever holds a copy misses it.
LEMMA NotedTasks ==
    ASSUME NEW T, NEW n, Fit(T, n), NEW t \in Tasks, NEW own \in SUBSET Keys
    PROVE  LET S == Noted(T, t, own) IN
           /\ Fit(S, n) /\ Follows(S, T)
           /\ \A v \in S : v.n # t.n /\ Holds(v) => own \cup t.missed \subseteq v.missed
<1> DEFINE S == Noted(T, t, own)
           After(u) == IF u.n # t.n /\ Holds(u)
                       THEN [u EXCEPT !.missed = @ \cup own \cup t.missed] ELSE u
<1>0. \A o \in T : /\ After(o) \in S /\ After(o) \in Tasks /\ Later(After(o), o)
                   /\ o.n # t.n /\ Holds(o) => own \cup t.missed \subseteq After(o).missed
  <2> SUFFICES ASSUME NEW o \in T
               PROVE  /\ After(o) \in S /\ After(o) \in Tasks /\ Later(After(o), o)
                      /\ o.n # t.n /\ Holds(o) => own \cup t.missed \subseteq After(o).missed
    OBVIOUS
  <2>1. o \in Tasks /\ After(o) \in S
    BY DEF Fit, Noted
  <2>2. CASE o.n # t.n /\ Holds(o)
    BY <2>1, <2>2, NotedTask
  <2>3. CASE ~ (o.n # t.n /\ Holds(o))
    BY <2>1, <2>3 DEF Later
  <2> QED
    BY <2>2, <2>3
<1>1. \A v \in S : \E o \in T : v = After(o)
  BY DEF Noted
<1> HIDE DEF S, After
<1>2. Distinct(S)
  BY <1>0, <1>1 DEF Fit, Distinct, Later
<1>3. \A v \in S : v.n <= n /\ Apt(v)
  BY <1>0, <1>1 DEF Fit, Later, Apt, Answered
<1>4. \A v \in S : v.n # t.n /\ Holds(v) => own \cup t.missed \subseteq v.missed
  BY <1>0, <1>1 DEF Later, Holds
<1>5. Fit(S, n) /\ Follows(S, T)
  BY <1>0, <1>1, <1>2, <1>3 DEF Fit, Follows
<1> QED
  BY <1>4, <1>5 DEF S

-----------------------------------------------------------------------------
(* What a step makes of one task                                           *)

LEMMA MovedTask ==
    ASSUME NEW t \in Tasks, NEW stage \in Stages
    PROVE  LET u == [t EXCEPT !.stage = stage] IN
           /\ u \in Tasks /\ u.stage = stage
           /\ u.n = t.n /\ u.kind = t.kind /\ u.about = t.about /\ u.copy = t.copy
           /\ u.admins = t.admins /\ u.members = t.members /\ u.pins = t.pins
           /\ u.gone = t.gone /\ u.missed = t.missed /\ u.sound = t.sound
BY DEF Tasks, Stages

LEMMA ReadingTask ==
    ASSUME NEW t \in Tasks, meta \in Metadata
    PROVE  LET u == ReadsMetadata(t) IN
           /\ u \in Tasks /\ u.stage = "write" /\ u.copy = meta
           /\ u.n = t.n /\ u.kind = t.kind /\ u.about = t.about
           /\ u.members = t.members /\ u.gone = t.gone /\ u.sound = t.sound
BY DEF Tasks, ReadsMetadata

LEMMA DroppingTask ==
    ASSUME NEW t \in Tasks, NEW stage \in Stages
    PROVE  LET u == Drops(t, stage) IN
           /\ u \in Tasks /\ u.stage = stage
           /\ u.n = t.n /\ u.kind = t.kind /\ u.about = t.about
           /\ u.members = t.members /\ u.gone = t.gone /\ u.sound = t.sound
BY MetadataFields DEF Tasks, Drops, Stages

LEMMA WithoutMembers ==
    ASSUME NEW t \in Tasks
    PROVE  LET u == [t EXCEPT !.stage = "list", !.members = {}] IN
           /\ u \in Tasks /\ u.stage = "list" /\ u.members = {}
           /\ u.n = t.n /\ u.kind = t.kind /\ u.about = t.about /\ u.sound = t.sound
BY DEF Tasks

LEMMA ListingTask ==
    ASSUME NEW t \in Tasks, NEW X \in SUBSET People
    PROVE  LET u == [t EXCEPT !.stage = "rows", !.gone = X] IN
           /\ u \in Tasks /\ u.stage = "rows" /\ u.gone = X
           /\ u.n = t.n /\ u.kind = t.kind /\ u.about = t.about /\ u.members = t.members
           /\ u.sound = t.sound
BY DEF Tasks

LEMMA UpsertingTask ==
    ASSUME NEW t \in Tasks, NEW p
    PROVE  LET u == [t EXCEPT !.members = @ \ {p}] IN
           /\ u \in Tasks /\ u.stage = t.stage /\ u.members = t.members \ {p}
           /\ u.n = t.n /\ u.kind = t.kind /\ u.about = t.about /\ u.gone = t.gone
           /\ u.sound = t.sound
BY DEF Tasks

LEMMA RejectedTask ==
    ASSUME NEW t \in Tasks, NEW p
    PROVE  LET u == [t EXCEPT !.stage = "rest", !.members = @ \ {p}] IN
           /\ u \in Tasks /\ u.stage = "rest" /\ u.members = t.members \ {p}
           /\ u.n = t.n /\ u.kind = t.kind /\ u.about = t.about /\ u.gone = t.gone
           /\ u.sound = t.sound
BY DEF Tasks

-----------------------------------------------------------------------------
(* Types                                                                   *)

Groups == {g \in [members : SUBSET People, admins : SUBSET People, pins : SUBSET Pins] :
              g.admins \subseteq g.members}

\* The types of everything but the tasks.
Simple ==
    /\ group \in Groups /\ changes \in 0 .. MaxChanges /\ participants \in SUBSET People
    /\ meta \in Metadata /\ started \in 0 .. MaxTasks /\ latest \in 0 .. MaxTasks
    /\ astray \in SUBSET (People \cup Keys)

LEMMA TypesApart == TypeOK /\ TasksInv <=> Simple /\ TasksInv
BY DEF TypeOK, TasksInv, Simple, Groups, Fit, Distinct

LEMMA GroupFields ==
    ASSUME NEW g \in Groups
    PROVE  /\ g.members \in SUBSET People /\ g.admins \in SUBSET g.members
           /\ g.pins \in SUBSET Pins /\ g.admins \in SUBSET People
           /\ \A p \in People : LET h == [g EXCEPT !.members = @ \cup {p}] IN
                 /\ h \in Groups /\ h.members = g.members \cup {p}
                 /\ h.admins = g.admins /\ h.pins = g.pins
           /\ \A p \in People : LET h == [g EXCEPT !.members = @ \ {p}, !.admins = @ \ {p}] IN
                 /\ h \in Groups /\ h.members = g.members \ {p}
                 /\ h.admins = g.admins \ {p} /\ h.pins = g.pins
           /\ \A A \in SUBSET g.members : LET h == [g EXCEPT !.admins = A] IN
                 h \in Groups /\ h.members = g.members /\ h.admins = A /\ h.pins = g.pins
           /\ \A X \in SUBSET Pins : LET h == [g EXCEPT !.pins = X] IN
                 h \in Groups /\ h.members = g.members /\ h.admins = g.admins /\ h.pins = X
BY DEF Groups

LEMMA InitTypes == Init => Simple /\ TasksInv
BY GroupChatAssumption, MetadataFields
   DEF Init, Simple, Groups, TasksInv, Fit, Distinct, Metadata

\* A task of the state, with its fields.
LEMMA OneOf ==
    ASSUME TasksInv, NEW t \in tasks
    PROVE  /\ t \in Tasks /\ Apt(t) /\ t.n <= started
           /\ t.n \in 1 .. MaxTasks /\ t.copy \in Metadata
           /\ \A u \in tasks : u.n = t.n => u = t
BY TaskFields DEF TasksInv, Fit, Distinct

\* A task that begins fits with those that are there.
LEMMA StartsFit ==
    ASSUME Simple, TasksInv, NEW task \in Tasks, task.n = started + 1, Apt(task), Starts(task)
    PROVE  Simple' /\ TasksInv' /\ started' = started + 1
<1>1. Fit(tasks', started')
  BY FitNew DEF Starts, TasksInv, Simple
<1> QED
  BY <1>1, GroupChatAssumption DEF Simple, Starts, zalo, history, TasksInv

\* A change on Zalo's side: the tasks in progress vouch for less, and one may begin.
LEMMA ChangesFit ==
    ASSUME Simple, NEW g \in Groups, NEW X \in SUBSET (People \cup Keys), NEW kind \in Kinds,
           NEW about \in People \cup Pins \cup {"group"}, NEW stage \in Stages,
           NEW T, Fit(T, started), NEW muddled,
           started < MaxTasks => Apt(Task(kind, about, stage)),
           Changes(g, X, kind, about, stage, T, muddled),
           UNCHANGED <<participants, meta, latest>>
    PROVE  Simple' /\ TasksInv' /\ group' = g
<1>1. Fit(Doubt(X, T), started)
  BY DoubtedTasks
<1>2. Fit(tasks', started') /\ started' \in 0 .. MaxTasks
  <2>1. CASE tasks' = Doubt(X, T) /\ UNCHANGED started
    BY <1>1, <2>1 DEF Simple
  <2>2. CASE started < MaxTasks /\ started' = started + 1
             /\ tasks' = Doubt(X, T) \cup {Task(kind, about, stage)}
    BY <1>1, <2>2, NewTask, FitNew, GroupChatAssumption DEF Simple
  <2> QED
    BY <2>1, <2>2 DEF Changes
<1>3. astray' \in SUBSET (People \cup Keys) /\ changes' \in 0 .. MaxChanges /\ group' = g
  BY GroupChatAssumption DEF Changes, Simple
<1> QED
  BY <1>2, <1>3 DEF Simple, TasksInv

\* A write of the metadata.
LEMMA WritesFit ==
    ASSUME Simple, TasksInv, NEW t \in tasks, NEW value \in Metadata, NEW own \in SUBSET Keys,
           NEW T, Fit(T, started), Writes(t, value, own, T),
           UNCHANGED <<zalo, participants, started>>,
           latest' \in 0 .. MaxTasks, astray' \in SUBSET (People \cup Keys)
    PROVE  Simple' /\ TasksInv' /\ meta' = value /\ tasks' = Noted(T, t, own)
<1>1. meta' = value /\ tasks' = Noted(T, t, own)
  BY DEF Writes, Noted
<1>2. Fit(tasks', started')
  BY <1>1, NotedTasks, OneOf
<1> QED
  BY <1>1, <1>2 DEF Simple, TasksInv, zalo

\* A handler, a request or a message begins.
LEMMA BeginsFit ==
    ASSUME Simple, TasksInv,
           \/ \E p \in People : \/ BeginMessage(p) \/ BeginRemove(p)
                                \/ BeginRank("promote", p) \/ BeginRank("demote", p)
           \/ BeginRewrite \/ BeginSummary \/ BeginTopics \/ BeginRefresh
    PROVE  \E task \in Tasks :
              /\ Starts(task) /\ task.n = started + 1 /\ Apt(task)
              /\ task.members = {} /\ task.gone = {} /\ task.missed = {} /\ task.sound = {}
              /\ task.stage \in {"call", "read", "fetch", "write"}
              /\ task.kind \notin {"join", "leave", "pin", "unpin"}
              /\ Holds(task) => task.copy = meta
              /\ ~ Ranks(task)
              /\ task.kind = "refresh" => task.stage = "fetch"
              /\ task.kind = "message" => task.about \in group.members
              /\ task.kind = "remove" => task.stage = "call"
<1> USE DEF Simple
<1>0. ASSUME NEW task, Starts(task)
      PROVE  started < MaxTasks
  BY <1>0 DEF Starts
<1>1. ASSUME NEW p \in People, BeginMessage(p) \/ BeginRemove(p)
      PROVE  \E task \in Tasks :
              /\ Starts(task) /\ task.n = started + 1 /\ Apt(task)
              /\ task.members = {} /\ task.gone = {} /\ task.missed = {} /\ task.sound = {}
              /\ task.stage \in {"call", "read"} /\ task.kind \in {"message", "remove"}
              /\ ~ Holds(task)
              /\ task.kind = "message" => task.about \in group.members
              /\ task.kind = "remove" => task.stage = "call"
  <2>1. started < MaxTasks
    BY <1>1, <1>0 DEF BeginMessage, BeginRemove
  <2>2. CASE BeginMessage(p)
    <3> "message" \in Kinds /\ "read" \in Stages
      BY DEF Kinds, Stages
    <3> QED
      BY <2>1, <2>2, NewTask DEF BeginMessage, Apt, Answered, Holds
  <2>3. CASE BeginRemove(p)
    <3> "remove" \in Kinds /\ "call" \in Stages
      BY DEF Kinds, Stages
    <3> QED
      BY <2>1, <2>3, NewTask DEF BeginRemove, Apt, Answered, Holds
  <2> QED
    BY <1>1, <2>2, <2>3
<1>2. ASSUME NEW p \in People, NEW kind \in {"promote", "demote"}, BeginRank(kind, p)
      PROVE  \E task \in Tasks :
              /\ Starts(task) /\ task.n = started + 1 /\ Apt(task)
              /\ task.members = {} /\ task.gone = {} /\ task.missed = {} /\ task.sound = {}
              /\ task.stage = "call" /\ task.kind = kind /\ task.copy = meta
  <2>1. started < MaxTasks
    BY <1>2, <1>0 DEF BeginRank
  <2> "call" \in Stages /\ kind \in Kinds
    BY DEF Stages, Kinds
  <2>2. PICK base \in Tasks :
             /\ base = Task(kind, p, "call") /\ base.n = started + 1 /\ base.kind = kind
             /\ base.about = p /\ base.stage = "call" /\ base.members = {} /\ base.gone = {}
             /\ base.missed = {} /\ base.sound = {}
    BY <2>1, NewTask
  <2>3. PICK task \in Tasks :
             /\ task = [base EXCEPT !.copy = meta] /\ task.n = started + 1 /\ task.kind = kind
             /\ task.about = p /\ task.stage = "call" /\ task.members = {} /\ task.gone = {}
             /\ task.missed = {} /\ task.sound = {} /\ task.copy = meta
    BY <2>2, NewReader, ZenonT(60)
  <2>4. Starts(task) /\ Apt(task)
    BY <1>2, <2>2, <2>3 DEF BeginRank, Apt, Answered
  <2> QED
    BY <2>3, <2>4
<1>3. ASSUME BeginRewrite
      PROVE  \E task \in Tasks :
              /\ Starts(task) /\ task.n = started + 1 /\ Apt(task)
              /\ task.members = {} /\ task.gone = {} /\ task.missed = {} /\ task.sound = {}
              /\ task.stage = "read" /\ task.kind = "rewrite"
  <2>1. started < MaxTasks
    BY <1>3, <1>0 DEF BeginRewrite
  <2> "read" \in Stages /\ "rewrite" \in Kinds
    BY DEF Stages, Kinds
  <2> QED
    BY <1>3, <2>1, NewTask DEF BeginRewrite, Apt, Answered
<1>4. ASSUME NEW kind \in {"summary", "topics", "refresh"}, NEW stage \in {"write", "fetch"},
             kind = "summary" <=> stage = "write",
             Starts([Task(kind, "group", stage) EXCEPT !.copy = meta])
      PROVE  \E task \in Tasks :
              /\ Starts(task) /\ task.n = started + 1 /\ Apt(task)
              /\ task.members = {} /\ task.gone = {} /\ task.missed = {} /\ task.sound = {}
              /\ task.stage = stage /\ task.kind = kind /\ task.copy = meta
  <2>1. started < MaxTasks
    BY <1>4, <1>0
  <2> stage \in Stages /\ kind \in Kinds
    BY DEF Stages, Kinds
  <2>2. PICK base \in Tasks :
             /\ base = Task(kind, "group", stage) /\ base.n = started + 1 /\ base.kind = kind
             /\ base.stage = stage /\ base.members = {} /\ base.gone = {}
             /\ base.missed = {} /\ base.sound = {}
    BY <2>1, NewTask
  <2>3. PICK task \in Tasks :
             /\ task = [base EXCEPT !.copy = meta] /\ task.n = started + 1 /\ task.kind = kind
             /\ task.stage = stage /\ task.members = {} /\ task.gone = {}
             /\ task.missed = {} /\ task.sound = {} /\ task.copy = meta
    BY <2>2, NewReader, ZenonT(60)
  <2>4. Starts(task) /\ Apt(task)
    BY <1>4, <2>2, <2>3 DEF Apt, Answered
  <2> QED
    BY <2>3, <2>4
<1>5. CASE \E p \in People : BeginMessage(p) \/ BeginRemove(p)
  BY <1>1, <1>5 DEF Ranks
<1>6. CASE \E p \in People : BeginRank("promote", p) \/ BeginRank("demote", p)
  BY <1>2, <1>6 DEF Ranks
<1>7. CASE BeginRewrite
  BY <1>3, <1>7 DEF Ranks, Holds
<1>8. CASE BeginSummary \/ BeginTopics \/ BeginRefresh
  BY <1>4, <1>8 DEF BeginSummary, BeginTopics, BeginRefresh, Ranks
<1> QED
  BY <1>5, <1>6, <1>7, <1>8

\* What Changes is given by whoever changes the group.
LEMMA ChangersFit ==
    ASSUME Simple, TasksInv
    PROVE  /\ \A p \in People : Join(p) => Simple' /\ TasksInv'
           /\ \A p \in People : \A T : Fit(T, started) /\ Leave(p, T) => Simple' /\ TasksInv'
           /\ \A p \in People : Rank(p) => Simple' /\ TasksInv'
           /\ \A x \in Pins : Pin(x) => Simple' /\ TasksInv'
<1> USE DEF Simple
<1>0. /\ \A kind \in {"join", "leave"}, p \in People :
            started < MaxTasks => Apt(Task(kind, p, "rows"))
      /\ started < MaxTasks => Apt(Task("rewrite", "group", "read"))
      /\ \A kind \in {"pin", "unpin"}, x \in Pins : started < MaxTasks => Apt(Task(kind, x, "read"))
      /\ {"join", "leave", "rewrite", "pin", "unpin"} \subseteq Kinds
      /\ {"rows", "read"} \subseteq Stages
      /\ \A p \in People : {p} \in SUBSET (People \cup Keys) /\ {p, "admins"} \in SUBSET (People \cup Keys)
      /\ {"admins"} \in SUBSET (People \cup Keys) /\ {"pins"} \in SUBSET (People \cup Keys)
      /\ Fit(tasks, started)
  <2>1. {"join", "leave", "rewrite", "pin", "unpin"} \subseteq Kinds /\ {"rows", "read"} \subseteq Stages
    BY DEF Kinds, Stages
  <2> QED
    BY <2>1, NewTask DEF Apt, Answered, Keys, TasksInv
<1>1. ASSUME NEW p \in People, Join(p)
      PROVE  Simple' /\ TasksInv'
  BY <1>0, <1>1, ChangesFit, GroupFields DEF Join
<1>2. ASSUME NEW p \in People, NEW T, Fit(T, started), Leave(p, T)
      PROVE  Simple' /\ TasksInv'
  <2>1. PICK X \in SUBSET (People \cup Keys) :
             /\ Changes([group EXCEPT !.members = @ \ {p}, !.admins = @ \ {p}], X, "leave", p, "rows",
                        T, p \in group.admins \/ \E t \in T : Adds(t, p) \/ Refreshes(t))
             /\ UNCHANGED <<participants, meta, latest>>
    BY <1>0, <1>2 DEF Leave
  <2> QED
    BY <1>0, <1>2, <2>1, ChangesFit, GroupFields
<1>3. ASSUME NEW p \in People, Rank(p)
      PROVE  Simple' /\ TasksInv'
  <2>1. PICK A \in SUBSET group.members :
             /\ Changes([group EXCEPT !.admins = A], {"admins"}, "rewrite", "group", "read", tasks, TRUE)
             /\ UNCHANGED <<participants, meta, latest>>
    <3>1. /\ group.admins \ {p} \in SUBSET group.members
          /\ group.admins \cup {p} \in SUBSET group.members
      BY <1>3, GroupFields DEF Rank
    <3> QED
      BY <1>3, <3>1 DEF Rank
  <2> QED
    BY <1>0, <2>1, ChangesFit, GroupFields
<1>4. ASSUME NEW x \in Pins, Pin(x)
      PROVE  Simple' /\ TasksInv'
  <2>1. PICK X \in SUBSET Pins, kind \in {"pin", "unpin"} :
             /\ Changes([group EXCEPT !.pins = X], {"pins"}, kind, x, "read", tasks, PinsInFlight({x}))
             /\ UNCHANGED <<participants, meta, latest>>
    BY <1>4, GroupFields DEF Pin
  <2>2. [group EXCEPT !.pins = X] \in Groups
    BY GroupFields
  <2>3. started < MaxTasks => Apt(Task(kind, x, "read"))
    BY <1>0
  <2>4. kind \in Kinds /\ "read" \in Stages /\ {"pins"} \in SUBSET (People \cup Keys)
    BY <1>0
  <2> QED
    BY <1>0, <2>1, <2>2, <2>3, <2>4, ChangesFit
<1> QED
  BY <1>1, <1>2, <1>3, <1>4

\* One task moves on, or ends, and the rest is as the types say.
LEMMA OneMoves ==
    ASSUME Simple, TasksInv, NEW t \in tasks, UNCHANGED <<zalo, meta, started, latest>>,
           participants' \in SUBSET People, astray' \in SUBSET (People \cup Keys),
           \/ tasks' = Ended(t)
           \/ \E u \in Tasks : u.n = t.n /\ Apt(u) /\ tasks' = Becomes(t, u)
    PROVE  Simple' /\ TasksInv'
<1>1. Fit(tasks', started')
  BY FitBecomes, FitEnded DEF TasksInv, Ended, Becomes
<1> QED
  BY <1>1 DEF Simple, TasksInv, zalo

\* What is added to astray.
LEMMA AstrayTypes ==
    ASSUME Simple, TasksInv, NEW t \in tasks
    PROVE  /\ astray \cup t.missed \in SUBSET (People \cup Keys)
           /\ (astray \cup t.missed) \ {"summary"} \in SUBSET (People \cup Keys)
           /\ \A key \in {"admins", "pins"} : RightedIn(t, key) \in SUBSET (People \cup Keys)
BY OneOf, TaskFields DEF Simple, RightedIn, Keys

\* What a writer t leaves: its own keys, and the tasks T, who missed them.
Wrote(t, own, T) ==
        /\ own \in SUBSET Keys /\ Fit(T, started) /\ tasks' = Noted(T, t, own) /\ meta' \in Metadata
        /\ \A k \in Keys \ own : meta'[k] = t.copy[k]
        /\ \/ T = Ended(t)
           \/ /\ t.kind \in {"message", "refresh"}
              /\ \E u \in Tasks :
                    /\ T = Becomes(t, u) /\ u.n = t.n /\ u.kind = t.kind
                    /\ u.about = t.about /\ u.members = t.members /\ u.gone = t.gone
                    /\ u.sound = t.sound
                    /\ t.kind = "message" => u.stage = "rows"
                    /\ t.kind = "refresh" => u.stage = "profiles"
        /\ \/ /\ Rewrite(t) /\ own = {}
           \/ /\ WriteSummary(t) /\ own = {"summary"} /\ meta'.summary = t.n
           \/ /\ WritePin(t) /\ own = {"pins"} /\ meta'.pins = PinsAfter(t)
           \/ /\ WriteRank(t) /\ own = {"admins"} /\ meta'.admins = AdminsAfter(t)
           \/ /\ WritePins(t) /\ own = {"pins"} /\ meta'.pins = t.pins
           \/ /\ WriteInfo(t) /\ own = {"admins"} /\ meta'.admins = t.admins

\* The writers of the metadata and what each leaves of its task.
LEMMA WritersFit ==
    ASSUME Simple, TasksInv, NEW t \in tasks,
           \/ Rewrite(t) \/ WriteSummary(t) \/ WritePin(t) \/ WriteRank(t) \/ WritePins(t)
           \/ WriteInfo(t)
    PROVE  /\ Simple' /\ TasksInv'
           /\ t.stage = "write" /\ Holds(t)
           /\ \E own, T : Wrote(t, own, T)
<1>0. /\ t \in Tasks /\ Apt(t) /\ t.copy \in Metadata /\ t.n \in 0 .. MaxTasks /\ Fit(tasks, started)
      /\ t.admins \in SUBSET People /\ t.pins \in SUBSET Pins
      /\ t.copy.admins \in SUBSET People /\ t.copy.pins \in SUBSET Pins
  BY OneOf, TaskFields, MetadataFields DEF TasksInv
<1>1. Fit(Ended(t), started)
  BY <1>0, FitEnded DEF Ended
<1>2. {} \in SUBSET Keys /\ {"summary"} \in SUBSET Keys /\ {"pins"} \in SUBSET Keys /\ {"admins"} \in SUBSET Keys
  BY DEF Keys
<1>3. \A stage \in {"rows", "profiles"} :
         (stage = "rows" => t.kind = "message") /\ (stage = "profiles" => t.kind = "refresh") =>
            /\ Drops(t, stage) \in Tasks /\ Drops(t, stage).n = t.n /\ Drops(t, stage).kind = t.kind
            /\ Drops(t, stage).about = t.about /\ Drops(t, stage).members = t.members
            /\ Drops(t, stage).gone = t.gone /\ Drops(t, stage).sound = t.sound
            /\ Drops(t, stage).stage = stage
            /\ Fit(Becomes(t, Drops(t, stage)), started)
  <2> SUFFICES ASSUME NEW stage \in {"rows", "profiles"},
                      (stage = "rows" => t.kind = "message"),
                      (stage = "profiles" => t.kind = "refresh")
               PROVE  /\ Drops(t, stage) \in Tasks /\ Drops(t, stage).n = t.n
                      /\ Drops(t, stage).kind = t.kind
                      /\ Drops(t, stage).about = t.about /\ Drops(t, stage).members = t.members
                      /\ Drops(t, stage).gone = t.gone /\ Drops(t, stage).sound = t.sound
                      /\ Drops(t, stage).stage = stage
                      /\ Fit(Becomes(t, Drops(t, stage)), started)
    OBVIOUS
  <2>1. stage \in Stages
    BY DEF Stages
  <2>2. PICK u \in Tasks :
             /\ u = Drops(t, stage) /\ u.stage = stage
             /\ u.n = t.n /\ u.kind = t.kind /\ u.about = t.about
             /\ u.members = t.members /\ u.gone = t.gone /\ u.sound = t.sound
    BY <1>0, <2>1, DroppingTask
  <2>3. Apt(u)
    BY <1>0, <2>2 DEF Apt, Answered
  <2>4. Fit(Becomes(t, u), started)
    BY <1>0, <2>2, <2>3, FitBecomes DEF Becomes
  <2> QED
    BY <2>2, <2>4
<1>4. /\ astray' \in SUBSET (People \cup Keys) /\ latest' \in 0 .. MaxTasks
      /\ UNCHANGED <<zalo, participants, started>>
  BY <1>0, AstrayTypes
     DEF Simple, Reverts, Rewrite, WriteSummary, WritePin, WriteRank, WritePins, WriteInfo
<1>5. CASE Rewrite(t)
  <2>1. Writes(t, t.copy, {}, Rewritten(t)) /\ t.stage = "write" /\ Holds(t)
    BY <1>5 DEF Rewrite, Holds
  <2>0. \/ Rewritten(t) = Ended(t)
        \/ t.kind = "message" /\ Rewritten(t) = Becomes(t, Drops(t, "rows"))
    BY DEF Rewritten
  <2>2. Fit(Rewritten(t), started)
    BY <1>1, <1>3, <2>0
  <2>3. Simple' /\ TasksInv' /\ meta' = t.copy /\ tasks' = Noted(Rewritten(t), t, {})
    BY <1>0, <1>2, <1>4, <2>1, <2>2, WritesFit
  <2>4. CASE Rewritten(t) = Ended(t)
    BY <1>0, <1>2, <1>5, <2>1, <2>2, <2>3, <2>4 DEF Wrote
  <2>5. CASE t.kind = "message" /\ Rewritten(t) = Becomes(t, Drops(t, "rows"))
    <3>1. PICK u \in Tasks : /\ Rewritten(t) = Becomes(t, u) /\ u.n = t.n /\ u.kind = t.kind
                             /\ u.about = t.about /\ u.members = t.members /\ u.gone = t.gone
                             /\ u.sound = t.sound /\ u.stage = "rows"
      BY <1>3, <2>5
    <3> QED
      BY <1>0, <1>2, <1>5, <2>1, <2>2, <2>3, <2>5, <3>1 DEF Wrote
  <2> QED
    BY <2>0, <2>4, <2>5
<1>6. CASE WriteSummary(t)
  <2>1. PICK value \in Metadata : /\ value = [t.copy EXCEPT !.summary = t.n] /\ value.summary = t.n
                                  /\ \A k \in Keys \ {"summary"} : value[k] = t.copy[k]
    BY <1>0, MetadataFields DEF Metadata, Keys
  <2>2. Writes(t, value, {"summary"}, Ended(t)) /\ t.stage = "write" /\ Holds(t)
    BY <1>6, <2>1 DEF WriteSummary, Holds
  <2>3. Simple' /\ TasksInv' /\ meta' = value /\ tasks' = Noted(Ended(t), t, {"summary"})
    BY <1>1, <1>2, <1>4, <2>2, WritesFit
  <2> QED
    BY <1>1, <1>2, <1>6, <2>1, <2>2, <2>3 DEF Wrote
<1>7. CASE WritePin(t) \/ WritePins(t)
  <2>1. PICK X \in SUBSET Pins :
             /\ Writes(t, [t.copy EXCEPT !.pins = X], {"pins"}, Ended(t))
             /\ WritePin(t) => X = PinsAfter(t)
             /\ WritePins(t) => X = t.pins
    <3>1. PinsAfter(t) \in SUBSET Pins \/ ~ WritePin(t)
      BY <1>0 DEF PinsAfter, WritePin, Apt
    <3> QED
      BY <1>0, <1>7, <3>1 DEF WritePin, WritePins
  <2>2. PICK value \in Metadata : /\ value = [t.copy EXCEPT !.pins = X] /\ value.pins = X
                                  /\ \A k \in Keys \ {"pins"} : value[k] = t.copy[k]
    BY <1>0, MetadataFields DEF Metadata, Keys
  <2>3. t.stage = "write" /\ Holds(t)
    BY <1>7 DEF WritePin, WritePins, Holds
  <2>4. Simple' /\ TasksInv' /\ meta' = value /\ tasks' = Noted(Ended(t), t, {"pins"})
    BY <1>1, <1>2, <1>4, <2>1, <2>2, WritesFit
  <2> QED
    BY <1>1, <1>2, <1>7, <2>1, <2>2, <2>3, <2>4 DEF Wrote
<1>8. CASE WriteRank(t)
  <2>1. AdminsAfter(t) \in SUBSET People
    BY <1>0, <1>8 DEF AdminsAfter, WriteRank, Apt
  <2>2. PICK value \in Metadata :
             /\ value = [t.copy EXCEPT !.admins = AdminsAfter(t)] /\ value.admins = AdminsAfter(t)
             /\ \A k \in Keys \ {"admins"} : value[k] = t.copy[k]
    BY <1>0, <2>1, MetadataFields DEF Metadata, Keys
  <2>3. Writes(t, value, {"admins"}, Ended(t)) /\ t.stage = "write" /\ Holds(t)
    BY <1>8, <2>2 DEF WriteRank, Holds
  <2>4. Simple' /\ TasksInv' /\ meta' = value /\ tasks' = Noted(Ended(t), t, {"admins"})
    BY <1>1, <1>2, <1>4, <2>3, WritesFit
  <2> QED
    BY <1>1, <1>2, <1>8, <2>2, <2>3, <2>4 DEF Wrote
<1>9. CASE WriteInfo(t)
  <2>1. PICK value \in Metadata :
             /\ value = [t.copy EXCEPT !.admins = t.admins] /\ value.admins = t.admins
             /\ \A k \in Keys \ {"admins"} : value[k] = t.copy[k]
    BY <1>0, MetadataFields DEF Metadata, Keys
  <2>2. /\ Writes(t, value, {"admins"}, Becomes(t, Drops(t, "profiles")))
        /\ t.stage = "write" /\ Holds(t) /\ t.kind = "refresh"
    BY <1>9, <2>1 DEF WriteInfo, Holds
  <2>3. /\ Simple' /\ TasksInv' /\ meta' = value
        /\ tasks' = Noted(Becomes(t, Drops(t, "profiles")), t, {"admins"})
    BY <1>2, <1>3, <1>4, <2>2, WritesFit
  <2> QED
    BY <1>2, <1>3, <1>9, <2>1, <2>2, <2>3 DEF Wrote
<1> QED
  BY <1>5, <1>6, <1>7, <1>8, <1>9

\* The steps of one task that leave the metadata alone and Zalo too.
LEMMA MovesFit ==
    ASSUME Simple, TasksInv, NEW t \in tasks,
           \/ ReadMetadata(t) \/ AddRow(t) \/ LeaveRow(t) \/ RemoveRow(t) \/ FetchPins(t)
           \/ FetchInfo(t) \/ FetchProfiles(t) \/ ListRows(t) \/ DeleteGone(t) \/ Fails(t)
           \/ \E p \in People : UpsertRow(t, p) \/ UpsertRejected(t, p)
    PROVE  Simple' /\ TasksInv'
<1>0. /\ t \in Tasks /\ Apt(t) /\ meta \in Metadata /\ participants \in SUBSET People
      /\ astray \in SUBSET (People \cup Keys) /\ Fit(tasks, started)
      /\ group.admins \in SUBSET People /\ group.members \in SUBSET People
      /\ group.pins \in SUBSET Pins
      /\ t.members \in SUBSET People /\ t.gone \in SUBSET People
      /\ {"read", "write", "list", "rows", "rest"} \subseteq Stages
  BY OneOf, TaskFields, GroupFields DEF TasksInv, Simple, Stages
<1>1. CASE ReadMetadata(t)
  BY <1>0, <1>1, ReadingTask, OneMoves DEF ReadMetadata, Apt, Answered, history
<1>2. CASE AddRow(t) \/ RemoveRow(t)
  <2>1. t.about \in People
    BY <1>0, <1>2 DEF AddRow, RemoveRow, Apt
  <2> QED
    BY <1>0, <1>2, <2>1, OneMoves DEF AddRow, RemoveRow, history
<1>3. CASE LeaveRow(t)
  BY <1>0, <1>3, MovedTask, OneMoves DEF LeaveRow, Apt, Answered, history
<1>4. CASE FetchPins(t)
  <2>1. PICK u \in Tasks : u.n = t.n /\ Apt(u) /\ tasks' = Becomes(t, u)
    <3>1. CASE tasks' = Becomes(t, [t EXCEPT !.stage = "write"])
      BY <1>0, <1>4, <3>1, MovedTask DEF FetchPins, Apt, Answered
    <3>2. ASSUME NEW S \in SUBSET {"pins"},
                 tasks' = Becomes(t, [t EXCEPT !.stage = "write", !.pins = group.pins, !.sound = S])
          PROVE  \E u \in Tasks : u.n = t.n /\ Apt(u) /\ tasks' = Becomes(t, u)
      <4>0. PICK u : u = [t EXCEPT !.stage = "write", !.pins = group.pins, !.sound = S]
        OBVIOUS
      <4>1. u \in Tasks /\ u.n = t.n /\ u.kind = t.kind /\ u.stage = "write" /\ u.about = t.about
        <5>1. S \in SUBSET (People \cup Keys) /\ t \in Tasks /\ group.pins \in SUBSET Pins
          BY <1>0 DEF Keys
        <5> QED
          BY <4>0, <5>1 DEF Tasks
      <4>2. t.kind = "topics"
        BY <1>4 DEF FetchPins
      <4> QED
        BY <3>2, <4>0, <4>1, <4>2 DEF Apt, Answered
    <3> QED
      BY <1>4, <3>1, <3>2 DEF FetchPins
  <2> QED
    BY <1>0, <1>4, <2>1, OneMoves DEF FetchPins, history
<1>5. CASE FetchInfo(t)
  <2>1. PICK S \in SUBSET People :
             tasks' = Becomes(t, [t EXCEPT !.stage = "write", !.admins = group.admins,
                                  !.members = group.members, !.sound = {"admins"} \cup S])
    BY <1>5 DEF FetchInfo
  <2>2. PICK u \in Tasks : u.n = t.n /\ Apt(u) /\ tasks' = Becomes(t, u)
    <3>0. PICK u : u = [t EXCEPT !.stage = "write", !.admins = group.admins,
                               !.members = group.members, !.sound = {"admins"} \cup S]
      OBVIOUS
    <3>1. u \in Tasks /\ u.n = t.n /\ u.kind = t.kind /\ u.stage = "write" /\ u.about = t.about
      <4>1. {"admins"} \cup S \in SUBSET (People \cup Keys)
        BY DEF Keys
      <4> QED
        <5>1. t \in Tasks /\ group.admins \in SUBSET People /\ group.members \in SUBSET People
          BY <1>0
        <5> QED
          BY <3>0, <4>1, <5>1 DEF Tasks
    <3>2. t.kind = "refresh"
      BY <1>5 DEF FetchInfo
    <3> QED
      BY <2>1, <3>0, <3>1, <3>2 DEF Apt, Answered
  <2> QED
    BY <1>0, <1>5, <2>2, OneMoves DEF FetchInfo, history
<1>6. CASE FetchProfiles(t)
  <2>1. CASE UNCHANGED astray /\ tasks' = Becomes(t, [t EXCEPT !.stage = "list"])
    BY <1>0, <1>6, <2>1, MovedTask, OneMoves DEF FetchProfiles, Apt, Answered
  <2>2. CASE /\ tasks' = Doubt(People, Becomes(t, [t EXCEPT !.stage = "list", !.members = {}]))
             /\ astray' = astray \cup People
    <3>1. PICK u \in Tasks : /\ u = [t EXCEPT !.stage = "list", !.members = {}]
                             /\ u.n = t.n /\ Apt(u)
      BY <1>0, <1>6, WithoutMembers DEF FetchProfiles, Apt, Answered
    <3>2. Fit(Becomes(t, u), started)
      BY <1>0, <3>1, FitBecomes DEF Becomes
    <3>3. Fit(tasks', started')
      BY <1>6, <2>2, <3>1, <3>2, DoubtedTasks DEF FetchProfiles
    <3> QED
      BY <1>0, <1>6, <2>2, <3>3 DEF FetchProfiles, Simple, TasksInv, zalo
  <2> QED
    BY <1>6, <2>1, <2>2 DEF FetchProfiles
<1>7. CASE ListRows(t)
  <2>1. participants \ t.members \in SUBSET People
    BY <1>0
  <2> QED
    BY <1>0, <1>7, <2>1, ListingTask, OneMoves DEF ListRows, Apt, Answered, history
<1>8. CASE DeleteGone(t)
  BY <1>0, <1>8, OneMoves DEF DeleteGone, history
<1>9. CASE Fails(t)
  <2>1. astray' \in SUBSET (People \cup Keys)
    <3>1. t.kind \in {"join", "leave"} => t.about \in People
      BY <1>0 DEF Apt
    <3> QED
      BY <1>0, <1>9, <3>1 DEF Fails, Keys
  <2> QED
    BY <1>0, <1>9, <2>1, OneMoves DEF Fails
<1>10. ASSUME NEW p \in People, UpsertRow(t, p) \/ UpsertRejected(t, p)
       PROVE  Simple' /\ TasksInv'
  <2>1. CASE UpsertRow(t, p)
    BY <1>0, <2>1, UpsertingTask, OneMoves DEF UpsertRow, Apt, Answered, history
  <2>2. CASE UpsertRejected(t, p)
    BY <1>0, <2>2, RejectedTask, OneMoves DEF UpsertRejected, Apt, Answered, history
  <2> QED
    BY <1>10, <2>1, <2>2
<1> QED
  BY <1>1, <1>2, <1>3, <1>4, <1>5, <1>6, <1>7, <1>8, <1>9, <1>10

\* The steps of one task that change the group.
LEMMA CallsFit ==
    ASSUME Simple, TasksInv, NEW t \in tasks, CallRemove(t) \/ CallRank(t)
    PROVE  Simple' /\ TasksInv'
<1>0. /\ t \in Tasks /\ Apt(t) /\ Fit(tasks, started) /\ group \in Groups
      /\ group.admins \in SUBSET group.members
      /\ {"write", "rows", "read"} \subseteq Stages
  BY OneOf, GroupFields DEF TasksInv, Simple, Stages
<1>1. CASE CallRemove(t)
  <2>0. t.kind = "remove" /\ t.stage = "call"
    BY <1>1 DEF CallRemove
  <2>1. PICK u \in Tasks : u = [t EXCEPT !.stage = "rows"] /\ u.n = t.n /\ Apt(u)
    <3>1. PICK u \in Tasks : /\ u = [t EXCEPT !.stage = "rows"] /\ u.n = t.n /\ u.kind = t.kind
                             /\ u.about = t.about /\ u.sound = t.sound
      BY <1>0, MovedTask
    <3> QED
      BY <1>0, <2>0, <3>1 DEF Apt, Answered
  <2>2. Fit(Becomes(t, u), started) /\ Leave(t.about, Becomes(t, u)) /\ t.about \in People
    BY <1>0, <1>1, <2>1, FitBecomes DEF CallRemove, Becomes, Apt
  <2> QED
    BY <2>2, ChangersFit
<1>2. CASE CallRank(t)
  <2>0. t.kind \in {"promote", "demote"}
    BY <1>2 DEF CallRank
  <2>1. PICK u \in Tasks : u = [t EXCEPT !.stage = "write"] /\ u.n = t.n /\ Apt(u)
    <3>1. PICK u \in Tasks : /\ u = [t EXCEPT !.stage = "write"] /\ u.n = t.n /\ u.kind = t.kind
                             /\ u.about = t.about /\ u.stage = "write" /\ u.sound = t.sound
      BY <1>0, MovedTask
    <3>2. t.stage = "call"
      BY <1>2 DEF CallRank
    <3> QED
      BY <1>0, <2>0, <3>1, <3>2 DEF Apt, Answered
  <2>2. Fit(Becomes(t, u), started)
    BY <1>0, <2>1, FitBecomes DEF Becomes
  <2>3. Ranked(t) \in SUBSET group.members
    BY <1>0, <1>2 DEF CallRank, Ranked
  <2>4. CASE tasks' = Becomes(t, u) /\ UNCHANGED <<zalo, started, astray>>
    BY <1>2, <2>2, <2>4 DEF CallRank, Simple, TasksInv, zalo
  <2>5. CASE Changes([group EXCEPT !.admins = Ranked(t)], {"admins"}, "rewrite", "group", "read",
                     Becomes(t, u), FALSE)
    <3>1. started < MaxTasks => Apt(Task("rewrite", "group", "read"))
      <4>1. "rewrite" \in Kinds /\ "read" \in Stages
        BY DEF Kinds, Stages
      <4> QED
        BY <4>1, NewTask DEF Apt, Answered, Simple
    <3>2. {"admins"} \in SUBSET (People \cup Keys) /\ "rewrite" \in Kinds
      BY DEF Keys, Kinds
    <3>3. [group EXCEPT !.admins = Ranked(t)] \in Groups
      BY <1>0, <2>3, GroupFields
    <3> QED
      BY <1>0, <1>2, <2>2, <2>5, <3>1, <3>2, <3>3, ChangesFit DEF CallRank
  <2> QED
    BY <1>2, <2>1, <2>4, <2>5 DEF CallRank
<1> QED
  BY <1>1, <1>2

\* Every step keeps the types.
LEMMA TypesStep ==
    ASSUME Simple, TasksInv, [Next]_vars
    PROVE  Simple' /\ TasksInv'
<1>1. CASE \E p \in People : Join(p) \/ Leave(p, tasks) \/ Rank(p)
  BY <1>1, ChangersFit DEF TasksInv
<1>2. CASE \E x \in Pins : Pin(x)
  BY <1>2, ChangersFit
<1>3. CASE \/ \E p \in People : \/ BeginMessage(p) \/ BeginRemove(p)
                                \/ BeginRank("promote", p) \/ BeginRank("demote", p)
           \/ BeginRewrite \/ BeginSummary \/ BeginTopics \/ BeginRefresh
  BY <1>3, BeginsFit, StartsFit
<1>4. ASSUME NEW t \in tasks,
             \/ Rewrite(t) \/ WriteSummary(t) \/ WritePin(t) \/ WriteRank(t) \/ WritePins(t)
             \/ WriteInfo(t)
      PROVE  Simple' /\ TasksInv'
  BY <1>4, WritersFit
<1>5. ASSUME NEW t \in tasks,
             \/ ReadMetadata(t) \/ AddRow(t) \/ LeaveRow(t) \/ RemoveRow(t) \/ FetchPins(t)
             \/ FetchInfo(t) \/ FetchProfiles(t) \/ ListRows(t) \/ DeleteGone(t) \/ Fails(t)
             \/ \E p \in People : UpsertRow(t, p) \/ UpsertRejected(t, p)
      PROVE  Simple' /\ TasksInv'
  BY <1>5, MovesFit
<1>6. ASSUME NEW t \in tasks, CallRemove(t) \/ CallRank(t)
      PROVE  Simple' /\ TasksInv'
  BY <1>6, CallsFit
<1>7. CASE UNCHANGED vars
  BY <1>7 DEF vars, zalo, history, Simple, TasksInv
<1> QED
  BY <1>1, <1>2, <1>3, <1>4, <1>5, <1>6, <1>7 DEF Next

\* The rows, the metadata and the tasks of the group have the types of the model, and
\* no two handlers or requests are one, for any people, pins, changes and tasks.
THEOREM GroupChatTypeCorrect == Spec => []TypeOK
<1>1. Init => Simple /\ TasksInv
  BY InitTypes
<1>2. Simple /\ TasksInv /\ [Next]_vars => Simple' /\ TasksInv'
  BY TypesStep
<1>3. Simple /\ TasksInv => TypeOK
  BY TypesApart
<1> QED
  BY <1>1, <1>2, <1>3, PTL DEF Spec

-----------------------------------------------------------------------------
(* Copies of the metadata, and the summary                                 *)

\* A change of X on Zalo's side leaves the tasks T, by now S, which vouch for
\* nothing of X any more, and maybe a new one.
Changed(S, T, X, kind, about, stage, muddled) ==
    /\ Fit(S, started) /\ Follows(S, T) /\ \A v \in S : v.sound \cap X = {}
    /\ \/ tasks' = S /\ astray' = astray \cup X
       \/ \E task \in Tasks :
             /\ tasks' = S \cup {task} /\ ~ Holds(task)
             /\ task.n = started + 1 /\ task.kind = kind /\ task.about = about
             /\ task.stage = stage /\ task.missed = {} /\ task.sound = {}
             /\ task.members = {} /\ task.gone = {}
             /\ \/ muddled /\ astray' = astray \cup X
                \/ ~ muddled /\ astray' = astray

LEMMA ChangedTasks ==
    ASSUME Simple, NEW g, NEW X, NEW kind \in {"join", "leave", "rewrite", "pin", "unpin"},
           NEW about \in People \cup Pins \cup {"group"}, NEW stage \in {"rows", "read"},
           NEW T, Fit(T, started), NEW muddled,
           Changes(g, X, kind, about, stage, T, muddled)
    PROVE  group' = g /\ \E S : Changed(S, T, X, kind, about, stage, muddled)
<1>0. kind \in Kinds /\ stage \in Stages
  BY DEF Kinds, Stages
<1>1. group' = g
  BY DEF Changes
<1>2. PICK S : /\ S = Doubt(X, T) /\ Fit(S, started) /\ Follows(S, T)
               /\ \A v \in S : v.sound \cap X = {}
  BY DoubtedTasks
<1>3. CASE tasks' = S /\ astray' = astray \cup X
  BY <1>1, <1>2, <1>3 DEF Changed
<1>4. CASE /\ started < MaxTasks
           /\ tasks' = S \cup {Task(kind, about, stage)}
           /\ astray' = IF muddled THEN astray \cup X ELSE astray
  <2>1. PICK task \in Tasks :
             /\ task = Task(kind, about, stage) /\ task.n = started + 1 /\ task.kind = kind
             /\ task.about = about /\ task.stage = stage /\ task.missed = {} /\ task.sound = {}
             /\ task.members = {} /\ task.gone = {}
    BY <1>0, <1>4, NewTask DEF Simple
  <2>2. ~ Holds(task)
    BY <2>1 DEF Holds
  <2>3. \/ muddled /\ astray' = astray \cup X
        \/ ~ muddled /\ astray' = astray
    BY <1>4
  <2>4. Changed(S, T, X, kind, about, stage, muddled)
    BY <1>2, <1>4, <2>1, <2>2, <2>3 DEF Changed
  <2> QED
    BY <1>1, <2>4
<1> QED
  BY <1>2, <1>3, <1>4 DEF Changes

LEMMA CopyFollows ==
    ASSUME NEW S, NEW T, NEW M, Follows(S, T), CopyOK(T, M)
    PROVE  CopyOK(S, M)
BY DEF Follows, Later, CopyOK, Holds

LEMMA CopyBecomes ==
    ASSUME NEW T, NEW M, CopyOK(T, M), NEW t \in T, NEW u,
           Holds(u) => \/ u.copy = M
                       \/ Holds(t) /\ u.copy = t.copy /\ t.missed \subseteq u.missed
    PROVE  CopyOK((T \ {t}) \cup {u}, M)
BY DEF CopyOK

LEMMA CopyFewer ==
    ASSUME NEW S, NEW T, NEW M, CopyOK(T, M), S \subseteq T
    PROVE  CopyOK(S, M)
BY DEF CopyOK

\* A change on Zalo's side leaves the metadata.
LEMMA CopyChanges ==
    ASSUME Simple, NEW g, NEW X, NEW kind \in {"join", "leave", "rewrite", "pin", "unpin"},
           NEW about \in People \cup Pins \cup {"group"}, NEW stage \in {"rows", "read"},
           NEW T, Fit(T, started), NEW muddled,
           Changes(g, X, kind, about, stage, T, muddled), meta' = meta, CopyOK(T, meta)
    PROVE  CopyInv'
<1>1. PICK S : Changed(S, T, X, kind, about, stage, muddled)
  BY ChangedTasks
<1>2. CopyOK(S, meta)
  BY <1>1, CopyFollows DEF Changed
<1>3. CopyOK(tasks', meta)
  BY <1>1, <1>2 DEF CopyOK, Changed
<1> QED
  BY <1>3 DEF CopyInv

\* Whoever writes the metadata puts its copy there but for the keys it owns.
LEMMA CopyWrites ==
    ASSUME TasksInv, CopyInv, NEW t \in tasks, Holds(t), NEW own \in SUBSET Keys, NEW T, NEW u,
           Fit(T, started),
           T = Ended(t) \/ (T = Becomes(t, u) /\ ~ Holds(u)),
           tasks' = Noted(T, t, own), \A k \in Keys \ own : meta'[k] = t.copy[k]
    PROVE  CopyInv'
<1>1. /\ Follows(tasks', T)
      /\ \A v \in tasks' : v.n # t.n /\ Holds(v) => own \cup t.missed \subseteq v.missed
  BY OneOf, NotedTasks
<1>2. SUFFICES ASSUME NEW v \in tasks', Holds(v), NEW k \in Keys \ v.missed
               PROVE  v.copy[k] = meta'[k]
  BY DEF CopyInv, CopyOK
<1>3. PICK o \in T : Later(v, o)
  BY <1>1 DEF Follows
<1>4. Holds(o) /\ o \in tasks /\ o # t
  BY <1>2, <1>3 DEF Holds, Later, Ended, Becomes
<1>5. v.n # t.n
  BY <1>3, <1>4, OneOf DEF Later
<1>6. k \notin own /\ k \notin t.missed /\ k \notin o.missed
  BY <1>1, <1>2, <1>3, <1>5 DEF Later
<1>7. meta[k] = t.copy[k] /\ o.copy[k] = meta[k]
  BY <1>4, <1>6 DEF CopyInv, CopyOK
<1> QED
  BY <1>3, <1>6, <1>7 DEF Later

\* Every step keeps the copies.
LEMMA CopyStep ==
    ASSUME Simple, TasksInv, CopyInv, [Next]_vars
    PROVE  CopyInv'
<1>0. /\ Fit(tasks, started) /\ CopyOK(tasks, meta)
      /\ \A p \in People : p \in People \cup Pins \cup {"group"}
      /\ \A x \in Pins : x \in People \cup Pins \cup {"group"}
  BY DEF TasksInv, CopyInv
<1>1. ASSUME NEW p \in People, NEW T, Fit(T, started), CopyOK(T, meta), Leave(p, T)
      PROVE  CopyInv'
  <2>1. PICK g, X : /\ Changes(g, X, "leave", p, "rows", T,
                             p \in group.admins \/ \E t \in T : Adds(t, p) \/ Refreshes(t))
                    /\ meta' = meta
    BY <1>1 DEF Leave
  <2> QED
    BY <1>0, <1>1, <2>1, CopyChanges
<1>2. ASSUME NEW p \in People, Join(p) \/ Rank(p)
      PROVE  CopyInv'
  <2>1. CASE Join(p)
    BY <1>0, <2>1, CopyChanges DEF Join
  <2>2. CASE Rank(p)
    <3>1. PICK g : /\ Changes(g, {"admins"}, "rewrite", "group", "read", tasks, TRUE)
                   /\ meta' = meta
      BY <2>2 DEF Rank
    <3> QED
      BY <1>0, <3>1, CopyChanges
  <2> QED
    BY <1>2, <2>1, <2>2
<1>3. ASSUME NEW x \in Pins, Pin(x)
      PROVE  CopyInv'
  <2>1. PICK X \in SUBSET Pins, kind \in {"pin", "unpin"} :
             /\ Changes([group EXCEPT !.pins = X], {"pins"}, kind, x, "read", tasks, PinsInFlight({x}))
             /\ meta' = meta
    BY <1>3, GroupFields DEF Pin, Simple
  <2> QED
    BY <1>0, <2>1, CopyChanges
<1>4. CASE \/ \E p \in People : \/ BeginMessage(p) \/ BeginRemove(p)
                                \/ BeginRank("promote", p) \/ BeginRank("demote", p)
           \/ BeginRewrite \/ BeginSummary \/ BeginTopics \/ BeginRefresh
  <2>1. PICK task \in Tasks : Starts(task) /\ (Holds(task) => task.copy = meta)
    BY <1>4, BeginsFit
  <2>2. tasks' = tasks \cup {task} /\ meta' = meta
    BY <2>1 DEF Starts
  <2> QED
    BY <1>0, <2>1, <2>2 DEF CopyInv, CopyOK
<1>5. ASSUME NEW t \in tasks,
             \/ Rewrite(t) \/ WriteSummary(t) \/ WritePin(t) \/ WriteRank(t) \/ WritePins(t)
             \/ WriteInfo(t)
      PROVE  CopyInv'
  <2>1. PICK own, T : Wrote(t, own, T) /\ Holds(t)
    BY <1>5, WritersFit
  <2>2. CASE T = Ended(t)
    BY <1>0, <2>1, <2>2, CopyWrites DEF Wrote
  <2>3. CASE \E u \in Tasks : /\ T = Becomes(t, u) /\ u.kind = t.kind
                              /\ t.kind \in {"message", "refresh"}
                              /\ t.kind = "message" => u.stage = "rows"
                              /\ t.kind = "refresh" => u.stage = "profiles"
    <3>1. PICK u \in Tasks : T = Becomes(t, u) /\ ~ Holds(u)
      BY <2>3 DEF Holds
    <3> QED
      BY <1>0, <2>1, <3>1, CopyWrites DEF Wrote
  <2> QED
    BY <2>1, <2>2, <2>3 DEF Wrote
<1>6. ASSUME NEW t \in tasks,
             \/ ReadMetadata(t) \/ AddRow(t) \/ LeaveRow(t) \/ RemoveRow(t) \/ FetchPins(t)
             \/ FetchInfo(t) \/ FetchProfiles(t) \/ ListRows(t) \/ DeleteGone(t) \/ Fails(t)
             \/ \E p \in People : UpsertRow(t, p) \/ UpsertRejected(t, p)
      PROVE  CopyInv'
  <2>0. t \in Tasks
    BY OneOf
  <2>1. PICK T : /\ \/ T = Ended(t)
                    \/ \E u : /\ T = Becomes(t, u)
                              /\ Holds(u) => \/ u.copy = meta
                                             \/ /\ Holds(t) /\ u.copy = t.copy
                                                /\ t.missed \subseteq u.missed
                 /\ tasks' = T \/ (tasks' = Doubt(People, T) /\ Fit(T, started))
                 /\ meta' = meta
    <3>1. CASE ReadMetadata(t)
      BY <2>0, <3>1, ReadingTask DEF ReadMetadata, Simple
    <3>2. CASE AddRow(t) \/ RemoveRow(t) \/ DeleteGone(t) \/ Fails(t)
      BY <3>2 DEF AddRow, RemoveRow, DeleteGone, Fails
    <3>3. CASE LeaveRow(t)
      BY <2>0, <3>3, MovedTask DEF LeaveRow, Holds, Stages
    <3>4. CASE FetchPins(t)
      <4>1. PICK u : /\ tasks' = Becomes(t, u) /\ u.copy = t.copy /\ u.missed = t.missed
                     /\ u.kind = t.kind
        <5>1. PICK X, Y : \/ tasks' = Becomes(t, [t EXCEPT !.stage = "write", !.pins = X, !.sound = Y])
                          \/ tasks' = Becomes(t, [t EXCEPT !.stage = "write"])
          BY <3>4 DEF FetchPins
        <5>2. PICK u : /\ tasks' = Becomes(t, u)
                       /\ \/ u = [t EXCEPT !.stage = "write", !.pins = X, !.sound = Y]
                          \/ u = [t EXCEPT !.stage = "write"]
          BY <5>1
        <5>3. u.copy = t.copy /\ u.missed = t.missed /\ u.kind = t.kind
          BY <2>0, <5>2 DEF Tasks
        <5> QED
          BY <5>2, <5>3
      <4> QED
        BY <3>4, <4>1 DEF FetchPins, Holds
    <3>5. CASE FetchInfo(t)
      <4>1. PICK u : /\ tasks' = Becomes(t, u) /\ u.copy = t.copy /\ u.missed = t.missed
                     /\ u.kind = t.kind
        <5>1. PICK A, M, Y : tasks' = Becomes(t, [t EXCEPT !.stage = "write", !.admins = A,
                                                           !.members = M, !.sound = Y])
          BY <3>5 DEF FetchInfo
        <5>2. PICK u : u = [t EXCEPT !.stage = "write", !.admins = A, !.members = M, !.sound = Y]
          OBVIOUS
        <5>3. u.copy = t.copy /\ u.missed = t.missed /\ u.kind = t.kind
          BY <2>0, <5>2 DEF Tasks
        <5> QED
          BY <5>1, <5>2, <5>3
      <4> QED
        BY <3>5, <4>1 DEF FetchInfo, Holds
    <3>6. CASE FetchProfiles(t)
      <4>1. PICK u \in Tasks : /\ u = [t EXCEPT !.stage = "list"] /\ ~ Holds(u)
        <5>1. "list" \in Stages
          BY DEF Stages
        <5> QED
          BY <2>0, <5>1, MovedTask DEF Holds
      <4>2. PICK w \in Tasks : /\ w = [t EXCEPT !.stage = "list", !.members = {}]
                               /\ ~ Holds(w) /\ w.n = t.n /\ Apt(w)
        BY <2>0, <3>6, WithoutMembers DEF FetchProfiles, Holds, Apt, Answered
      <4>3. Fit(Becomes(t, w), started)
        BY <1>0, <4>2, FitBecomes DEF Becomes
      <4> QED
        BY <3>6, <4>1, <4>2, <4>3 DEF FetchProfiles
    <3>7. CASE ListRows(t)
      <4>1. PICK u : tasks' = Becomes(t, u) /\ u.stage = "rows"
        <5>1. PICK u : u = [t EXCEPT !.stage = "rows", !.gone = participants \ t.members]
          OBVIOUS
        <5>2. u.stage = "rows"
          BY <2>0, <5>1 DEF Tasks
        <5> QED
          BY <3>7, <5>1, <5>2 DEF ListRows
      <4> QED
        BY <3>7, <4>1 DEF ListRows, Holds
    <3>8. ASSUME NEW p \in People, UpsertRow(t, p) \/ UpsertRejected(t, p)
          PROVE  \E u : tasks' = Becomes(t, u) /\ ~ Holds(u) /\ meta' = meta
      <4>1. CASE UpsertRow(t, p)
        BY <2>0, <4>1, UpsertingTask DEF UpsertRow, Holds
      <4>2. CASE UpsertRejected(t, p)
        BY <2>0, <4>2, RejectedTask DEF UpsertRejected, Holds
      <4> QED
        BY <3>8, <4>1, <4>2
    <3> QED
      BY <1>6, <3>1, <3>2, <3>3, <3>4, <3>5, <3>6, <3>7, <3>8
  <2>2. CopyOK(T, meta)
    BY <1>0, <2>1, CopyBecomes, CopyFewer DEF Ended, Becomes
  <2>3. CopyOK(tasks', meta)
    BY <2>1, <2>2, CopyFollows, DoubtedTasks
  <2> QED
    BY <2>1, <2>3 DEF CopyInv
<1>7. ASSUME NEW t \in tasks, CallRemove(t) \/ CallRank(t)
      PROVE  CopyInv'
  <2>0. t \in Tasks /\ Apt(t)
    BY OneOf
  <2>1. \A stage \in {"rows", "write"} :
           LET u == [t EXCEPT !.stage = stage] IN
           /\ u \in Tasks /\ u.n = t.n /\ u.kind = t.kind /\ u.stage = stage /\ u.about = t.about
           /\ u.copy = t.copy /\ u.missed = t.missed /\ u.sound = t.sound
    BY <2>0 DEF Tasks
  <2>2. CASE CallRemove(t)
    <3>0. t.kind = "remove" /\ t.stage = "call"
      BY <2>2 DEF CallRemove
    <3>1. PICK u \in Tasks : /\ u = [t EXCEPT !.stage = "rows"] /\ ~ Holds(u) /\ u.n = t.n /\ Apt(u)
      <4>1. PICK u \in Tasks : /\ u = [t EXCEPT !.stage = "rows"] /\ u.n = t.n /\ u.kind = t.kind
                               /\ u.about = t.about /\ u.sound = t.sound
        BY <2>1
      <4> QED
        BY <2>0, <3>0, <4>1 DEF Apt, Answered, Holds
    <3>2. Fit(Becomes(t, u), started) /\ CopyOK(Becomes(t, u), meta)
      BY <1>0, <3>1, FitBecomes, CopyBecomes DEF Becomes
    <3> QED
      BY <1>1, <2>0, <2>2, <3>1, <3>2 DEF CallRemove, Apt
  <2>3. CASE CallRank(t)
    <3>0. t.kind \in {"promote", "demote"} /\ t.stage = "call" /\ meta' = meta
      BY <2>3 DEF CallRank
    <3>1. PICK u \in Tasks : /\ u = [t EXCEPT !.stage = "write"] /\ u.n = t.n /\ Apt(u)
                             /\ u.copy = t.copy /\ u.missed = t.missed
      <4>1. PICK u \in Tasks : /\ u = [t EXCEPT !.stage = "write"] /\ u.n = t.n /\ u.kind = t.kind
                               /\ u.about = t.about /\ u.stage = "write" /\ u.sound = t.sound
                               /\ u.copy = t.copy /\ u.missed = t.missed
        BY <2>1
      <4> QED
        BY <2>0, <3>0, <4>1 DEF Apt, Answered
    <3>2. Fit(Becomes(t, u), started) /\ CopyOK(Becomes(t, u), meta)
      BY <1>0, <3>0, <3>1, FitBecomes, CopyBecomes DEF Becomes, Holds
    <3>3. CASE tasks' = Becomes(t, u)
      BY <3>0, <3>2, <3>3 DEF CopyInv
    <3>4. CASE Changes([group EXCEPT !.admins = Ranked(t)], {"admins"}, "rewrite", "group", "read",
                       Becomes(t, u), FALSE)
      BY <3>0, <3>2, <3>4, CopyChanges
    <3> QED
      BY <2>3, <3>1, <3>3, <3>4 DEF CallRank
  <2> QED
    BY <1>7, <2>2, <2>3
<1>8. CASE UNCHANGED vars
  BY <1>8 DEF vars, CopyInv, CopyOK
<1> QED
  BY <1>0, <1>1, <1>2, <1>3, <1>4, <1>5, <1>6, <1>7, <1>8 DEF Next

-----------------------------------------------------------------------------
(* What the steps of one task make of it                                   *)

\* u is t some steps later.
Grown(t, u) == u \in Tasks /\ u.n = t.n /\ u.kind = t.kind /\ u.about = t.about

\* The persons of whom a refresh that reads the group now learns for good.
Settled(t) ==
    IF \A u \in tasks \ {t} : u.kind = "refresh" => u.stage = "fetch"
    THEN {p \in People : ~ InFlight(p)} ELSE {}

LEMMA MovedFields ==
    ASSUME TasksInv, NEW t \in tasks, NEW stage \in Stages
    PROVE  \E u : /\ u = [t EXCEPT !.stage = stage] /\ Grown(t, u) /\ u.stage = stage
                  /\ u.copy = t.copy /\ u.admins = t.admins /\ u.members = t.members
                  /\ u.pins = t.pins /\ u.gone = t.gone /\ u.missed = t.missed
                  /\ u.sound = t.sound
<1>1. t \in Tasks
  BY OneOf
<1>2. PICK u : u = [t EXCEPT !.stage = stage]
  OBVIOUS
<1>3. /\ Grown(t, u) /\ u.stage = stage /\ u.copy = t.copy /\ u.admins = t.admins
      /\ u.members = t.members /\ u.pins = t.pins /\ u.gone = t.gone
      /\ u.missed = t.missed /\ u.sound = t.sound
  BY <1>1, <1>2, MovedTask DEF Grown
<1> QED
  BY <1>2, <1>3

LEMMA Reading ==
    ASSUME Simple, TasksInv, NEW t \in tasks, ReadMetadata(t)
    PROVE  \E u : /\ Grown(t, u) /\ tasks' = Becomes(t, u) /\ u.stage = "write"
                  /\ u.members = t.members /\ u.gone = t.gone /\ u.sound = t.sound
BY OneOf, ReadingTask DEF ReadMetadata, Grown, Simple

LEMMA Leaving ==
    ASSUME TasksInv, NEW t \in tasks, LeaveRow(t)
    PROVE  \E u : /\ Grown(t, u) /\ tasks' = Becomes(t, u) /\ u.stage = "read"
                  /\ u.sound = t.sound
<1>1. "read" \in Stages
  BY DEF Stages
<1> QED
  BY <1>1, MovedFields DEF LeaveRow

LEMMA AskingPins ==
    ASSUME Simple, TasksInv, NEW t \in tasks, FetchPins(t)
    PROVE  \E u : /\ Grown(t, u) /\ tasks' = Becomes(t, u) /\ u.stage = "write"
                  /\ \/ u.pins = group.pins /\ u.sound = IF PinsInFlight(Pins) THEN {} ELSE {"pins"}
                     \/ u.sound = t.sound
<1>0. t \in Tasks /\ group.pins \in SUBSET Pins /\ "write" \in Stages
  BY OneOf, GroupFields DEF Simple, Stages
<1>1. CASE tasks' = Becomes(t, [t EXCEPT !.stage = "write"])
  BY <1>0, <1>1, MovedFields
<1>2. ASSUME NEW S \in SUBSET {"pins"},
             tasks' = Becomes(t, [t EXCEPT !.stage = "write", !.pins = group.pins, !.sound = S])
      PROVE  \E u : /\ Grown(t, u) /\ tasks' = Becomes(t, u) /\ u.stage = "write"
                    /\ u.pins = group.pins /\ u.sound = S
  <2>1. PICK u : u = [t EXCEPT !.stage = "write", !.pins = group.pins, !.sound = S]
    OBVIOUS
  <2>2. S \in SUBSET (People \cup Keys)
    BY DEF Keys
  <2>3. /\ u \in Tasks /\ u.n = t.n /\ u.kind = t.kind /\ u.about = t.about
        /\ u.stage = "write" /\ u.pins = group.pins /\ u.sound = S
    BY <1>0, <2>1, <2>2 DEF Tasks
  <2> QED
    BY <1>2, <2>1, <2>3 DEF Grown
<1>3. CASE PinsInFlight(Pins)
  BY <1>1, <1>2, <1>3 DEF FetchPins
<1>4. CASE ~ PinsInFlight(Pins)
  BY <1>1, <1>2, <1>4 DEF FetchPins
<1> QED
  BY <1>3, <1>4

LEMMA AskingInfo ==
    ASSUME Simple, TasksInv, NEW t \in tasks, FetchInfo(t)
    PROVE  \E u : /\ Grown(t, u) /\ tasks' = Becomes(t, u) /\ u.stage = "write"
                  /\ u.admins = group.admins /\ u.members = group.members
                  /\ u.sound = {"admins"} \cup Settled(t)
<1>0. t \in Tasks /\ group.admins \in SUBSET People /\ group.members \in SUBSET People
  BY OneOf, GroupFields DEF Simple
<1>1. PICK u : u = [t EXCEPT !.stage = "write", !.admins = group.admins,
                             !.members = group.members, !.sound = {"admins"} \cup Settled(t)]
  OBVIOUS
<1>2. {"admins"} \cup Settled(t) \in SUBSET (People \cup Keys)
  BY DEF Keys, Settled
<1>3. tasks' = Becomes(t, u)
  BY <1>1 DEF FetchInfo, Settled
<1>4. /\ u \in Tasks /\ u.n = t.n /\ u.kind = t.kind /\ u.about = t.about
      /\ u.stage = "write" /\ u.admins = group.admins /\ u.members = group.members
      /\ u.sound = {"admins"} \cup Settled(t)
  BY <1>0, <1>1, <1>2 DEF Tasks
<1> QED
  BY <1>3, <1>4 DEF Grown

LEMMA AskingProfiles ==
    ASSUME TasksInv, NEW t \in tasks, FetchProfiles(t)
    PROVE  \E u : /\ Grown(t, u) /\ u.stage = "list" /\ u.sound = t.sound
                  /\ \/ tasks' = Becomes(t, u) /\ u.members = t.members /\ astray' = astray
                     \/ /\ tasks' = Doubt(People, Becomes(t, u)) /\ u.members = {}
                        /\ astray' = astray \cup People
<1>0. t \in Tasks /\ "list" \in Stages
  BY OneOf DEF Stages
<1>1. CASE tasks' = Becomes(t, [t EXCEPT !.stage = "list"]) /\ astray' = astray
  BY <1>0, <1>1, MovedFields
<1>2. CASE /\ tasks' = Doubt(People, Becomes(t, [t EXCEPT !.stage = "list", !.members = {}]))
           /\ astray' = astray \cup People
  <2>1. PICK u : u = [t EXCEPT !.stage = "list", !.members = {}]
    OBVIOUS
  <2>2. Grown(t, u) /\ u.stage = "list" /\ u.sound = t.sound /\ u.members = {}
    BY <1>0, <2>1, WithoutMembers DEF Grown
  <2> QED
    BY <1>2, <2>1, <2>2
<1> QED
  BY <1>1, <1>2 DEF FetchProfiles

LEMMA Listing ==
    ASSUME Simple, TasksInv, NEW t \in tasks, ListRows(t)
    PROVE  \E u : /\ Grown(t, u) /\ tasks' = Becomes(t, u) /\ u.stage = "rows"
                  /\ u.gone = participants \ t.members /\ u.members = t.members
                  /\ u.sound = t.sound
<1>0. t \in Tasks /\ participants \ t.members \in SUBSET People
  BY OneOf DEF Simple
<1>1. PICK u : u = [t EXCEPT !.stage = "rows", !.gone = participants \ t.members]
  OBVIOUS
<1>2. /\ Grown(t, u) /\ u.stage = "rows" /\ u.gone = participants \ t.members
      /\ u.members = t.members /\ u.sound = t.sound
  BY <1>0, <1>1, ListingTask DEF Grown
<1> QED
  BY <1>1, <1>2 DEF ListRows

LEMMA Upserting ==
    ASSUME TasksInv, NEW t \in tasks, NEW p, UpsertRow(t, p) \/ UpsertRejected(t, p)
    PROVE  \E u : /\ Grown(t, u) /\ tasks' = Becomes(t, u)
                  /\ u.stage = IF UpsertRow(t, p) THEN t.stage ELSE "rest"
                  /\ u.members = t.members \ {p} /\ u.gone = t.gone /\ u.sound = t.sound
<1>0. t \in Tasks
  BY OneOf
<1>1. CASE UpsertRow(t, p)
  <2>1. PICK u : u = [t EXCEPT !.members = @ \ {p}]
    OBVIOUS
  <2>2. /\ Grown(t, u) /\ u.stage = t.stage /\ u.members = t.members \ {p} /\ u.gone = t.gone
        /\ u.sound = t.sound
    BY <1>0, <2>1, UpsertingTask DEF Grown
  <2> QED
    BY <1>1, <2>1, <2>2 DEF UpsertRow
<1>2. CASE UpsertRejected(t, p) /\ ~ UpsertRow(t, p)
  <2>1. PICK u : u = [t EXCEPT !.stage = "rest", !.members = @ \ {p}]
    OBVIOUS
  <2>2. /\ Grown(t, u) /\ u.stage = "rest" /\ u.members = t.members \ {p} /\ u.gone = t.gone
        /\ u.sound = t.sound
    BY <1>0, <2>1, RejectedTask DEF Grown
  <2>3. tasks' = Becomes(t, u)
    BY <1>2, <2>1 DEF UpsertRejected
  <2> QED
    BY <1>2, <2>2, <2>3
<1> QED
  BY <1>1, <1>2

\* What joins and leaves change, and what they find muddled.
LEMMA JoinChanges ==
    ASSUME Simple, NEW p \in People, Join(p)
    PROVE  \E g, muddled :
              /\ muddled \in BOOLEAN /\ Changes(g, {p}, "join", p, "rows", tasks, muddled)
              /\ muddled = FALSE => \A t \in tasks : ~ Removes(t, p) /\ ~ Refreshes(t)
              /\ p \notin group.members /\ g.members = group.members \cup {p}
              /\ g.admins = group.admins /\ g.pins = group.pins
              /\ UNCHANGED <<participants, meta, latest>>
<1>0. PICK g : g = [group EXCEPT !.members = @ \cup {p}]
  OBVIOUS
<1>1. /\ g.members = group.members \cup {p} /\ g.admins = group.admins /\ g.pins = group.pins
      /\ p \notin group.members /\ UNCHANGED <<participants, meta, latest>>
  BY <1>0 DEF Simple, Groups, Join
<1>2. CASE \E t \in tasks : Removes(t, p) \/ Refreshes(t)
  <2>1. Changes(g, {p}, "join", p, "rows", tasks, TRUE)
    BY <1>0, <1>2 DEF Join, Changes
  <2> QED
    BY <1>1, <2>1
<1>3. CASE ~ \E t \in tasks : Removes(t, p) \/ Refreshes(t)
  <2>1. Changes(g, {p}, "join", p, "rows", tasks, FALSE)
    BY <1>0, <1>3 DEF Join, Changes
  <2> QED
    BY <1>1, <1>3, <2>1
<1> QED
  BY <1>2, <1>3

LEMMA LeaveChanges ==
    ASSUME Simple, NEW p \in People, NEW T, Leave(p, T)
    PROVE  \E g, X, muddled :
              /\ muddled \in BOOLEAN /\ Changes(g, X, "leave", p, "rows", T, muddled)
              /\ p \in group.admins => "admins" \in X /\ muddled = TRUE
              /\ muddled = FALSE => \A t \in T : ~ Adds(t, p) /\ ~ Refreshes(t)
              /\ p \in X /\ X \subseteq {p, "admins"}
              /\ p \in group.members /\ g.members = group.members \ {p}
              /\ g.admins = group.admins \ {p} /\ g.pins = group.pins
              /\ UNCHANGED <<participants, meta, latest>>
<1>0. PICK g : g = [group EXCEPT !.members = @ \ {p}, !.admins = @ \ {p}]
  OBVIOUS
<1>1. /\ g.members = group.members \ {p} /\ g.admins = group.admins \ {p} /\ g.pins = group.pins
      /\ p \in group.members /\ UNCHANGED <<participants, meta, latest>>
  BY <1>0 DEF Simple, Groups, Leave
<1>2. PICK X : X = IF p \in group.admins THEN {p, "admins"} ELSE {p}
  OBVIOUS
<1>3. CASE p \in group.admins \/ \E t \in T : Adds(t, p) \/ Refreshes(t)
  <2>1. Changes(g, X, "leave", p, "rows", T, TRUE)
    BY <1>0, <1>2, <1>3 DEF Leave, Changes
  <2> QED
    BY <1>1, <1>2, <2>1
<1>4. CASE ~ (p \in group.admins \/ \E t \in T : Adds(t, p) \/ Refreshes(t))
  <2>1. Changes(g, X, "leave", p, "rows", T, FALSE)
    BY <1>0, <1>2, <1>4 DEF Leave, Changes
  <2> QED
    BY <1>1, <1>2, <1>4, <2>1
<1> QED
  BY <1>3, <1>4

\* What a failure leaves astray.
LEMMA FailsAstray ==
    ASSUME NEW t, Fails(t)
    PROVE  /\ astray \subseteq astray'
           /\ t.kind \in {"join", "leave"} /\ t.stage = "rows" => t.about \in astray'
           /\ Pinning(t) => "pins" \in astray'
           /\ Ranks(t) => "admins" \in astray'
<1>1. t.kind \in {"join", "leave"} /\ t.stage = "rows" => t.about \in astray'
  BY DEF Fails
<1>2. Pinning(t) => "pins" \in astray'
  BY DEF Fails, Pinning
<1>3. Ranks(t) => "admins" \in astray'
  BY DEF Fails, Ranks
<1> QED
  BY <1>1, <1>2, <1>3 DEF Fails

-----------------------------------------------------------------------------
(* The deputies                                                            *)

LEMMA RanksFollow ==
    ASSUME NEW S, NEW T, NEW n, Fit(T, n), Follows(S, T), NEW D, NEW ids, RanksOK(T, D, ids)
    PROVE  RanksOK(S, D, ids)
<1>1. ASSUME \A v \in S : ~ Ranks(v)
      PROVE  ids = D
  BY <1>1 DEF Follows, Later, RanksOK, Ranks
<1>2. ASSUME NEW v \in S, Ranks(v)
      PROVE  \/ "admins" \in v.missed
             \/ AdminsAfter(v) = D
             \/ \E w \in S : w # v /\ Ranks(w)
  <2>1. PICK o \in T : Later(v, o)
    BY DEF Follows
  <2>2. Ranks(o) /\ AdminsAfter(o) = AdminsAfter(v)
    BY <1>2, <2>1 DEF Ranks, AdminsAfter, Later
  <2>3. CASE \E q \in T : q # o /\ Ranks(q)
    <3>1. PICK q \in T : q # o /\ Ranks(q)
      BY <2>3
    <3>2. PICK w \in S : Later(w, q)
      BY DEF Follows
    <3>3. Ranks(w) /\ w.n # v.n
      BY <2>1, <3>1, <3>2 DEF Ranks, Later, Fit, Distinct
    <3> QED
      BY <3>3
  <2> QED
    BY <2>1, <2>2, <2>3 DEF RanksOK, Later
<1> QED
  BY <1>1, <1>2 DEF RanksOK

LEMMA AdminsFollows ==
    ASSUME NEW S, NEW T, NEW n, Fit(T, n), Follows(S, T), NEW D, NEW ids, NEW a, NEW b,
           "admins" \in a => "admins" \in b, AdminsOK(T, D, ids, a)
    PROVE  AdminsOK(S, D, ids, b)
<1>1. RanksOK(T, D, ids) => RanksOK(S, D, ids)
  BY RanksFollow
<1>2. \A v \in S : TellsAdmins(v) => v.admins = D
  BY DEF Follows, Later, AdminsOK, TellsAdmins
<1> QED
  BY <1>1, <1>2 DEF AdminsOK

\* A task that ranks nobody moves on, or ends.
LEMMA AdminsMoves ==
    ASSUME NEW T, NEW D, NEW ids, NEW a, NEW b, AdminsOK(T, D, ids, a),
           "admins" \in a => "admins" \in b, NEW t \in T, NEW S, NEW u,
           S = T \ {t} \/ S = (T \ {t}) \cup {u},
           ~ Ranks(t) \/ (S = T \ {t} /\ "admins" \in b),
           ~ Ranks(u), TellsAdmins(u) => u.admins = D
    PROVE  AdminsOK(S, D, ids, b)
<1>1. \A v \in S : TellsAdmins(v) => v.admins = D
  BY DEF AdminsOK
<1>2. ASSUME RanksOK(T, D, ids), ~ Ranks(t)
      PROVE  RanksOK(S, D, ids)
  BY <1>2 DEF RanksOK
<1> QED
  BY <1>1, <1>2 DEF AdminsOK

\* The group changes: the deputies not, or with all the traces this leaves.
LEMMA AdminsChanges ==
    ASSUME Simple, NEW g, NEW X, NEW kind \in {"join", "leave", "rewrite", "pin", "unpin"},
           NEW about \in People \cup Pins \cup {"group"}, NEW stage \in {"rows", "read"},
           NEW T, Fit(T, started), NEW muddled \in BOOLEAN,
           Changes(g, X, kind, about, stage, T, muddled), meta' = meta,
           \A t \in T : TellsAdmins(t) => t.admins = group.admins,
           g.admins = group.admins \/ "admins" \in X,
           \/ "admins" \in astray
           \/ RanksOK(T, g.admins, meta.admins)
           \/ "admins" \in X /\ muddled
    PROVE  AdminsInv'
<1>1. PICK S : Changed(S, T, X, kind, about, stage, muddled)
  BY ChangedTasks, ZenonT(60)
<1>2. group' = g
  BY ChangedTasks
<1>3. Fit(S, started) /\ Follows(S, T) /\ \A v \in S : v.sound \cap X = {}
  BY <1>1 DEF Changed
<1>4. \A v \in S : TellsAdmins(v) => v.admins = g.admins
  BY <1>3 DEF Follows, Later, TellsAdmins
<1>5. astray \subseteq astray' /\ ("admins" \in X /\ muddled => "admins" \in astray')
  BY <1>1 DEF Changed
<1>6. CASE RanksOK(T, g.admins, meta.admins)
  <2>2. RanksOK(S, g.admins, meta.admins)
    BY <1>3, <1>6, RanksFollow
  <2>3. CASE tasks' = S
    BY <1>2, <1>4, <2>2, <2>3 DEF AdminsInv, AdminsOK
  <2>4. ASSUME NEW task, tasks' = S \cup {task}, ~ Ranks(task), task.sound = {}
        PROVE  AdminsInv'
    <3>1. RanksOK(tasks', g.admins, meta.admins)
      BY <2>2, <2>4 DEF RanksOK
    <3>2. \A v \in tasks' : TellsAdmins(v) => v.admins = g.admins
      BY <1>4, <2>4 DEF TellsAdmins
    <3> QED
      BY <1>2, <3>1, <3>2 DEF AdminsInv, AdminsOK
  <2>5. \A task : ~ Holds(task) => ~ Ranks(task)
    BY DEF Holds, Ranks
  <2> QED
    BY <1>1, <2>3, <2>4, <2>5 DEF Changed
<1>7. CASE "admins" \in astray'
  <2>1. \A v \in tasks' : TellsAdmins(v) => v.admins = g.admins
    BY <1>1, <1>4 DEF Changed, TellsAdmins
  <2> QED
    BY <1>2, <1>7, <2>1 DEF AdminsInv, AdminsOK
<1> QED
  BY <1>5, <1>6, <1>7

\* Whoever writes the metadata: what was missed is lost, and adminIds are what
\* they were, or what the one rank that was to be written makes them, or Zalo's.
LEMMA AdminsWrites ==
    ASSUME Simple, TasksInv, CopyInv, AdminsInv, NEW t \in tasks,
           \/ Rewrite(t) \/ WriteSummary(t) \/ WritePin(t) \/ WriteRank(t) \/ WritePins(t)
           \/ WriteInfo(t)
    PROVE  AdminsInv'
<1>1. PICK own, T : Wrote(t, own, T)
  BY WritersFit
<1>2. Fit(T, started) /\ tasks' = Noted(T, t, own) /\ own \in SUBSET Keys /\ t \in Tasks
  BY <1>1, OneOf DEF Wrote
<1>3. /\ Follows(tasks', T)
      /\ \A v \in tasks' : v.n # t.n /\ Holds(v) => own \cup t.missed \subseteq v.missed
  BY <1>2, NotedTasks
<1>4. \A o \in T : o \in tasks \ {t} \/ ((~ Ranks(o) /\ ~ TellsAdmins(o)))
  BY <1>1 DEF Wrote, Ended, Becomes, Ranks, TellsAdmins
<1>5. \A o \in tasks \ {t} : o \in T
  BY <1>1 DEF Wrote, Ended, Becomes
<1>6. \A v \in tasks' : TellsAdmins(v) => v.admins = group.admins
  BY <1>3, <1>4 DEF Follows, Later, TellsAdmins, AdminsInv, AdminsOK
<1>7. group' = group /\ Holds(t)
  BY WritersFit DEF Rewrite, WriteSummary, WritePin, WriteRank, WritePins, WriteInfo, zalo
<1>8. ASSUME "admins" \in own
      PROVE  \A v \in tasks' : Ranks(v) => "admins" \in v.missed
  <2> SUFFICES ASSUME NEW v \in tasks', Ranks(v) PROVE "admins" \in v.missed
    OBVIOUS
  <2>1. PICK o \in T : Later(v, o)
    BY <1>3 DEF Follows
  <2>2. Ranks(o) /\ Holds(v)
    BY <2>1 DEF Later, Ranks, Holds
  <2>3. v.n # t.n
    BY <1>4, <2>1, <2>2, OneOf DEF Later
  <2> QED
    BY <1>3, <1>8, <2>2, <2>3
<1>9. CASE Rewrite(t) \/ WriteSummary(t) \/ WritePin(t) \/ WritePins(t)
  <2>1. "admins" \notin own /\ ~ Ranks(t)
    BY <1>1, <1>9 DEF Wrote, Rewrite, WriteSummary, WritePin, WritePins, WriteRank, WriteInfo, Ranks
  <2>2. astray \cup t.missed \subseteq astray' \cup {"summary", "pins"}
    BY <1>9 DEF Rewrite, WriteSummary, WritePin, WritePins, Reverts, RightedIn
  <2>3. CASE "admins" \in t.missed
    BY <1>6, <1>7, <2>2, <2>3 DEF AdminsInv, AdminsOK
  <2>4. CASE "admins" \notin t.missed
    <3>1. meta'.admins = meta.admins
      <4>1. "admins" \in Keys
        BY DEF Keys
      <4>2. meta'["admins"] = t.copy["admins"] /\ t.copy["admins"] = meta["admins"]
        BY <1>1, <1>7, <2>1, <2>4, <4>1 DEF Wrote, CopyInv, CopyOK
      <4> QED
        BY <4>2
    <3>2. AdminsOK(T, group.admins, meta.admins, astray)
      <4>1. RanksOK(tasks, group.admins, meta.admins) => RanksOK(T, group.admins, meta.admins)
        BY <1>4, <1>5, <2>1 DEF RanksOK
      <4>2. \A o \in T : TellsAdmins(o) => o.admins = group.admins
        BY <1>4 DEF AdminsInv, AdminsOK
      <4> QED
        BY <4>1, <4>2 DEF AdminsInv, AdminsOK
    <3>3. AdminsOK(tasks', group.admins, meta.admins, astray')
      BY <1>2, <1>3, <2>2, <3>2, AdminsFollows
    <3> QED
      BY <1>7, <3>1, <3>3 DEF AdminsInv
  <2> QED
    BY <2>3, <2>4
<1>10. CASE WriteRank(t)
  <2>1. /\ own = {"admins"} /\ meta'.admins = AdminsAfter(t) /\ astray' = astray \cup t.missed
        /\ Ranks(t)
    BY <1>1, <1>10 DEF Wrote, WriteRank, Rewrite, WriteSummary, WritePin, WritePins, WriteInfo,
                      Reverts, Ranks
  <2>2. CASE "admins" \in astray \cup t.missed
    BY <1>6, <1>7, <2>1, <2>2 DEF AdminsInv, AdminsOK
  <2>3. CASE "admins" \notin astray \cup t.missed
    <3>1. RanksOK(tasks, group.admins, meta.admins)
      BY <2>3 DEF AdminsInv, AdminsOK
    <3>2. ASSUME \A v \in tasks' : ~ Ranks(v)
          PROVE  AdminsAfter(t) = group.admins
      <4>1. \A o \in tasks \ {t} : ~ Ranks(o)
        BY <1>3, <1>5, <3>2 DEF Follows, Later, Ranks
      <4> QED
        BY <2>1, <2>3, <3>1, <4>1 DEF RanksOK
    <3>3. RanksOK(tasks', group.admins, AdminsAfter(t))
      BY <1>8, <2>1, <3>2 DEF RanksOK
    <3> QED
      BY <1>6, <1>7, <2>1, <3>3 DEF AdminsInv, AdminsOK
  <2> QED
    BY <2>2, <2>3
<1>11. CASE WriteInfo(t)
  <2>1. /\ own = {"admins"} /\ meta'.admins = t.admins /\ astray' = RightedIn(t, "admins")
        /\ t.kind = "refresh" /\ t.stage = "write"
    BY <1>1, <1>11 DEF Wrote, WriteRank, Rewrite, WriteSummary, WritePin, WritePins, WriteInfo
  <2>2. CASE "admins" \in t.sound
    <3>1. t.admins = group.admins
      BY <2>1, <2>2 DEF AdminsInv, AdminsOK, TellsAdmins
    <3>2. RanksOK(tasks', group.admins, t.admins)
      BY <1>8, <2>1, <3>1 DEF RanksOK
    <3> QED
      BY <1>6, <1>7, <2>1, <3>2 DEF AdminsInv, AdminsOK
  <2>3. CASE "admins" \notin t.sound
    BY <1>6, <1>7, <2>1, <2>3 DEF AdminsInv, AdminsOK, RightedIn
  <2> QED
    BY <2>2, <2>3
<1> QED
  BY <1>9, <1>10, <1>11

\* A task that is ready to write a rank has called Zalo first, so that the deputies
\* are adminIds with that rank, or another one is to be written too.
LEMMA AdminsCalls ==
    ASSUME Simple, TasksInv, CopyInv, AdminsInv, NEW t \in tasks, CallRank(t)
    PROVE  AdminsInv'
<1>0. /\ t.kind \in {"promote", "demote"} /\ t.stage = "call" /\ meta' = meta
      /\ t \in Tasks /\ Apt(t) /\ Fit(tasks, started) /\ "write" \in Stages
  BY OneOf DEF CallRank, TasksInv, Stages
<1>1. PICK u : /\ u = [t EXCEPT !.stage = "write"] /\ Grown(t, u) /\ u.stage = "write"
               /\ u.copy = t.copy /\ u.missed = t.missed /\ u.sound = t.sound
  BY <1>0, MovedFields
<1>2. Fit(Becomes(t, u), started)
  BY <1>0, <1>1, FitBecomes DEF Becomes, Grown, Apt, Answered
<1>3. \A v \in Becomes(t, u) : TellsAdmins(v) => v.admins = group.admins
  BY <1>0, <1>1 DEF Becomes, Grown, TellsAdmins, AdminsInv, AdminsOK
<1>4. Ranks(u) /\ ~ Ranks(t)
  BY <1>0, <1>1 DEF Ranks, Grown
<1>5. ASSUME "admins" \notin astray
      PROVE  RanksOK(Becomes(t, u), Ranked(t), meta.admins)
  <2>1. RanksOK(tasks, group.admins, meta.admins)
    BY <1>5 DEF AdminsInv, AdminsOK
  <2>2. CASE \E q \in tasks : Ranks(q)
    <3>1. PICK q \in tasks : Ranks(q) /\ q # u /\ q # t
      <4>1. PICK q \in tasks : Ranks(q)
        BY <2>2
      <4>2. q # t /\ q.n # t.n
        BY <1>4, <4>1, OneOf
      <4> QED
        BY <1>1, <4>1, <4>2 DEF Grown
    <3> QED
      BY <1>4, <3>1 DEF RanksOK, Becomes
  <2>3. CASE \A q \in tasks : ~ Ranks(q)
    <3>1. meta.admins = group.admins
      BY <2>1, <2>3 DEF RanksOK
    <3>2. "admins" \in u.missed \/ AdminsAfter(u) = Ranked(t)
      <4>1. CASE "admins" \in t.missed
        BY <1>1, <4>1
      <4>2. CASE "admins" \notin t.missed
        <5>1. Holds(t) /\ "admins" \in Keys
          BY <1>0 DEF Holds, Keys
        <5>2. t.copy["admins"] = meta["admins"]
          BY <4>2, <5>1 DEF CopyInv, CopyOK
        <5>3. u.copy.admins = group.admins
          BY <1>1, <3>1, <5>2
        <5> QED
          BY <1>1, <5>3 DEF AdminsAfter, Ranked, Grown
      <4> QED
        BY <4>1, <4>2
    <3>3. \A v \in Becomes(t, u) : Ranks(v) => v = u
      BY <2>3 DEF Becomes
    <3>4. \A v \in Becomes(t, u) : Ranks(v) => "admins" \in v.missed \/ AdminsAfter(v) = Ranked(t)
      BY <3>2, <3>3
    <3>5. u \in Becomes(t, u)
      BY DEF Becomes
    <3> QED
      BY <1>4, <3>4, <3>5 DEF RanksOK
  <2> QED
    BY <2>2, <2>3
<1>6. CASE /\ tasks' = Becomes(t, u) /\ Ranked(t) = group.admins
           /\ UNCHANGED <<zalo, started, astray>>
  BY <1>0, <1>3, <1>5, <1>6 DEF AdminsInv, AdminsOK, zalo
<1>7. CASE Changes([group EXCEPT !.admins = Ranked(t)], {"admins"}, "rewrite", "group", "read",
                   Becomes(t, u), FALSE)
  <2>1. PICK g : g = [group EXCEPT !.admins = Ranked(t)]
    OBVIOUS
  <2>2. g.admins = Ranked(t)
    BY <2>1 DEF Simple, Groups
  <2>3. "admins" \in astray \/ RanksOK(Becomes(t, u), g.admins, meta.admins)
    BY <1>5, <2>2
  <2>4. Changes(g, {"admins"}, "rewrite", "group", "read", Becomes(t, u), FALSE)
    BY <1>7, <2>1
  <2> QED
    BY <1>0, <1>2, <1>3, <2>3, <2>4, AdminsChanges
<1> QED
  BY <1>1, <1>6, <1>7 DEF CallRank

\* Every step keeps what is known of the deputies.
LEMMA AdminsStep ==
    ASSUME Simple, TasksInv, CopyInv, AdminsInv, [Next]_vars
    PROVE  AdminsInv'
<1>0. /\ Fit(tasks, started) /\ AdminsOK(tasks, group.admins, meta.admins, astray)
      /\ \A v \in tasks : TellsAdmins(v) => v.admins = group.admins
      /\ "admins" \in astray \/ RanksOK(tasks, group.admins, meta.admins)
      /\ group \in Groups
  BY DEF TasksInv, AdminsInv, AdminsOK, Simple
<1>1. ASSUME NEW p \in People, NEW T, Fit(T, started), Leave(p, T),
             AdminsOK(T, group.admins, meta.admins, astray)
      PROVE  AdminsInv'
  <2>1. PICK g, X, muddled :
             /\ muddled \in BOOLEAN /\ Changes(g, X, "leave", p, "rows", T, muddled)
             /\ p \in group.admins => "admins" \in X /\ muddled = TRUE
             /\ g.admins = group.admins \ {p} /\ UNCHANGED <<participants, meta, latest>>
    <3>1. Leave(p, T)
      BY <1>1
    <3> QED
      BY <3>1, LeaveChanges
  <2>2. CASE p \in group.admins
    BY <1>1, <2>1, <2>2, AdminsChanges DEF AdminsOK
  <2>3. CASE p \notin group.admins
    <3>1. g.admins = group.admins
      BY <2>1, <2>3
    <3>2. "admins" \in astray \/ RanksOK(T, g.admins, meta.admins)
      BY <1>1, <3>1 DEF AdminsOK
    <3>3. \A v \in T : TellsAdmins(v) => v.admins = group.admins
      BY <1>1 DEF AdminsOK
    <3> QED
      BY <1>1, <2>1, <3>1, <3>2, <3>3, AdminsChanges
  <2> QED
    BY <2>2, <2>3
<1>2. ASSUME NEW p \in People, Join(p)
      PROVE  AdminsInv'
  <2>1. PICK g, muddled :
             /\ muddled \in BOOLEAN /\ Changes(g, {p}, "join", p, "rows", tasks, muddled)
             /\ meta' = meta /\ g.admins = group.admins
    BY <1>2, JoinChanges
  <2> QED
    BY <1>0, <2>1, AdminsChanges
<1>3. ASSUME NEW p \in People, Rank(p)
      PROVE  AdminsInv'
  <2>1. PICK g : /\ Changes(g, {"admins"}, "rewrite", "group", "read", tasks, TRUE)
                 /\ meta' = meta
    BY <1>3 DEF Rank
  <2> QED
    BY <1>0, <2>1, AdminsChanges
<1>4. ASSUME NEW x \in Pins, Pin(x)
      PROVE  AdminsInv'
  <2>1. PICK X \in SUBSET Pins, kind \in {"pin", "unpin"} :
             /\ Changes([group EXCEPT !.pins = X], {"pins"}, kind, x, "read", tasks, PinsInFlight({x}))
             /\ meta' = meta
    BY <1>0, <1>4, GroupFields DEF Pin
  <2>2. PICK g : g = [group EXCEPT !.pins = X] /\ g.admins = group.admins
    BY <1>0, GroupFields
  <2>3. PICK muddled \in BOOLEAN : Changes(g, {"pins"}, kind, x, "read", tasks, muddled)
    <3>1. PinsInFlight({x}) \in BOOLEAN
      BY DEF PinsInFlight
    <3> QED
      BY <2>1, <2>2, <3>1
  <2> QED
    BY <1>0, <2>1, <2>2, <2>3, AdminsChanges
<1>5. CASE \/ \E p \in People : \/ BeginMessage(p) \/ BeginRemove(p)
                                \/ BeginRank("promote", p) \/ BeginRank("demote", p)
           \/ BeginRewrite \/ BeginSummary \/ BeginTopics \/ BeginRefresh
  <2>1. PICK task \in Tasks : Starts(task) /\ task.sound = {} /\ ~ Ranks(task)
    BY <1>5, BeginsFit
  <2>2. tasks' = tasks \cup {task} /\ meta' = meta /\ group' = group /\ astray' = astray
    BY <2>1 DEF Starts, zalo, history
  <2>3. RanksOK(tasks, group.admins, meta.admins) => RanksOK(tasks', group.admins, meta.admins)
    BY <2>1, <2>2 DEF RanksOK
  <2>4. \A v \in tasks' : TellsAdmins(v) => v.admins = group.admins
    BY <1>0, <2>1, <2>2 DEF TellsAdmins
  <2> QED
    BY <1>0, <2>2, <2>3, <2>4 DEF AdminsInv, AdminsOK
<1>6. ASSUME NEW t \in tasks,
             \/ Rewrite(t) \/ WriteSummary(t) \/ WritePin(t) \/ WriteRank(t) \/ WritePins(t)
             \/ WriteInfo(t)
      PROVE  AdminsInv'
  BY <1>6, AdminsWrites
<1>7. ASSUME NEW t \in tasks, NEW T, NEW u,
             T = tasks \ {t} \/ T = (tasks \ {t}) \cup {u},
             ~ Ranks(t) \/ (T = tasks \ {t} /\ "admins" \in astray'),
             ~ Ranks(u), TellsAdmins(u) => u.admins = group.admins,
             tasks' = T \/ (tasks' = Doubt(People, T) /\ Fit(T, started)),
             UNCHANGED <<zalo, meta>>, "admins" \in astray => "admins" \in astray'
      PROVE  AdminsInv'
  <2>1. AdminsOK(T, group.admins, meta.admins, astray')
    BY <1>0, <1>7, AdminsMoves
  <2>2. CASE tasks' = T
    BY <1>7, <2>1, <2>2 DEF AdminsInv, zalo
  <2>3. CASE tasks' = Doubt(People, T) /\ Fit(T, started)
    <3>1. AdminsOK(tasks', group.admins, meta.admins, astray')
      BY <2>1, <2>3, DoubtedTasks, AdminsFollows
    <3> QED
      BY <1>7, <3>1 DEF AdminsInv, zalo
  <2> QED
    BY <1>7, <2>2, <2>3
<1>8. ASSUME NEW t \in tasks, AddRow(t) \/ RemoveRow(t) \/ DeleteGone(t) \/ Fails(t)
      PROVE  AdminsInv'
  <2>1. PICK u : ~ Ranks(u) /\ ~ TellsAdmins(u)
    <3>1. PICK u : u = [kind |-> "join", stage |-> "rows"]
      OBVIOUS
    <3> QED
      BY <3>1 DEF Ranks, TellsAdmins
  <2>2. "admins" \notin People
    BY GroupChatAssumption
  <2>3. CASE AddRow(t) \/ RemoveRow(t) \/ DeleteGone(t)
    BY <1>7, <2>1, <2>2, <2>3 DEF AddRow, RemoveRow, DeleteGone, Ended, Ranks, history
  <2>4. CASE Fails(t)
    BY <1>7, <2>1, <2>4, FailsAstray DEF Fails, Ended
  <2> QED
    BY <1>8, <2>3, <2>4
<1>9. ASSUME NEW t \in tasks,
             \/ ReadMetadata(t) \/ LeaveRow(t) \/ FetchPins(t) \/ FetchInfo(t)
             \/ FetchProfiles(t) \/ ListRows(t)
             \/ \E p \in People : UpsertRow(t, p) \/ UpsertRejected(t, p)
      PROVE  AdminsInv'
  <2>0. Apt(t)
    BY OneOf
  <2>1. CASE ReadMetadata(t)
    <3>1. PICK u : Grown(t, u) /\ tasks' = Becomes(t, u)
      BY <2>1, Reading
    <3>2. ~ Ranks(t) /\ ~ Ranks(u) /\ ~ TellsAdmins(u)
      BY <2>0, <2>1, <3>1 DEF ReadMetadata, Ranks, TellsAdmins, Apt, Answered, Grown
    <3> QED
      BY <1>7, <2>1, <3>1, <3>2 DEF ReadMetadata, Becomes, history
  <2>2. CASE LeaveRow(t)
    <3>1. PICK u : Grown(t, u) /\ tasks' = Becomes(t, u)
      BY <2>2, Leaving
    <3>2. ~ Ranks(t) /\ ~ Ranks(u) /\ ~ TellsAdmins(u)
      BY <2>2, <3>1 DEF LeaveRow, Ranks, TellsAdmins, Grown
    <3> QED
      BY <1>7, <2>2, <3>1, <3>2 DEF LeaveRow, Becomes, history
  <2>3. CASE FetchPins(t)
    <3>1. PICK u : Grown(t, u) /\ tasks' = Becomes(t, u)
      BY <2>3, AskingPins
    <3>2. ~ Ranks(t) /\ ~ Ranks(u) /\ ~ TellsAdmins(u)
      BY <2>3, <3>1 DEF FetchPins, Ranks, TellsAdmins, Grown
    <3> QED
      BY <1>7, <2>3, <3>1, <3>2 DEF FetchPins, Becomes, history
  <2>4. CASE FetchInfo(t)
    <3>1. PICK u : Grown(t, u) /\ tasks' = Becomes(t, u) /\ u.admins = group.admins
      BY <2>4, AskingInfo
    <3>2. ~ Ranks(t) /\ ~ Ranks(u)
      BY <2>4, <3>1 DEF FetchInfo, Ranks, Grown
    <3> QED
      BY <1>7, <2>4, <3>1, <3>2 DEF FetchInfo, Becomes, history
  <2>5. CASE FetchProfiles(t)
    <3>1. PICK u : /\ Grown(t, u) /\ u.stage = "list" /\ u.sound = t.sound
                   /\ tasks' = Becomes(t, u) \/ tasks' = Doubt(People, Becomes(t, u))
      BY <2>5, AskingProfiles
    <3>2. ~ Ranks(t) /\ ~ Ranks(u) /\ ~ TellsAdmins(u)
      BY <2>5, <3>1 DEF FetchProfiles, Ranks, TellsAdmins, Grown
    <3>3. Fit(Becomes(t, u), started)
      BY <1>0, <2>0, <2>5, <3>1, FitBecomes DEF FetchProfiles, Becomes, Grown, Apt, Answered
    <3> QED
      BY <1>7, <2>5, <3>1, <3>2, <3>3 DEF FetchProfiles, Becomes
  <2>6. CASE ListRows(t)
    <3>1. PICK u : Grown(t, u) /\ tasks' = Becomes(t, u) /\ u.stage = "rows"
      BY <2>6, Listing
    <3>2. ~ Ranks(t) /\ ~ Ranks(u) /\ ~ TellsAdmins(u)
      BY <2>6, <3>1 DEF ListRows, Ranks, TellsAdmins, Grown
    <3> QED
      BY <1>7, <2>6, <3>1, <3>2 DEF ListRows, Becomes, history
  <2>7. ASSUME NEW p \in People, UpsertRow(t, p) \/ UpsertRejected(t, p)
        PROVE  AdminsInv'
    <3>1. PICK u : /\ Grown(t, u) /\ tasks' = Becomes(t, u)
                   /\ u.stage = t.stage \/ u.stage = "rest"
      BY <2>7, Upserting
    <3>2. ~ Ranks(t) /\ ~ Ranks(u) /\ ~ TellsAdmins(u)
      BY <2>7, <3>1 DEF UpsertRow, UpsertRejected, Ranks, TellsAdmins, Grown
    <3> QED
      BY <1>7, <2>7, <3>1, <3>2 DEF UpsertRow, UpsertRejected, Becomes, history
  <2> QED
    BY <1>9, <2>1, <2>2, <2>3, <2>4, <2>5, <2>6, <2>7
<1>10. ASSUME NEW t \in tasks, CallRemove(t)
       PROVE  AdminsInv'
  <2>0. t.kind = "remove" /\ t.stage = "call" /\ Apt(t) /\ "rows" \in Stages /\ t.about \in People
    BY <1>10, OneOf DEF CallRemove, Stages, Apt
  <2>1. PICK u : u = [t EXCEPT !.stage = "rows"] /\ Grown(t, u) /\ u.sound = t.sound
    BY <2>0, MovedFields
  <2>2. Fit(Becomes(t, u), started)
    BY <1>0, <2>0, <2>1, FitBecomes DEF Becomes, Grown, Apt, Answered
  <2>3. ~ Ranks(t) /\ ~ Ranks(u) /\ ~ TellsAdmins(u)
    BY <2>0, <2>1 DEF Ranks, TellsAdmins, Grown
  <2>4. AdminsOK(Becomes(t, u), group.admins, meta.admins, astray)
    BY <1>0, <2>3, AdminsMoves DEF Becomes
  <2> QED
    BY <1>1, <1>10, <2>0, <2>1, <2>2, <2>4 DEF CallRemove
<1>11. ASSUME NEW t \in tasks, CallRank(t)
       PROVE  AdminsInv'
  BY <1>11, AdminsCalls
<1>12. CASE UNCHANGED vars
  BY <1>0, <1>12 DEF vars, zalo, history, AdminsInv
<1> QED
  BY <1>0, <1>1, <1>2, <1>3, <1>4, <1>5, <1>6, <1>8, <1>9, <1>10, <1>11, <1>12 DEF Next

-----------------------------------------------------------------------------
(* The pinned messages                                                     *)

LEMMA PinsFollows ==
    ASSUME NEW S, NEW T, Follows(S, T), NEW P, NEW pinned, NEW a, NEW b,
           "pins" \in a => "pins" \in b, PinsOK(T, P, pinned, a)
    PROVE  PinsOK(S, P, pinned, b)
<1>1. ASSUME HandlersOK(T, P, pinned)
      PROVE  HandlersOK(S, P, pinned)
  BY <1>1 DEF Follows, Later, HandlersOK, Pinning
<1>2. ASSUME NEW v \in S, TellsPins(v)
      PROVE  v.pins = P /\ \A w \in S : ~ Pinning(w)
  BY <1>2 DEF Follows, Later, PinsOK, TellsPins, Pinning
<1> QED
  BY <1>1, <1>2 DEF PinsOK

\* A task moves on, or ends: if it was to write a pin, it still is, or that is lost.
LEMMA PinsMoves ==
    ASSUME NEW T, NEW P, NEW pinned, NEW a, NEW b, PinsOK(T, P, pinned, a),
           "pins" \in a => "pins" \in b, NEW t \in T, NEW S, NEW u,
           S = T \ {t} \/ S = (T \ {t}) \cup {u},
           \/ ~ Pinning(t) /\ ~ Pinning(u)
           \/ S = (T \ {t}) \cup {u} /\ u.kind = t.kind /\ u.about = t.about
           \/ S = T \ {t} /\ "pins" \in b,
           TellsPins(u) => u.pins = P /\ \A w \in T : ~ Pinning(w)
    PROVE  PinsOK(S, P, pinned, b)
<1>0. ~ (Pinning(u) /\ TellsPins(u))
  BY DEF Pinning, TellsPins
<1>1. ASSUME NEW v \in S, TellsPins(v)
      PROVE  v.pins = P /\ \A w \in S : ~ Pinning(w)
  <2>1. v.pins = P /\ \A w \in T : ~ Pinning(w)
    BY <1>1 DEF PinsOK
  <2>2. ~ Pinning(u) \/ S = T \ {t}
    <3>1. ~ Pinning(t)
      BY <2>1
    <3> QED
      BY <3>1 DEF Pinning
  <2> QED
    BY <2>1, <2>2
<1>2. ASSUME HandlersOK(T, P, pinned), ~ Pinning(t), ~ Pinning(u)
      PROVE  HandlersOK(S, P, pinned)
  BY <1>2 DEF HandlersOK
<1>3. ASSUME HandlersOK(T, P, pinned), S = (T \ {t}) \cup {u}, u.kind = t.kind, u.about = t.about
      PROVE  HandlersOK(S, P, pinned)
  BY <1>3 DEF HandlersOK, Pinning
<1> QED
  BY <1>1, <1>2, <1>3 DEF PinsOK

\* The group changes, but not its pins.
LEMMA PinsChanges ==
    ASSUME Simple, NEW g, NEW X, NEW kind \in {"join", "leave", "rewrite"},
           NEW about \in People \cup Pins \cup {"group"}, NEW stage \in {"rows", "read"},
           NEW T, Fit(T, started), NEW muddled \in BOOLEAN,
           Changes(g, X, kind, about, stage, T, muddled), meta' = meta,
           g.pins = group.pins, PinsOK(T, group.pins, meta.pins, astray)
    PROVE  PinsInv'
<1>1. PICK S : Changed(S, T, X, kind, about, stage, muddled)
  BY ChangedTasks
<1>2. group' = g
  BY ChangedTasks
<1>3. astray \subseteq astray' /\ Follows(S, T)
  BY <1>1 DEF Changed
<1>4. PinsOK(S, group.pins, meta.pins, astray')
  BY <1>3, PinsFollows
<1>5. CASE tasks' = S
  BY <1>2, <1>4, <1>5 DEF PinsInv
<1>6. ASSUME NEW task, tasks' = S \cup {task}, task.kind = kind
      PROVE  PinsInv'
  <2>1. ~ Pinning(task) /\ ~ TellsPins(task)
    BY <1>6 DEF Pinning, TellsPins
  <2>2. HandlersOK(S, group.pins, meta.pins) => HandlersOK(tasks', group.pins, meta.pins)
    BY <1>6, <2>1 DEF HandlersOK
  <2>3. PinsOK(tasks', group.pins, meta.pins, astray')
    BY <1>4, <1>6, <2>1, <2>2 DEF PinsOK
  <2> QED
    BY <1>2, <2>3 DEF PinsInv
<1> QED
  BY <1>1, <1>5, <1>6 DEF Changed

\* A message is pinned or unpinned.
LEMMA PinsPin ==
    ASSUME Simple, TasksInv, PinsInv, NEW x \in Pins, Pin(x)
    PROVE  PinsInv'
<1>1. PICK g, kind, muddled :
           /\ Changes(g, {"pins"}, kind, x, "read", tasks, muddled) /\ meta' = meta
           /\ kind \in {"pin", "unpin"} /\ muddled \in BOOLEAN
           /\ kind = "pin" <=> x \notin group.pins
           /\ g.pins = IF x \in group.pins THEN group.pins \ {x} ELSE group.pins \cup {x}
           /\ muddled = FALSE => \A t \in tasks : ~ (Pinning(t) /\ t.about = x)
  <2>0. PICK muddled \in BOOLEAN : muddled = PinsInFlight({x})
    BY DEF PinsInFlight
  <2>1. muddled = FALSE => \A t \in tasks : ~ (Pinning(t) /\ t.about = x)
    BY <2>0 DEF PinsInFlight, Pinning
  <2>2. CASE x \in group.pins
    <3>1. PICK g : g = [group EXCEPT !.pins = group.pins \ {x}]
      OBVIOUS
    <3>2. g.pins = group.pins \ {x}
      BY <3>1 DEF Simple, Groups
    <3>3. Changes(g, {"pins"}, "unpin", x, "read", tasks, muddled) /\ meta' = meta
      BY <2>0, <2>2, <3>1 DEF Pin
    <3> QED
      BY <2>1, <2>2, <3>2, <3>3
  <2>3. CASE x \notin group.pins
    <3>1. PICK g : g = [group EXCEPT !.pins = group.pins \cup {x}]
      OBVIOUS
    <3>2. g.pins = group.pins \cup {x}
      BY <3>1 DEF Simple, Groups
    <3>3. Changes(g, {"pins"}, "pin", x, "read", tasks, muddled) /\ meta' = meta
      BY <2>0, <2>3, <3>1 DEF Pin
    <3> QED
      BY <2>1, <2>3, <3>2, <3>3
  <2> QED
    BY <2>2, <2>3
<1>2. Fit(tasks, started)
  BY DEF TasksInv
<1>3. PICK S : Changed(S, tasks, {"pins"}, kind, x, "read", muddled)
  BY <1>1, <1>2, ChangedTasks
<1>4. group' = g
  BY <1>1 DEF Changes
<1>5. /\ Follows(S, tasks) /\ \A v \in S : ~ TellsPins(v)
      /\ astray \subseteq astray'
  BY <1>3 DEF Changed, TellsPins
<1>6. CASE "pins" \in astray'
  <2>1. \A v \in tasks' : ~ TellsPins(v)
    BY <1>3, <1>5 DEF Changed, TellsPins
  <2> QED
    BY <1>6, <2>1 DEF PinsInv, PinsOK
<1>7. CASE "pins" \notin astray'
  <2>1. PICK task : /\ tasks' = S \cup {task} /\ task.kind = kind /\ task.about = x
                    /\ muddled = FALSE /\ task.sound = {}
    BY <1>1, <1>3, <1>7 DEF Changed
  <2>2. HandlersOK(tasks, group.pins, meta.pins)
    BY <1>5, <1>7 DEF PinsInv, PinsOK
  <2>3. HandlersOK(S, group.pins, meta.pins) /\ \A v \in S : ~ (Pinning(v) /\ v.about = x)
    BY <1>1, <1>5, <2>1, <2>2 DEF Follows, Later, HandlersOK, Pinning
  <2>4. HandlersOK(tasks', g.pins, meta.pins)
    <3>1. Pinning(task)
      BY <1>1, <2>1 DEF Pinning
    <3>2. \A y \in Pins : \/ y \in g.pins <=> y \in meta.pins
                          \/ \E t \in tasks' : Pinning(t) /\ t.about = y
      BY <1>1, <2>1, <2>3, <3>1 DEF HandlersOK
    <3>3. \A v \in tasks' : Pinning(v) => (v.kind = "pin" <=> v.about \in g.pins)
      BY <1>1, <2>1, <2>3 DEF HandlersOK
    <3> QED
      BY <3>2, <3>3 DEF HandlersOK
  <2>5. \A v \in tasks' : ~ TellsPins(v)
    BY <1>5, <2>1 DEF TellsPins
  <2> QED
    BY <1>1, <1>4, <2>4, <2>5 DEF PinsInv, PinsOK
<1> QED
  BY <1>6, <1>7

\* Whoever writes the metadata: what was missed is lost, and pinnedMessages are
\* what they were, or with what a handler had to write, or Zalo's.
LEMMA PinsWrites ==
    ASSUME Simple, TasksInv, CopyInv, PinsInv, NEW t \in tasks,
           \/ Rewrite(t) \/ WriteSummary(t) \/ WritePin(t) \/ WriteRank(t) \/ WritePins(t)
           \/ WriteInfo(t)
    PROVE  PinsInv'
<1>1. PICK own, T : Wrote(t, own, T)
  BY WritersFit
<1>2. Fit(T, started) /\ tasks' = Noted(T, t, own) /\ own \in SUBSET Keys /\ t \in Tasks
  BY <1>1, OneOf DEF Wrote
<1>3. Follows(tasks', T)
  BY <1>2, NotedTasks
<1>4. \A o \in T : o \in tasks \ {t} \/ ((~ Pinning(o) /\ ~ TellsPins(o)))
  BY <1>1 DEF Wrote, Ended, Becomes, Pinning, TellsPins
<1>5. \A o \in tasks \ {t} : o \in T
  BY <1>1 DEF Wrote, Ended, Becomes
<1>6. group' = group /\ Holds(t) /\ "pins" \in Keys
  BY WritersFit DEF Rewrite, WriteSummary, WritePin, WriteRank, WritePins, WriteInfo, zalo, Keys
<1>7. \A v \in tasks' : TellsPins(v) => v.pins = group.pins /\ \A w \in tasks' : ~ Pinning(w)
  <2>1. ASSUME NEW o \in T, TellsPins(o)
        PROVE  o.pins = group.pins /\ \A w \in T : ~ Pinning(w)
    BY <1>4, <2>1 DEF PinsInv, PinsOK
  <2> QED
    BY <1>3, <2>1 DEF Follows, Later, TellsPins, Pinning
<1>8. \A u \in tasks' : Pinning(u) => \E o \in tasks \ {t} : Pinning(o) /\ o.kind = u.kind /\ o.about = u.about
  BY <1>3, <1>4 DEF Follows, Later, Pinning
<1>9. \A o \in tasks \ {t} : Pinning(o) => \E u \in tasks' : Pinning(u) /\ u.about = o.about
  BY <1>3, <1>5 DEF Follows, Later, Pinning
<1>10. CASE Rewrite(t) \/ WriteSummary(t) \/ WriteRank(t) \/ WriteInfo(t)
  <2>1. "pins" \notin own /\ ~ Pinning(t)
    BY <1>1, <1>10 DEF Wrote, Rewrite, WriteSummary, WritePin, WritePins, WriteRank, WriteInfo, Pinning
  <2>2. astray \cup t.missed \subseteq astray' \cup {"summary", "admins"}
    BY <1>10 DEF Rewrite, WriteSummary, WriteRank, WriteInfo, Reverts, RightedIn
  <2>3. CASE "pins" \in astray'
    BY <1>6, <1>7, <2>3 DEF PinsInv, PinsOK
  <2>4. CASE "pins" \notin astray'
    <3>1. meta'["pins"] = t.copy["pins"] /\ t.copy["pins"] = meta["pins"]
      BY <1>1, <1>6, <2>1, <2>2, <2>4 DEF Wrote, CopyInv, CopyOK
    <3>2. HandlersOK(tasks, group.pins, meta.pins)
      BY <2>2, <2>4 DEF PinsInv, PinsOK
    <3>3. HandlersOK(tasks', group.pins, meta.pins)
      BY <1>8, <1>9, <2>1, <3>2 DEF HandlersOK
    <3> QED
      BY <1>6, <1>7, <3>1, <3>3 DEF PinsInv, PinsOK
  <2> QED
    BY <2>3, <2>4
<1>11. CASE WritePin(t)
  <2>1. /\ own = {"pins"} /\ meta'.pins = PinsAfter(t) /\ astray' = astray \cup t.missed
        /\ Pinning(t)
    BY <1>1, <1>11 DEF Wrote, WriteRank, Rewrite, WriteSummary, WritePin, WritePins, WriteInfo,
                      Reverts, Pinning
  <2>2. CASE "pins" \in astray \cup t.missed
    BY <1>6, <1>7, <2>1, <2>2 DEF PinsInv, PinsOK
  <2>3. CASE "pins" \notin astray \cup t.missed
    <3>1. t.copy["pins"] = meta["pins"]
      BY <1>6, <2>3 DEF CopyInv, CopyOK
    <3>2. HandlersOK(tasks, group.pins, meta.pins)
      BY <2>3 DEF PinsInv, PinsOK
    <3>3. PinsAfter(t) = IF t.about \in group.pins THEN meta.pins \cup {t.about}
                                                  ELSE meta.pins \ {t.about}
      BY <2>1, <3>1, <3>2 DEF PinsAfter, HandlersOK
    <3>4. HandlersOK(tasks', group.pins, PinsAfter(t))
      <4>1. ASSUME NEW y \in Pins
            PROVE  \/ y \in group.pins <=> y \in PinsAfter(t)
                   \/ \E u \in tasks' : Pinning(u) /\ u.about = y
        <5>1. CASE y = t.about
          BY <3>3, <5>1
        <5>2. CASE y # t.about
          BY <1>9, <3>2, <3>3, <5>2 DEF HandlersOK
        <5> QED
          BY <5>1, <5>2
      <4>2. \A u \in tasks' : Pinning(u) => (u.kind = "pin" <=> u.about \in group.pins)
        BY <1>8, <3>2 DEF HandlersOK
      <4> QED
        BY <4>1, <4>2 DEF HandlersOK
    <3> QED
      BY <1>6, <1>7, <2>1, <3>4 DEF PinsInv, PinsOK
  <2> QED
    BY <2>2, <2>3
<1>12. CASE WritePins(t)
  <2>1. /\ own = {"pins"} /\ meta'.pins = t.pins /\ astray' = RightedIn(t, "pins")
        /\ t.kind = "topics" /\ t.stage = "write"
    BY <1>1, <1>12 DEF Wrote, WriteRank, Rewrite, WriteSummary, WritePin, WritePins, WriteInfo
  <2>2. CASE "pins" \in t.sound
    <3>1. t.pins = group.pins /\ \A o \in tasks : ~ Pinning(o)
      BY <2>1, <2>2 DEF PinsInv, PinsOK, TellsPins
    <3>2. HandlersOK(tasks', group.pins, t.pins)
      BY <1>8, <3>1 DEF HandlersOK
    <3> QED
      BY <1>6, <1>7, <2>1, <3>2 DEF PinsInv, PinsOK
  <2>3. CASE "pins" \notin t.sound
    BY <1>6, <1>7, <2>1, <2>3 DEF PinsInv, PinsOK, RightedIn
  <2> QED
    BY <2>2, <2>3
<1> QED
  BY <1>10, <1>11, <1>12

\* Every step keeps what is known of the pins.
LEMMA PinsStep ==
    ASSUME Simple, TasksInv, CopyInv, PinsInv, [Next]_vars
    PROVE  PinsInv'
<1>0. /\ Fit(tasks, started) /\ PinsOK(tasks, group.pins, meta.pins, astray)
      /\ group \in Groups /\ "pins" \notin People
  BY GroupChatAssumption DEF TasksInv, PinsInv, Simple
<1>1. ASSUME NEW p \in People, NEW T, Fit(T, started), Leave(p, T),
             PinsOK(T, group.pins, meta.pins, astray)
      PROVE  PinsInv'
  <2>1. PICK g, X, muddled :
             /\ muddled \in BOOLEAN /\ Changes(g, X, "leave", p, "rows", T, muddled)
             /\ g.pins = group.pins /\ UNCHANGED <<participants, meta, latest>>
    <3>1. Leave(p, T)
      BY <1>1
    <3> QED
      BY <3>1, LeaveChanges
  <2> QED
    BY <1>1, <2>1, PinsChanges
<1>2. ASSUME NEW p \in People, Join(p)
      PROVE  PinsInv'
  <2>1. PICK g, muddled :
             /\ muddled \in BOOLEAN /\ Changes(g, {p}, "join", p, "rows", tasks, muddled)
             /\ g.pins = group.pins /\ UNCHANGED <<participants, meta, latest>>
    BY <1>2, JoinChanges
  <2> QED
    BY <1>0, <2>1, PinsChanges
<1>3. ASSUME NEW T, Fit(T, started), NEW A, NEW muddled \in BOOLEAN, meta' = meta,
             Changes([group EXCEPT !.admins = A], {"admins"}, "rewrite", "group", "read", T, muddled),
             PinsOK(T, group.pins, meta.pins, astray)
      PROVE  PinsInv'
  <2>1. PICK g : g = [group EXCEPT !.admins = A]
    OBVIOUS
  <2>2. g.pins = group.pins
    BY <1>0, <2>1 DEF Groups
  <2>3. Changes(g, {"admins"}, "rewrite", "group", "read", T, muddled)
    BY <1>3, <2>1
  <2> QED
    BY <1>3, <2>2, <2>3, PinsChanges
<1>4. ASSUME NEW p \in People, Rank(p)
      PROVE  PinsInv'
  <2>1. PICK A : /\ Changes([group EXCEPT !.admins = A], {"admins"}, "rewrite", "group", "read",
                            tasks, TRUE)
                 /\ meta' = meta
    BY <1>4 DEF Rank
  <2> QED
    BY <1>0, <1>3, <2>1
<1>5. CASE \/ \E p \in People : \/ BeginMessage(p) \/ BeginRemove(p)
                                \/ BeginRank("promote", p) \/ BeginRank("demote", p)
           \/ BeginRewrite \/ BeginSummary \/ BeginTopics \/ BeginRefresh
  <2>1. PICK task \in Tasks : Starts(task) /\ task.sound = {} /\ task.kind \notin {"pin", "unpin"}
    BY <1>5, BeginsFit
  <2>2. tasks' = tasks \cup {task} /\ meta' = meta /\ group' = group /\ astray' = astray
    BY <2>1 DEF Starts, zalo, history
  <2>3. ~ Pinning(task) /\ ~ TellsPins(task)
    BY <2>1 DEF Pinning, TellsPins
  <2>4. HandlersOK(tasks, group.pins, meta.pins) => HandlersOK(tasks', group.pins, meta.pins)
    BY <2>2, <2>3 DEF HandlersOK
  <2> QED
    BY <1>0, <2>2, <2>3, <2>4 DEF PinsInv, PinsOK
<1>7. ASSUME NEW t \in tasks, NEW T, NEW u,
             T = tasks \ {t} \/ T = (tasks \ {t}) \cup {u},
             \/ ~ Pinning(t) /\ ~ Pinning(u)
             \/ T = (tasks \ {t}) \cup {u} /\ u.kind = t.kind /\ u.about = t.about
             \/ T = tasks \ {t} /\ "pins" \in astray',
             TellsPins(u) => u.pins = group.pins /\ \A w \in tasks : ~ Pinning(w),
             tasks' = T \/ (tasks' = Doubt(People, T) /\ Fit(T, started)),
             UNCHANGED <<zalo, meta>>, "pins" \in astray => "pins" \in astray'
      PROVE  PinsInv'
  <2>1. PinsOK(T, group.pins, meta.pins, astray')
    BY <1>0, <1>7, PinsMoves
  <2>2. CASE tasks' = T
    BY <1>7, <2>1, <2>2 DEF PinsInv, zalo
  <2>3. CASE tasks' = Doubt(People, T) /\ Fit(T, started)
    <3>1. PinsOK(tasks', group.pins, meta.pins, astray')
      BY <2>1, <2>3, DoubtedTasks, PinsFollows
    <3> QED
      BY <1>7, <3>1 DEF PinsInv, zalo
  <2> QED
    BY <1>7, <2>2, <2>3
<1>8. ASSUME NEW t \in tasks, AddRow(t) \/ RemoveRow(t) \/ DeleteGone(t) \/ Fails(t)
      PROVE  PinsInv'
  <2>1. PICK u : ~ Pinning(u) /\ ~ TellsPins(u)
    <3>1. PICK u : u = [kind |-> "join"]
      OBVIOUS
    <3> QED
      BY <3>1 DEF Pinning, TellsPins
  <2>3. CASE AddRow(t) \/ RemoveRow(t) \/ DeleteGone(t)
    <3>1. ~ Pinning(t) /\ tasks' = tasks \ {t} /\ UNCHANGED <<zalo, meta>>
      BY <2>3 DEF AddRow, RemoveRow, DeleteGone, Ended, Pinning, history
    <3>2. "pins" \in astray => "pins" \in astray'
      BY <1>0, <2>3 DEF AddRow, RemoveRow, DeleteGone, history
    <3> QED
      BY <1>7, <2>1, <3>1, <3>2
  <2>4. CASE Fails(t)
    <3>1. tasks' = tasks \ {t} /\ UNCHANGED <<zalo, meta>>
      BY <2>4 DEF Fails, Ended
    <3>2. /\ "pins" \in astray => "pins" \in astray'
          /\ Pinning(t) => "pins" \in astray'
      BY <2>4, FailsAstray
    <3> QED
      BY <1>7, <2>1, <3>1, <3>2
  <2> QED
    BY <1>8, <2>3, <2>4
<1>9. ASSUME NEW t \in tasks, NEW u, Grown(t, u), ~ TellsPins(u),
             \/ tasks' = Becomes(t, u)
             \/ tasks' = Doubt(People, Becomes(t, u)) /\ Fit(Becomes(t, u), started),
             UNCHANGED <<zalo, meta>>, "pins" \in astray => "pins" \in astray'
      PROVE  PinsInv'
  <2>1. u.kind = t.kind /\ u.about = t.about /\ Becomes(t, u) = (tasks \ {t}) \cup {u}
    BY <1>9 DEF Grown, Becomes
  <2> QED
    BY <1>7, <1>9, <2>1
<1>10. ASSUME NEW t \in tasks,
              \/ ReadMetadata(t) \/ LeaveRow(t) \/ FetchPins(t) \/ FetchInfo(t)
              \/ FetchProfiles(t) \/ ListRows(t)
              \/ \E p \in People : UpsertRow(t, p) \/ UpsertRejected(t, p)
       PROVE  PinsInv'
  <2>0. Apt(t)
    BY OneOf
  <2>1. CASE ReadMetadata(t)
    <3>1. PICK u : Grown(t, u) /\ tasks' = Becomes(t, u)
      BY <2>1, Reading
    <3>2. ~ TellsPins(u)
      BY <2>0, <2>1, <3>1 DEF ReadMetadata, TellsPins, Apt, Grown
    <3> QED
      BY <1>9, <2>1, <3>1, <3>2 DEF ReadMetadata, history
  <2>2. CASE LeaveRow(t)
    <3>1. PICK u : Grown(t, u) /\ tasks' = Becomes(t, u)
      BY <2>2, Leaving
    <3>2. ~ TellsPins(u)
      BY <2>2, <3>1 DEF LeaveRow, TellsPins, Grown
    <3> QED
      BY <1>9, <2>2, <3>1, <3>2 DEF LeaveRow, history
  <2>3. CASE FetchPins(t)
    <3>1. PICK u : /\ Grown(t, u) /\ tasks' = Becomes(t, u)
                   /\ \/ u.pins = group.pins /\ u.sound = IF PinsInFlight(Pins) THEN {} ELSE {"pins"}
                      \/ u.sound = t.sound
      BY <2>3, AskingPins
    <3>2. t.kind = "topics" /\ t.stage = "fetch" /\ t.sound = {}
      BY <2>0, <2>3 DEF FetchPins, Apt, Answered
    <3>3. TellsPins(u) => u.pins = group.pins /\ \A w \in tasks : ~ Pinning(w)
      <4>1. ASSUME TellsPins(u)
            PROVE  u.pins = group.pins /\ ~ PinsInFlight(Pins)
        <5>1. CASE u.sound = t.sound
          BY <3>2, <4>1, <5>1 DEF TellsPins
        <5>2. CASE u.pins = group.pins /\ u.sound = IF PinsInFlight(Pins) THEN {} ELSE {"pins"}
          BY <4>1, <5>2 DEF TellsPins
        <5> QED
          BY <3>1, <5>1, <5>2
      <4>2. \A w \in tasks : Pinning(w) => w.about \in Pins
        BY OneOf DEF Apt, Pinning
      <4> QED
        BY <4>1, <4>2 DEF PinsInFlight, Pinning
    <3>4. u.kind = t.kind /\ u.about = t.about /\ tasks' = (tasks \ {t}) \cup {u}
      BY <3>1 DEF Grown, Becomes
    <3>5. UNCHANGED <<zalo, meta>> /\ astray' = astray
      BY <2>3 DEF FetchPins, history
    <3> QED
      BY <1>7, <3>3, <3>4, <3>5
  <2>4. CASE FetchInfo(t)
    <3>1. PICK u : Grown(t, u) /\ tasks' = Becomes(t, u) /\ u.admins = group.admins
      BY <2>4, AskingInfo
    <3>2. ~ TellsPins(u)
      BY <2>4, <3>1 DEF FetchInfo, TellsPins, Grown
    <3> QED
      BY <1>9, <2>4, <3>1, <3>2 DEF FetchInfo, history
  <2>5. CASE FetchProfiles(t)
    <3>1. PICK u : /\ Grown(t, u) /\ u.stage = "list" /\ u.sound = t.sound
                   /\ tasks' = Becomes(t, u) \/ tasks' = Doubt(People, Becomes(t, u))
      BY <2>5, AskingProfiles
    <3>2. ~ TellsPins(u)
      BY <2>5, <3>1 DEF FetchProfiles, TellsPins, Grown
    <3>3. Fit(Becomes(t, u), started)
      BY <1>0, <2>0, <2>5, <3>1, FitBecomes DEF FetchProfiles, Becomes, Grown, Apt, Answered
    <3> QED
      BY <1>9, <2>5, <3>1, <3>2, <3>3 DEF FetchProfiles
  <2>6. CASE ListRows(t)
    <3>1. PICK u : Grown(t, u) /\ tasks' = Becomes(t, u) /\ u.stage = "rows"
      BY <2>6, Listing
    <3>2. ~ TellsPins(u)
      BY <2>6, <3>1 DEF ListRows, TellsPins, Grown
    <3> QED
      BY <1>9, <2>6, <3>1, <3>2 DEF ListRows, history
  <2>7. ASSUME NEW p \in People, UpsertRow(t, p) \/ UpsertRejected(t, p)
        PROVE  PinsInv'
    <3>1. PICK u : Grown(t, u) /\ tasks' = Becomes(t, u)
      BY <2>7, Upserting
    <3>2. ~ TellsPins(u)
      BY <2>7, <3>1 DEF UpsertRow, UpsertRejected, TellsPins, Grown
    <3>3. UNCHANGED <<zalo, meta>> /\ astray' = astray
      BY <2>7 DEF UpsertRow, UpsertRejected, history
    <3> QED
      BY <1>9, <3>1, <3>2, <3>3
  <2> QED
    BY <1>10, <2>1, <2>2, <2>3, <2>4, <2>5, <2>6, <2>7
<1>11. ASSUME NEW t \in tasks, CallRemove(t) \/ CallRank(t)
       PROVE  PinsInv'
  <2>0. /\ t.kind \in {"remove", "promote", "demote"} /\ t.stage = "call" /\ Apt(t)
        /\ {"rows", "write"} \subseteq Stages /\ t.about \in People
    BY <1>11, OneOf DEF CallRemove, CallRank, Stages, Apt
  <2>1. ASSUME NEW stage \in {"rows", "write"}, t.kind = "remove" <=> stage = "rows"
        PROVE  \E u : /\ u = [t EXCEPT !.stage = stage] /\ Fit(Becomes(t, u), started)
                      /\ PinsOK(Becomes(t, u), group.pins, meta.pins, astray)
    <3>1. PICK u : /\ u = [t EXCEPT !.stage = stage] /\ Grown(t, u) /\ u.stage = stage
                   /\ u.sound = t.sound
      BY <2>0, <2>1, MovedFields
    <3>2. Fit(Becomes(t, u), started)
      BY <1>0, <2>0, <2>1, <3>1, FitBecomes DEF Becomes, Grown, Apt, Answered
    <3>3. ~ Pinning(t) /\ ~ Pinning(u) /\ ~ TellsPins(u)
      BY <2>0, <3>1 DEF Pinning, TellsPins, Grown
    <3>4. PinsOK(Becomes(t, u), group.pins, meta.pins, astray)
      BY <1>0, <3>3, PinsMoves DEF Becomes
    <3> QED
      BY <3>1, <3>2, <3>4
  <2>2. CASE CallRemove(t)
    <3>0. t.kind = "remove" <=> "rows" = "rows"
      BY <2>2 DEF CallRemove
    <3>1. PICK u : /\ u = [t EXCEPT !.stage = "rows"] /\ Fit(Becomes(t, u), started)
                   /\ PinsOK(Becomes(t, u), group.pins, meta.pins, astray)
      BY <2>1, <3>0
    <3> QED
      BY <1>1, <2>0, <2>2, <3>1 DEF CallRemove
  <2>3. CASE CallRank(t)
    <3>0. (t.kind = "remove" <=> "write" = "rows") /\ meta' = meta
      BY <2>3 DEF CallRank
    <3>1. PICK u : /\ u = [t EXCEPT !.stage = "write"] /\ Fit(Becomes(t, u), started)
                   /\ PinsOK(Becomes(t, u), group.pins, meta.pins, astray)
      BY <2>1, <3>0
    <3>2. CASE tasks' = Becomes(t, u) /\ UNCHANGED <<zalo, started, astray>>
      BY <3>0, <3>1, <3>2 DEF PinsInv, zalo
    <3>3. CASE Changes([group EXCEPT !.admins = Ranked(t)], {"admins"}, "rewrite", "group", "read",
                       Becomes(t, u), FALSE)
      BY <1>3, <3>0, <3>1, <3>3
    <3> QED
      BY <2>3, <3>1, <3>2, <3>3 DEF CallRank
  <2> QED
    BY <1>11, <2>2, <2>3
<1>12. CASE UNCHANGED vars
  BY <1>0, <1>12 DEF vars, zalo, history, PinsInv
<1>13. ASSUME NEW x \in Pins, Pin(x)
       PROVE  PinsInv'
  BY <1>13, PinsPin
<1>14. ASSUME NEW t \in tasks,
              \/ Rewrite(t) \/ WriteSummary(t) \/ WritePin(t) \/ WriteRank(t) \/ WritePins(t)
              \/ WriteInfo(t)
       PROVE  PinsInv'
  BY <1>14, PinsWrites
<1> QED
  BY <1>0, <1>1, <1>2, <1>4, <1>5, <1>8, <1>10, <1>11, <1>12, <1>13, <1>14 DEF Next

-----------------------------------------------------------------------------
(* The summary                                                             *)

\* Only setSummary writes another summary; every other write puts back the one
\* it read, which is the last unless the writer missed one.
LEMMA SummaryStep ==
    ASSUME Simple, TasksInv, CopyInv, SummaryKept, [Next]_vars
    PROVE  SummaryKept'
<1>0. "summary" \in Keys /\ "summary" \notin People
  BY GroupChatAssumption DEF Keys
<1>1. ASSUME NEW t \in tasks,
             \/ Rewrite(t) \/ WriteSummary(t) \/ WritePin(t) \/ WriteRank(t) \/ WritePins(t)
             \/ WriteInfo(t)
      PROVE  SummaryKept'
  <2>1. PICK own, T : Wrote(t, own, T) /\ Holds(t)
    BY <1>1, WritersFit
  <2>2. CASE WriteSummary(t)
    BY <2>1, <2>2 DEF Wrote, WriteSummary, SummaryKept, Writes
  <2>3. CASE Rewrite(t) \/ WritePin(t) \/ WriteRank(t) \/ WritePins(t) \/ WriteInfo(t)
    <3>1. "summary" \notin own
      BY <2>1, <2>3 DEF Wrote, Rewrite, WriteSummary, WritePin, WritePins, WriteRank, WriteInfo
    <3>2. astray \cup t.missed \subseteq astray' \cup {"pins", "admins"} /\ latest' = latest
      BY <2>3 DEF Rewrite, WritePin, WriteRank, WritePins, WriteInfo, Reverts, RightedIn
    <3>3. "summary" \in t.missed \/ meta'["summary"] = meta["summary"]
      BY <1>0, <2>1, <3>1 DEF Wrote, CopyInv, CopyOK
    <3> QED
      BY <3>2, <3>3 DEF SummaryKept
  <2> QED
    BY <1>1, <2>2, <2>3
<1>2. ASSUME UNCHANGED <<meta, latest>>, "summary" \in astray => "summary" \in astray'
      PROVE  SummaryKept'
  BY <1>2 DEF SummaryKept
<1>3. ASSUME NEW g, NEW X, NEW kind, NEW about, NEW stage, NEW T, NEW muddled,
             Changes(g, X, kind, about, stage, T, muddled), UNCHANGED <<participants, meta, latest>>
      PROVE  SummaryKept'
  BY <1>2, <1>3 DEF Changes
<1>4. ASSUME NEW p \in People, Join(p) \/ Rank(p) \/ \E T : Leave(p, T)
      PROVE  SummaryKept'
  BY <1>2, <1>4 DEF Join, Leave, Rank, Changes
<1>5. ASSUME NEW x \in Pins, Pin(x)
      PROVE  SummaryKept'
  BY <1>2, <1>5 DEF Pin, Changes
<1>6. CASE \/ \E p \in People : \/ BeginMessage(p) \/ BeginRemove(p)
                                \/ BeginRank("promote", p) \/ BeginRank("demote", p)
           \/ BeginRewrite \/ BeginSummary \/ BeginTopics \/ BeginRefresh
  <2>1. PICK task \in Tasks : Starts(task)
    BY <1>6, BeginsFit
  <2> QED
    BY <1>2, <2>1 DEF Starts, history
<1>7. ASSUME NEW t \in tasks, CallRemove(t) \/ CallRank(t)
      PROVE  SummaryKept'
  <2>1. CASE CallRemove(t)
    BY <1>2, <2>1 DEF CallRemove, Leave, Changes
  <2>2. CASE CallRank(t)
    BY <1>2, <2>2 DEF CallRank, Changes
  <2> QED
    BY <1>7, <2>1, <2>2
<1>8. ASSUME NEW t \in tasks,
             \/ ReadMetadata(t) \/ AddRow(t) \/ LeaveRow(t) \/ RemoveRow(t) \/ FetchPins(t)
             \/ FetchInfo(t) \/ FetchProfiles(t) \/ ListRows(t) \/ DeleteGone(t) \/ Fails(t)
             \/ \E p \in People : UpsertRow(t, p) \/ UpsertRejected(t, p)
      PROVE  SummaryKept'
  <2>1. UNCHANGED <<meta, latest>>
    BY <1>8 DEF ReadMetadata, AddRow, LeaveRow, RemoveRow, FetchPins, FetchInfo, FetchProfiles,
                ListRows, DeleteGone, Fails, UpsertRow, UpsertRejected, history
  <2>2. \/ astray \subseteq astray'
        \/ DeleteGone(t) /\ astray' = astray \ (t.sound \cap People)
    BY <1>8, FailsAstray
       DEF ReadMetadata, AddRow, LeaveRow, RemoveRow, FetchPins, FetchInfo, FetchProfiles,
           ListRows, DeleteGone, UpsertRow, UpsertRejected, history
  <2> QED
    BY <1>0, <1>2, <2>1, <2>2
<1>9. CASE UNCHANGED vars
  BY <1>2, <1>9 DEF vars, history
<1> QED
  BY <1>1, <1>4, <1>5, <1>6, <1>7, <1>8, <1>9 DEF Next

-----------------------------------------------------------------------------
(* The rows of the participants                                            *)

\* Nothing is claimed of p when something about p is astray and no answer vouches.
LEMMA RowAstray ==
    ASSUME NEW p, NEW T, NEW G, NEW R, NEW a, p \in a, \A t \in T : p \notin t.sound
    PROVE  RowOK(p, T, G, R, a)
BY DEF RowOK, Steady

\* Others wrote or changed.
LEMMA RowFollows ==
    ASSUME NEW p, NEW S, NEW T, Follows(S, T), NEW G, NEW H, NEW R, NEW a, NEW b,
           p \in a => p \in b, p \in G <=> p \in H, RowOK(p, T, G, R, a)
    PROVE  RowOK(p, S, H, R, b)
<1>1. ASSUME Steady(p, S, b)
      PROVE  \A v \in S : Right(v, p, H)
  <2>1. Steady(p, T, a)
    BY <1>1 DEF Steady, Follows, Later
  <2>2. \A o \in T : Right(o, p, G)
    BY <2>1 DEF RowOK
  <2> SUFFICES ASSUME NEW v \in S PROVE Right(v, p, H)
    OBVIOUS
  <2>3. PICK o \in T : Later(v, o)
    BY DEF Follows
  <2> QED
    BY <2>2, <2>3 DEF Later, Right, Adds, Removes, Answered
<1>2. ASSUME NEW v \in S, p \in v.sound
      PROVE  Vouches(v, p, H, R) /\ \A u \in S : ~ Removes(u, p)
  <2>1. PICK o \in T : Later(v, o)
    BY DEF Follows
  <2>2. Vouches(o, p, G, R) /\ \A u \in T : ~ Removes(u, p)
    BY <1>2, <2>1 DEF Later, RowOK
  <2> QED
    BY <2>1, <2>2 DEF Later, Follows, Vouches, Answered, Removes
<1>3. (\E t \in T : Awaits(t, p)) => \E t \in S : Awaits(t, p)
  BY DEF Follows, Later, Awaits
<1>4. p \in b \/ (p \in H <=> p \in R) \/ \E t \in S : Awaits(t, p)
  BY <1>3 DEF RowOK
<1> QED
  BY <1>1, <1>2, <1>4 DEF RowOK

\* A task begins that is right about p and removes nobody's row.
LEMMA RowBegins ==
    ASSUME NEW p, NEW T, NEW G, NEW R, NEW a, RowOK(p, T, G, R, a), NEW task,
           p \notin task.sound, ~ Removes(task, p), Right(task, p, G)
    PROVE  RowOK(p, T \cup {task}, G, R, a)
BY DEF RowOK, Steady

\* A task ends and does not touch the row of p.
LEMMA RowEnds ==
    ASSUME NEW p, NEW T, NEW G, NEW R, NEW Q, NEW a, NEW b, RowOK(p, T, G, R, a),
           p \in a => p \in b, p \in R <=> p \in Q, NEW t \in T,
           Awaits(t, p) => p \in b
    PROVE  RowOK(p, T \ {t}, G, Q, b)
<1>1. Steady(p, T \ {t}, b) => \A v \in T \ {t} : Right(v, p, G)
  BY DEF RowOK, Steady
<1>2. \A v \in T \ {t} : p \in v.sound => Vouches(v, p, G, Q) /\ \A w \in T \ {t} : ~ Removes(w, p)
  BY DEF RowOK, Vouches
<1>3. p \in b \/ (p \in G <=> p \in Q) \/ \E v \in T \ {t} : Awaits(v, p)
  BY DEF RowOK
<1> QED
  BY <1>1, <1>2, <1>3 DEF RowOK

\* A task moves on and does not touch the row of p.
LEMMA RowMoves ==
    ASSUME NEW p, NEW T, NEW G, NEW R, NEW Q, NEW a, NEW b, RowOK(p, T, G, R, a),
           p \in a => p \in b, p \in R <=> p \in Q, NEW t \in T, NEW u,
           p \in u.sound => p \in t.sound,
           Right(t, p, G) => Right(u, p, G),
           p \in u.sound /\ Right(t, p, G) /\ Vouches(t, p, G, R) => Vouches(u, p, G, R),
           Removes(u, p) => Removes(t, p),
           Awaits(t, p) => Awaits(u, p) \/ p \in b
    PROVE  RowOK(p, (T \ {t}) \cup {u}, G, Q, b)
<1> DEFINE S == (T \ {t}) \cup {u}
<1>0. u \in S /\ \A v \in S : v = u \/ v \in T
  OBVIOUS
<1>1. Steady(p, S, b) => Steady(p, T, a)
  BY <1>0 DEF Steady
<1>2. Steady(p, S, b) => \A v \in S : Right(v, p, G)
  BY <1>0, <1>1 DEF RowOK
<1>3. \A v : Vouches(v, p, G, R) => Vouches(v, p, G, Q)
  BY DEF Vouches
<1>4. ASSUME NEW v \in S, p \in v.sound
      PROVE  Vouches(v, p, G, Q) /\ \A w \in S : ~ Removes(w, p)
  <2>1. \E o \in T : p \in o.sound
    BY <1>0, <1>4
  <2>2. (\A w \in T : ~ Removes(w, p)) /\ Right(t, p, G)
    BY <2>1 DEF RowOK, Steady
  <2>3. \A w \in S : ~ Removes(w, p)
    BY <1>0, <2>2
  <2>4. CASE v \in T
    BY <1>3, <1>4, <2>3, <2>4 DEF RowOK
  <2>5. CASE v = u
    <3>1. p \in u.sound
      BY <1>4, <2>5
    <3>2. Vouches(t, p, G, R)
      BY <3>1 DEF RowOK
    <3>3. Vouches(u, p, G, R)
      BY <2>2, <3>1, <3>2
    <3> QED
      BY <1>3, <2>3, <2>5, <3>3
  <2> QED
    BY <1>0, <2>4, <2>5
<1>5. p \in b \/ (p \in G <=> p \in Q) \/ \E v \in S : Awaits(v, p)
  BY <1>0 DEF RowOK
<1> QED
  BY <1>2, <1>4, <1>5 DEF RowOK

\* A task, that ends or moves on, makes the row of p what it should be.
LEMMA RowPutRight ==
    ASSUME NEW p, NEW T, NEW G, NEW R, NEW Q, NEW a, NEW b, RowOK(p, T, G, R, a), NEW t \in T,
           NEW S,
           \/ S = T \ {t}
           \/ \E u : /\ S = (T \ {t}) \cup {u}
                     /\ p \in u.sound => p \in t.sound
                     /\ Right(t, p, G) => Right(u, p, G)
                     /\ ~ Removes(u, p)
                     /\ Answered(t) => Answered(u),
           p \in a /\ p \notin t.sound => p \in b,
           Steady(p, T, a) => (p \in G <=> p \in Q)
    PROVE  RowOK(p, S, G, Q, b)
<1>1. PICK u : /\ \A v \in S : v = u \/ v \in T
               /\ p \in u.sound => p \in t.sound
               /\ u \in S => (Right(t, p, G) => Right(u, p, G)) /\ ~ Removes(u, p)
               /\ Answered(t) => Answered(u)
               /\ \A v \in T : v \in S \/ v = t
  <2>1. CASE S = T \ {t}
    <3> WITNESS t
    <3> QED
      BY <2>1
  <2> QED
    BY <2>1
<1>2. Steady(p, S, b) => Steady(p, T, a)
  BY <1>1 DEF Steady
<1>3. Steady(p, S, b) => \A v \in S : Right(v, p, G)
  BY <1>1, <1>2 DEF RowOK
<1>4. ASSUME NEW v \in S, p \in v.sound
      PROVE  Vouches(v, p, G, Q) /\ \A w \in S : ~ Removes(w, p)
  <2>1. PICK o \in T : p \in o.sound
    BY <1>1, <1>4
  <2>2. (\A w \in T : ~ Removes(w, p)) /\ (p \in G <=> p \in Q)
    BY <2>1 DEF RowOK, Steady
  <2>3. \A w \in S : ~ Removes(w, p)
    BY <1>1, <2>2
  <2>4. Answered(v)
    <3>1. CASE v \in T
      BY <1>4, <3>1 DEF RowOK, Vouches
    <3>2. CASE v = u
      <4>1. p \in t.sound
        BY <1>1, <1>4, <3>2
      <4>2. Answered(t)
        BY <4>1 DEF RowOK, Vouches
      <4> QED
        BY <1>1, <3>2, <4>2
    <3> QED
      BY <1>1, <3>1, <3>2
  <2> QED
    BY <2>2, <2>3, <2>4 DEF Vouches
<1>5. p \in b \/ (p \in G <=> p \in Q)
  BY DEF Steady
<1> QED
  BY <1>3, <1>4, <1>5 DEF RowOK

\* The group changes, but not for p: the row of p is as right as it was, with
\* the tasks that remained before.
LEMMA RowChanges ==
    ASSUME Simple, NEW p \in People, NEW g, NEW X,
           NEW kind \in {"join", "leave", "rewrite", "pin", "unpin"},
           NEW about \in People \cup Pins \cup {"group"}, NEW stage \in {"rows", "read"},
           NEW T, Fit(T, started), NEW muddled \in BOOLEAN,
           Changes(g, X, kind, about, stage, T, muddled), UNCHANGED participants,
           kind \in {"join", "leave"} => about # p,
           p \in group.members <=> p \in g.members,
           RowOK(p, T, group.members, participants, astray)
    PROVE  RowOf(p)'
<1>1. PICK S : Changed(S, T, X, kind, about, stage, muddled)
  BY ChangedTasks, ZenonT(60)
<1>2. group' = g
  BY ChangedTasks
<1>3. Follows(S, T) /\ astray \subseteq astray'
  BY <1>1 DEF Changed
<1>4. RowOK(p, S, g.members, participants, astray')
  BY <1>3, RowFollows
<1>5. CASE tasks' = S
  BY <1>2, <1>4, <1>5 DEF RowOf
<1>6. ASSUME NEW task, tasks' = S \cup {task}, task.kind = kind, task.about = about, task.sound = {}
      PROVE  RowOf(p)'
  <2>1. p \notin task.sound /\ ~ Removes(task, p) /\ Right(task, p, g.members)
    BY <1>6 DEF Removes, Right, Adds, Answered
  <2>2. RowOK(p, S \cup {task}, g.members, participants, astray')
    BY <1>4, <2>1, RowBegins
  <2> QED
    BY <1>2, <1>6, <2>2 DEF RowOf
<1> QED
  BY <1>1, <1>5, <1>6 DEF Changed

\* p joins or leaves: whoever is told will put the row right, unless something
\* is on its way that will not.
LEMMA RowOfChanged ==
    ASSUME Simple, NEW p \in People, NEW g, NEW X, p \in X, NEW kind \in {"join", "leave"},
           NEW T, Fit(T, started), NEW muddled \in BOOLEAN,
           Changes(g, X, kind, p, "rows", T, muddled), UNCHANGED participants,
           p \in g.members <=> kind = "join",
           muddled = FALSE => \A t \in T : /\ ~ Refreshes(t)
                                           /\ IF kind = "join" THEN ~ Removes(t, p) ELSE ~ Adds(t, p)
    PROVE  RowOf(p)'
<1>1. PICK S : Changed(S, T, X, kind, p, "rows", muddled)
  BY ChangedTasks
<1>2. group' = g /\ participants' = participants
  BY ChangedTasks
<1>3. Follows(S, T) /\ \A v \in S : p \notin v.sound
  BY <1>1 DEF Changed
<1>4. \A v \in tasks' : p \notin v.sound
  BY <1>1, <1>3 DEF Changed
<1>5. CASE p \in astray'
  BY <1>4, <1>5, RowAstray DEF RowOf
<1>6. CASE p \notin astray'
  <2>1. PICK task : /\ tasks' = S \cup {task} /\ task.kind = kind /\ task.about = p
                    /\ task.stage = "rows" /\ muddled = FALSE
    BY <1>1, <1>6 DEF Changed
  <2>2. \A v \in S : /\ ~ Refreshes(v)
                     /\ IF kind = "join" THEN ~ Removes(v, p) ELSE ~ Adds(v, p)
    BY <1>3, <2>1 DEF Follows, Later, Refreshes, Removes, Adds
  <2>3. \A v \in S : Right(v, p, g.members)
    BY <2>2 DEF Right, Answered, Refreshes
  <2>4. Right(task, p, g.members) /\ Awaits(task, p)
    BY <2>1 DEF Right, Answered, Adds, Removes, Awaits
  <2>5. RowOK(p, tasks', g.members, participants', astray')
    BY <1>4, <2>1, <2>3, <2>4 DEF RowOK
  <2> QED
    BY <1>2, <2>5 DEF RowOf
<1> QED
  BY <1>5, <1>6

\* Somebody joins, or leaves.
LEMMA RowsJoin ==
    ASSUME Simple, TasksInv, RowsInv, NEW q \in People, Join(q)
    PROVE  RowsInv'
<1>1. PICK g, muddled :
           /\ muddled \in BOOLEAN /\ Changes(g, {q}, "join", q, "rows", tasks, muddled)
           /\ muddled = FALSE => \A t \in tasks : ~ Removes(t, q) /\ ~ Refreshes(t)
           /\ g.members = group.members \cup {q}
           /\ UNCHANGED participants
  BY JoinChanges
<1>2. Fit(tasks, started) /\ \A p \in People : RowOK(p, tasks, group.members, participants, astray)
  BY DEF TasksInv, RowsInv, RowOf
<1> SUFFICES ASSUME NEW p \in People PROVE RowOf(p)'
  BY DEF RowsInv
<1>3. CASE p = q
  BY <1>1, <1>2, <1>3, RowOfChanged
<1>4. CASE p # q
  <2>1. p \in group.members <=> p \in g.members
    BY <1>1, <1>4
  <2>2. RowOK(p, tasks, group.members, participants, astray)
    BY <1>2
  <2> QED
    BY <1>1, <1>2, <1>4, <2>1, <2>2, RowChanges
<1> QED
  BY <1>3, <1>4

LEMMA RowsLeave ==
    ASSUME Simple, NEW q \in People, NEW T, Fit(T, started), Leave(q, T),
           \A p \in People : p = q \/ RowOK(p, T, group.members, participants, astray)
    PROVE  RowsInv'
<1>1. PICK g, X, muddled :
           /\ muddled \in BOOLEAN /\ Changes(g, X, "leave", q, "rows", T, muddled)
           /\ muddled = FALSE => \A t \in T : ~ Adds(t, q) /\ ~ Refreshes(t)
           /\ q \in X /\ g.members = group.members \ {q}
           /\ UNCHANGED participants
  BY LeaveChanges
<1> SUFFICES ASSUME NEW p \in People PROVE RowOf(p)'
  BY DEF RowsInv
<1>2. CASE p = q
  BY <1>1, <1>2, RowOfChanged
<1>3. CASE p # q
  <2>1. p \in group.members <=> p \in g.members
    BY <1>1, <1>3
  <2>2. RowOK(p, T, group.members, participants, astray)
    BY <1>3
  <2> QED
    BY <1>1, <1>3, <2>1, <2>2, RowChanges
<1> QED
  BY <1>2, <1>3

\* A rank or a pin is changed in the app.
LEMMA RowsRankOrPin ==
    ASSUME Simple, TasksInv, RowsInv,
           (\E q \in People : Rank(q)) \/ (\E x \in Pins : Pin(x))
    PROVE  RowsInv'
<1>1. \E g, X, kind, about, muddled :
         /\ muddled \in BOOLEAN /\ Changes(g, X, kind, about, "read", tasks, muddled)
         /\ kind \in {"rewrite", "pin", "unpin"} /\ about \in People \cup Pins \cup {"group"}
         /\ g.members = group.members /\ UNCHANGED participants
  <2>1. ASSUME NEW q \in People, Rank(q)
        PROVE  \E g : /\ Changes(g, {"admins"}, "rewrite", "group", "read", tasks, TRUE)
                      /\ g.members = group.members /\ UNCHANGED participants
    <3>1. PICK A : /\ Changes([group EXCEPT !.admins = A], {"admins"}, "rewrite", "group", "read", tasks, TRUE)
                   /\ UNCHANGED participants
      BY <2>1 DEF Rank
    <3>2. PICK g : g = [group EXCEPT !.admins = A]
      OBVIOUS
    <3>3. g.members = group.members
      BY <3>2 DEF Simple, Groups
    <3> QED
      BY <3>1, <3>2, <3>3
  <2>2. ASSUME NEW x \in Pins, Pin(x)
        PROVE  \E g, kind, muddled :
                  /\ muddled \in BOOLEAN /\ kind \in {"pin", "unpin"}
                  /\ Changes(g, {"pins"}, kind, x, "read", tasks, muddled)
                  /\ g.members = group.members /\ UNCHANGED participants
    <3>0. PICK muddled \in BOOLEAN : muddled = PinsInFlight({x})
      BY DEF PinsInFlight
    <3>1. CASE x \in group.pins
      <4>1. PICK g : g = [group EXCEPT !.pins = group.pins \ {x}]
        OBVIOUS
      <4>2. g.members = group.members
        BY <4>1 DEF Simple, Groups
      <4>3. Changes(g, {"pins"}, "unpin", x, "read", tasks, muddled) /\ UNCHANGED participants
        BY <2>2, <3>0, <3>1, <4>1 DEF Pin
      <4> QED
        BY <4>2, <4>3
    <3>2. CASE x \notin group.pins
      <4>1. PICK g : g = [group EXCEPT !.pins = group.pins \cup {x}]
        OBVIOUS
      <4>2. g.members = group.members
        BY <4>1 DEF Simple, Groups
      <4>3. Changes(g, {"pins"}, "pin", x, "read", tasks, muddled) /\ UNCHANGED participants
        BY <2>2, <3>0, <3>2, <4>1 DEF Pin
      <4> QED
        BY <4>2, <4>3
    <3> QED
      BY <3>1, <3>2
  <2>3. CASE \E q \in People : Rank(q)
    BY <2>1, <2>3
  <2>4. CASE \E x \in Pins : Pin(x)
    BY <2>2, <2>4
  <2> QED
    BY <2>3, <2>4
<1>2. PICK g, X, kind, about, muddled :
           /\ muddled \in BOOLEAN /\ Changes(g, X, kind, about, "read", tasks, muddled)
           /\ kind \in {"rewrite", "pin", "unpin"} /\ about \in People \cup Pins \cup {"group"}
           /\ g.members = group.members /\ UNCHANGED participants
  BY <1>1
<1>3. Fit(tasks, started)
  BY DEF TasksInv
<1> SUFFICES ASSUME NEW p \in People PROVE RowOf(p)'
  BY DEF RowsInv
<1>4. RowOK(p, tasks, group.members, participants, astray)
  BY DEF RowsInv, RowOf
<1>5. kind \in {"join", "leave", "rewrite", "pin", "unpin"} /\ ~ (kind \in {"join", "leave"})
  BY <1>2
<1>6. p \in group.members <=> p \in g.members
  BY <1>2
<1> QED
  BY <1>2, <1>3, <1>4, <1>5, <1>6, RowChanges

\* A handler, a request or a message begins.
LEMMA RowsBegin ==
    ASSUME Simple, TasksInv, RowsInv,
           \/ \E p \in People : \/ BeginMessage(p) \/ BeginRemove(p)
                                \/ BeginRank("promote", p) \/ BeginRank("demote", p)
           \/ BeginRewrite \/ BeginSummary \/ BeginTopics \/ BeginRefresh
    PROVE  RowsInv'
<1>1. PICK task \in Tasks :
           /\ Starts(task) /\ task.sound = {} /\ task.stage \in {"call", "read", "fetch", "write"}
           /\ task.kind \notin {"join", "leave", "pin", "unpin"}
           /\ task.kind = "refresh" => task.stage = "fetch"
           /\ task.kind = "message" => task.about \in group.members
           /\ task.kind = "remove" => task.stage = "call"
  BY BeginsFit
<1> SUFFICES ASSUME NEW p \in People PROVE RowOf(p)'
  BY DEF RowsInv
<1>2. p \notin task.sound /\ ~ Removes(task, p) /\ Right(task, p, group.members)
  BY <1>1 DEF Removes, Right, Adds, Answered
<1>3. RowOK(p, tasks \cup {task}, group.members, participants, astray)
  BY <1>2, RowBegins DEF RowsInv, RowOf
<1> QED
  BY <1>1, <1>3 DEF RowOf, Starts, zalo, history

\* removeMember calls Zalo, and the member leaves.
LEMMA RowsCallRemove ==
    ASSUME Simple, TasksInv, RowsInv, NEW t \in tasks, CallRemove(t)
    PROVE  RowsInv'
<1>0. t \in Tasks /\ Apt(t) /\ "rows" \in Stages /\ t.kind = "remove" /\ t.stage = "call"
  BY OneOf DEF Stages, CallRemove
<1>1. PICK u : /\ u = [t EXCEPT !.stage = "rows"] /\ Grown(t, u) /\ u.stage = "rows"
               /\ u.members = t.members /\ u.gone = t.gone /\ u.sound = t.sound
  BY <1>0, MovedFields
<1>2. /\ u \in Tasks /\ u.n = t.n /\ u.kind = "remove" /\ u.about = t.about
      /\ t.about \in People /\ t.sound = {} /\ Apt(u)
  BY <1>0, <1>1 DEF Grown, Apt, Answered
<1>3. Leave(t.about, Becomes(t, u)) /\ Fit(Becomes(t, u), started)
  BY <1>1, <1>2, FitBecomes DEF CallRemove, TasksInv, Becomes
<1>4. ASSUME NEW p \in People, p # t.about
      PROVE  RowOK(p, Becomes(t, u), group.members, participants, astray)
  <2>1. ~ Removes(u, p) /\ ~ Adds(u, p) /\ ~ Answered(u) /\ ~ Awaits(t, p)
    BY <1>0, <1>2, <1>4 DEF Removes, Adds, Answered, Awaits
  <2>2. RowOK(p, tasks, group.members, participants, astray) /\ Right(u, p, group.members)
    BY <2>1 DEF RowsInv, RowOf, Right
  <2>3. p \notin u.sound
    BY <1>1, <1>2
  <2> QED
    BY <2>1, <2>2, <2>3, RowMoves DEF Becomes
<1> QED
  BY <1>2, <1>3, <1>4, RowsLeave

\* promoteDeputy and demoteDeputy call Zalo.
LEMMA RowsCallRank ==
    ASSUME Simple, TasksInv, RowsInv, NEW t \in tasks, CallRank(t)
    PROVE  RowsInv'
<1>0. /\ t \in Tasks /\ Apt(t) /\ "write" \in Stages /\ t.kind \in {"promote", "demote"}
      /\ t.stage = "call"
  BY OneOf DEF Stages, CallRank
<1>1. PICK u : /\ u = [t EXCEPT !.stage = "write"] /\ Grown(t, u) /\ u.stage = "write"
               /\ u.sound = t.sound
  BY <1>0, MovedFields
<1>2. /\ u \in Tasks /\ u.n = t.n /\ u.kind \in {"promote", "demote"} /\ u.about = t.about
      /\ t.sound = {} /\ Apt(u)
  BY <1>0, <1>1 DEF Grown, Apt, Answered
<1>3. Fit(Becomes(t, u), started)
  BY <1>2, FitBecomes DEF TasksInv, Becomes
<1> SUFFICES ASSUME NEW p \in People PROVE RowOf(p)'
  BY DEF RowsInv
<1>4. RowOK(p, Becomes(t, u), group.members, participants, astray)
  <2>1. ~ Removes(u, p) /\ ~ Adds(u, p) /\ ~ Answered(u) /\ ~ Awaits(t, p)
    BY <1>0, <1>2 DEF Removes, Adds, Answered, Awaits
  <2>2. RowOK(p, tasks, group.members, participants, astray) /\ Right(u, p, group.members)
    BY <2>1 DEF RowsInv, RowOf, Right
  <2>3. p \notin u.sound
    BY <1>1, <1>2
  <2> QED
    BY <2>1, <2>2, <2>3, RowMoves DEF Becomes
<1>5. participants' = participants
  BY DEF CallRank
<1>6. CASE tasks' = Becomes(t, u) /\ UNCHANGED <<zalo, started, astray>>
  BY <1>4, <1>5, <1>6 DEF RowOf, zalo
<1>7. CASE Changes([group EXCEPT !.admins = Ranked(t)], {"admins"}, "rewrite", "group", "read",
                   Becomes(t, u), FALSE)
  <2>1. PICK g : g = [group EXCEPT !.admins = Ranked(t)]
    OBVIOUS
  <2>2. g.members = group.members
    BY <2>1 DEF Simple, Groups
  <2>3. Changes(g, {"admins"}, "rewrite", "group", "read", Becomes(t, u), FALSE)
    BY <1>7, <2>1
  <2> QED
    BY <1>3, <1>4, <1>5, <2>2, <2>3, RowChanges
<1> QED
  BY <1>1, <1>6, <1>7 DEF CallRank

\* Whoever writes the metadata leaves the rows.
LEMMA RowsWrite ==
    ASSUME Simple, TasksInv, RowsInv, NEW t \in tasks,
           \/ Rewrite(t) \/ WriteSummary(t) \/ WritePin(t) \/ WriteRank(t) \/ WritePins(t)
           \/ WriteInfo(t)
    PROVE  RowsInv'
<1>1. PICK own, T : Wrote(t, own, T)
  BY WritersFit
<1>2. /\ Fit(T, started) /\ tasks' = Noted(T, t, own) /\ own \in SUBSET Keys /\ t \in Tasks
      /\ t.stage = "write"
  BY <1>1, OneOf, WritersFit DEF Wrote
<1>3. Follows(tasks', T)
  BY <1>2, NotedTasks
<1>4. group' = group /\ participants' = participants
  BY DEF Rewrite, WriteSummary, WritePin, WriteRank, WritePins, WriteInfo, zalo
<1> SUFFICES ASSUME NEW p \in People PROVE RowOf(p)'
  BY DEF RowsInv
<1>5. p \in astray => p \in astray'
  BY GroupChatAssumption
     DEF Rewrite, WriteSummary, WritePin, WriteRank, WritePins, WriteInfo, Reverts, RightedIn
<1>6. RowOK(p, tasks, group.members, participants, astray) /\ ~ Awaits(t, p)
  BY <1>2 DEF RowsInv, RowOf, Awaits
<1>7. RowOK(p, T, group.members, participants, astray)
  <2>1. CASE T = Ended(t)
    BY <1>6, <2>1, RowEnds DEF Ended
  <2>2. CASE /\ t.kind \in {"message", "refresh"}
             /\ \E u \in Tasks :
                   /\ T = Becomes(t, u) /\ u.n = t.n /\ u.kind = t.kind
                   /\ u.about = t.about /\ u.members = t.members /\ u.gone = t.gone
                   /\ u.sound = t.sound
                   /\ t.kind = "message" => u.stage = "rows"
                   /\ t.kind = "refresh" => u.stage = "profiles"
    <3>1. PICK u : /\ T = Becomes(t, u) /\ u.kind = t.kind
                   /\ u.about = t.about /\ u.members = t.members /\ u.gone = t.gone
                   /\ u.sound = t.sound
                   /\ t.kind = "message" => u.stage = "rows"
                   /\ t.kind = "refresh" => u.stage = "profiles"
      BY <2>2
    <3>2. /\ Right(t, p, group.members) => Right(u, p, group.members)
          /\ ~ Removes(u, p)
          /\ Vouches(t, p, group.members, participants) => Vouches(u, p, group.members, participants)
      BY <1>2, <2>2, <3>1 DEF Right, Adds, Removes, Answered, Vouches
    <3> QED
      BY <1>6, <3>1, <3>2, RowMoves DEF Becomes
  <2> QED
    BY <1>1, <2>1, <2>2 DEF Wrote
<1>8. RowOK(p, tasks', group.members, participants, astray')
  BY <1>3, <1>5, <1>7, RowFollows
<1> QED
  BY <1>4, <1>8 DEF RowOf

\* Those who write a row: a join, a message or a removal, that end with it, ...
LEMMA RowsEvent ==
    ASSUME Simple, TasksInv, RowsInv, NEW t \in tasks, AddRow(t) \/ RemoveRow(t)
    PROVE  RowsInv'
<1>0. t \in Tasks /\ t.stage = "rows" /\ tasks' = tasks \ {t} /\ group' = group /\ astray' = astray
  BY OneOf DEF AddRow, RemoveRow, Ended, zalo, history
<1> SUFFICES ASSUME NEW p \in People PROVE RowOf(p)'
  BY DEF RowsInv
<1>1. RowOK(p, tasks, group.members, participants, astray)
  BY DEF RowsInv, RowOf
<1>2. CASE t.about = p
  <2>1. Steady(p, tasks, astray) => (p \in group.members <=> p \in participants')
    BY <1>0, <1>1, <1>2 DEF RowOK, Right, Adds, Removes, AddRow, RemoveRow
  <2>2. RowOK(p, tasks', group.members, participants', astray')
    BY <1>0, <1>1, <2>1, RowPutRight
  <2> QED
    BY <1>0, <2>2 DEF RowOf
<1>3. CASE t.about # p
  <2>1. ~ Awaits(t, p) /\ (p \in participants <=> p \in participants')
    BY <1>3 DEF Awaits, AddRow, RemoveRow
  <2>2. RowOK(p, tasks \ {t}, group.members, participants', astray)
    BY <1>1, <2>1, RowEnds
  <2> QED
    BY <1>0, <2>2 DEF RowOf
<1> QED
  BY <1>2, <1>3

\* ... a leave, that goes on with the metadata, ...
LEMMA RowsLeaveRow ==
    ASSUME Simple, TasksInv, RowsInv, NEW t \in tasks, LeaveRow(t)
    PROVE  RowsInv'
<1>0. /\ t \in Tasks /\ t.stage = "rows" /\ t.kind = "leave" /\ group' = group /\ astray' = astray
      /\ participants' = participants \ {t.about}
  BY OneOf DEF LeaveRow, zalo, history
<1>1. PICK u : /\ Grown(t, u) /\ tasks' = Becomes(t, u) /\ u.stage = "read" /\ u.sound = t.sound
  BY Leaving
<1> SUFFICES ASSUME NEW p \in People PROVE RowOf(p)'
  BY DEF RowsInv
<1>2. RowOK(p, tasks, group.members, participants, astray)
  BY DEF RowsInv, RowOf
<1>3. ~ Removes(u, p) /\ Right(u, p, group.members) /\ ~ Answered(t)
  BY <1>0, <1>1 DEF Grown, Removes, Right, Adds, Answered
<1>4. CASE t.about = p
  <2>1. Steady(p, tasks, astray) => (p \in group.members <=> p \in participants')
    BY <1>0, <1>2, <1>4 DEF RowOK, Right, Removes
  <2>2. \E w : /\ tasks' = (tasks \ {t}) \cup {w}
               /\ p \in w.sound => p \in t.sound
               /\ Right(t, p, group.members) => Right(w, p, group.members)
               /\ ~ Removes(w, p)
               /\ Answered(t) => Answered(w)
    BY <1>1, <1>3 DEF Becomes
  <2>3. RowOK(p, tasks', group.members, participants', astray)
    BY <1>2, <2>1, <2>2, RowPutRight
  <2> QED
    BY <1>0, <2>3 DEF RowOf
<1>5. CASE t.about # p
  <2>1. ~ Awaits(t, p) /\ (p \in participants <=> p \in participants')
    BY <1>0, <1>5 DEF Awaits
  <2>2. ~ Vouches(t, p, group.members, participants)
    BY <1>3 DEF Vouches
  <2>3. RowOK(p, (tasks \ {t}) \cup {u}, group.members, participants', astray)
    BY <1>1, <1>2, <1>3, <2>1, <2>2, RowMoves
  <2> QED
    BY <1>0, <1>1, <2>3 DEF RowOf, Becomes
<1> QED
  BY <1>4, <1>5

\* ... and a refresh, that writes those of the members ...
LEMMA RowsUpsert ==
    ASSUME Simple, TasksInv, RowsInv, NEW t \in tasks, NEW q \in People,
           UpsertRow(t, q) \/ UpsertRejected(t, q)
    PROVE  RowsInv'
<1>0. /\ t \in Tasks /\ t.stage \in {"rows", "rest"} /\ t.kind = "refresh" /\ q \in t.members
      /\ group' = group /\ astray' = astray
      /\ UpsertRow(t, q) => participants' = participants \cup {q}
      /\ ~ UpsertRow(t, q) => participants' = participants
  BY OneOf DEF UpsertRow, UpsertRejected, zalo, history
<1>1. PICK u : /\ Grown(t, u) /\ tasks' = Becomes(t, u)
               /\ u.stage = IF UpsertRow(t, q) THEN t.stage ELSE "rest"
               /\ u.members = t.members \ {q} /\ u.gone = t.gone /\ u.sound = t.sound
  BY Upserting
<1> SUFFICES ASSUME NEW p \in People PROVE RowOf(p)'
  BY DEF RowsInv
<1>2. RowOK(p, tasks, group.members, participants, astray)
  BY DEF RowsInv, RowOf
<1>3. /\ ~ Removes(u, p) /\ Answered(u) /\ ~ Awaits(t, p)
      /\ Right(t, p, group.members) => Right(u, p, group.members)
  BY <1>0, <1>1 DEF Grown, Removes, Right, Adds, Answered, Awaits
<1>4. CASE UpsertRow(t, q) /\ p = q
  <2>1. Steady(p, tasks, astray) => (p \in group.members <=> p \in participants')
    <3>1. Answered(t)
      BY <1>0 DEF Answered
    <3> QED
      BY <1>0, <1>2, <1>4, <3>1 DEF RowOK, Right
  <2>2. \E w : /\ tasks' = (tasks \ {t}) \cup {w}
               /\ p \in w.sound => p \in t.sound
               /\ Right(t, p, group.members) => Right(w, p, group.members)
               /\ ~ Removes(w, p)
               /\ Answered(t) => Answered(w)
    BY <1>1, <1>3 DEF Becomes
  <2>3. RowOK(p, tasks', group.members, participants', astray)
    BY <1>2, <2>1, <2>2, RowPutRight
  <2> QED
    BY <1>0, <2>3 DEF RowOf
<1>5. CASE ~ (UpsertRow(t, q) /\ p = q)
  <2>1. p \in participants <=> p \in participants'
    BY <1>0, <1>5
  <2>2. Vouches(t, p, group.members, participants) => Vouches(u, p, group.members, participants)
    BY <1>0, <1>1, <1>3, <1>5 DEF Vouches
  <2>3. RowOK(p, (tasks \ {t}) \cup {u}, group.members, participants', astray)
    BY <1>1, <1>2, <1>3, <2>1, <2>2, RowMoves
  <2> QED
    BY <1>0, <1>1, <2>3 DEF RowOf, Becomes
<1> QED
  BY <1>4, <1>5

\* ... and then deletes the others.
LEMMA RowsDeleteGone ==
    ASSUME Simple, TasksInv, RowsInv, NEW t \in tasks, DeleteGone(t)
    PROVE  RowsInv'
<1>0. /\ t \in Tasks /\ t.stage = "rows" /\ t.kind = "refresh" /\ t.members = {}
      /\ participants' = participants \ t.gone /\ tasks' = tasks \ {t}
      /\ astray' = astray \ (t.sound \cap People) /\ group' = group
  BY OneOf DEF DeleteGone, zalo, Ended
<1> SUFFICES ASSUME NEW p \in People PROVE RowOf(p)'
  BY DEF RowsInv
<1>1. RowOK(p, tasks, group.members, participants, astray) /\ Answered(t) /\ ~ Awaits(t, p)
  BY <1>0 DEF RowsInv, RowOf, Answered, Awaits
<1>2. p \in astray /\ p \notin t.sound => p \in astray'
  BY <1>0
<1>3. CASE p \in t.gone \/ p \in t.sound
  <2>1. Steady(p, tasks, astray) => (p \in group.members <=> p \in participants')
    <3>1. ASSUME Steady(p, tasks, astray)
          PROVE  p \in t.gone => p \notin group.members
      BY <1>0, <1>1, <3>1 DEF RowOK, Right
    <3>2. p \in t.sound => Vouches(t, p, group.members, participants)
      BY <1>1 DEF RowOK
    <3> QED
      BY <1>0, <1>3, <3>1, <3>2 DEF Vouches
  <2>2. tasks' = tasks \ {t}
    BY <1>0
  <2>3. RowOK(p, tasks', group.members, participants', astray')
    BY <1>1, <1>2, <2>1, <2>2, RowPutRight
  <2> QED
    BY <1>0, <2>3 DEF RowOf
<1>4. CASE p \notin t.gone /\ p \notin t.sound
  <2>1. p \in participants <=> p \in participants'
    BY <1>0, <1>4
  <2>2. RowOK(p, tasks \ {t}, group.members, participants', astray')
    BY <1>1, <1>2, <1>4, <2>1, RowEnds
  <2> QED
    BY <1>0, <2>2 DEF RowOf
<1> QED
  BY <1>3, <1>4

\* A handler reads the metadata, getById asks for the pins, a refresh lists the
\* rows: those in the answer are right, so the others are to be deleted.
LEMMA RowsMove ==
    ASSUME Simple, TasksInv, RowsInv, NEW t \in tasks,
           ReadMetadata(t) \/ FetchPins(t) \/ ListRows(t)
    PROVE  RowsInv'
<1>0. /\ t \in Tasks /\ Apt(t) /\ group' = group /\ astray' = astray
      /\ participants' = participants
  BY OneOf DEF ReadMetadata, FetchPins, ListRows, zalo, history
<1> SUFFICES ASSUME NEW p \in People PROVE RowOf(p)'
  BY DEF RowsInv
<1>1. RowOK(p, tasks, group.members, participants, astray) /\ p \notin Keys
  BY GroupChatAssumption DEF RowsInv, RowOf, Keys
<1>2. CASE ReadMetadata(t) \/ FetchPins(t)
  <2>1. PICK u : /\ Grown(t, u) /\ tasks' = Becomes(t, u) /\ u.stage = "write"
                 /\ p \in u.sound => p \in t.sound
    <3>1. CASE ReadMetadata(t)
      BY <3>1, Reading
    <3>2. CASE FetchPins(t)
      <4>1. PICK u : /\ Grown(t, u) /\ tasks' = Becomes(t, u) /\ u.stage = "write"
                     /\ \/ u.sound = IF PinsInFlight(Pins) THEN {} ELSE {"pins"}
                        \/ u.sound = t.sound
        BY <3>2, AskingPins
      <4>2. p \in u.sound => p \in t.sound
        BY <1>1, <4>1 DEF Keys
      <4> QED
        BY <4>1, <4>2
    <3> QED
      BY <1>2, <3>1, <3>2
  <2>2. t.kind # "refresh" /\ t.stage \in {"read", "fetch"}
    BY <1>0, <1>2 DEF ReadMetadata, FetchPins, Apt, Answered
  <2>3. /\ ~ Removes(u, p) /\ ~ Answered(u) /\ ~ Answered(t) /\ ~ Awaits(t, p)
        /\ Adds(u, p) => Adds(t, p)
    BY <2>1, <2>2 DEF Grown, Removes, Answered, Awaits, Adds
  <2>4. Right(t, p, group.members) => Right(u, p, group.members)
    BY <2>3 DEF Right
  <2>5. ~ Vouches(t, p, group.members, participants)
    BY <2>3 DEF Vouches
  <2>6. RowOK(p, (tasks \ {t}) \cup {u}, group.members, participants, astray)
    BY <1>1, <2>1, <2>3, <2>4, <2>5, RowMoves
  <2> QED
    BY <1>0, <2>1, <2>6 DEF RowOf, Becomes
<1>3. CASE ListRows(t)
  <2>1. PICK u : /\ Grown(t, u) /\ tasks' = Becomes(t, u) /\ u.stage = "rows"
                 /\ u.gone = participants \ t.members /\ u.members = t.members
                 /\ u.sound = t.sound
    BY <1>3, Listing
  <2>2. t.kind = "refresh" /\ t.stage = "list"
    BY <1>3 DEF ListRows
  <2>3. /\ ~ Removes(u, p) /\ Answered(u) /\ Answered(t) /\ ~ Awaits(t, p)
        /\ ~ Adds(u, p)
    BY <2>1, <2>2 DEF Grown, Removes, Answered, Awaits, Adds
  <2>4. Right(t, p, group.members) => Right(u, p, group.members)
    BY <2>1, <2>2, <2>3 DEF Right
  <2>5. Right(t, p, group.members) => Vouches(u, p, group.members, participants)
    BY <2>1, <2>2, <2>3 DEF Right, Vouches
  <2>6. RowOK(p, (tasks \ {t}) \cup {u}, group.members, participants, astray)
    BY <1>1, <2>1, <2>3, <2>4, <2>5, RowMoves
  <2> QED
    BY <1>0, <2>1, <2>6 DEF RowOf, Becomes
<1> QED
  BY <1>2, <1>3

\* A refresh asks for the group: of whom nothing is in flight it knows what will
\* stay so until they join or leave.
LEMMA RowsInfo ==
    ASSUME Simple, TasksInv, RowsInv, NEW t \in tasks, FetchInfo(t)
    PROVE  RowsInv'
<1>0. /\ t \in Tasks /\ Apt(t) /\ group' = group /\ astray' = astray
      /\ participants' = participants /\ t.kind = "refresh" /\ t.stage = "fetch"
  BY OneOf DEF FetchInfo, zalo, history
<1>1. PICK u : /\ Grown(t, u) /\ tasks' = Becomes(t, u) /\ u.stage = "write"
               /\ u.members = group.members /\ u.sound = {"admins"} \cup Settled(t)
  BY AskingInfo
<1> SUFFICES ASSUME NEW p \in People PROVE RowOf(p)'
  BY DEF RowsInv
<1>2. RowOK(p, tasks, group.members, participants, astray) /\ p # "admins"
  BY GroupChatAssumption DEF RowsInv, RowOf
<1>3. /\ ~ Removes(u, p) /\ ~ Adds(u, p) /\ Answered(u) /\ ~ Answered(t) /\ ~ Awaits(t, p)
      /\ Right(u, p, group.members) /\ Vouches(u, p, group.members, participants)
  BY <1>0, <1>1 DEF Grown, Removes, Adds, Answered, Awaits, Right, Vouches
<1>4. CASE p \in Settled(t)
  <2>1. \A v \in tasks \ {t} : ~ Adds(v, p) /\ ~ Removes(v, p) /\ ~ Answered(v)
    BY <1>4 DEF Settled, InFlight, Answered
  <2>2. \A v \in tasks \ {t} : Right(v, p, group.members) /\ p \notin v.sound
    BY <1>2, <2>1 DEF Right, RowOK, Vouches
  <2>3. p \in astray \/ (p \in group.members <=> p \in participants)
           \/ \E v \in tasks \ {t} : Awaits(v, p)
    BY <1>2, <1>3 DEF RowOK
  <2>4. RowOK(p, (tasks \ {t}) \cup {u}, group.members, participants, astray)
    <3>1. \A v \in (tasks \ {t}) \cup {u} :
             /\ Right(v, p, group.members) /\ ~ Removes(v, p)
             /\ p \in v.sound => Vouches(v, p, group.members, participants)
      BY <1>3, <2>1, <2>2
    <3> QED
      BY <2>3, <3>1 DEF RowOK
  <2> QED
    BY <1>0, <1>1, <2>4 DEF RowOf, Becomes
<1>5. CASE p \notin Settled(t)
  <2>1. p \notin u.sound
    BY <1>1, <1>2, <1>5
  <2>2. RowOK(p, (tasks \ {t}) \cup {u}, group.members, participants, astray)
    BY <1>2, <1>3, <2>1, RowMoves
  <2> QED
    BY <1>0, <1>1, <2>2 DEF RowOf, Becomes
<1> QED
  BY <1>4, <1>5

\* It asks for the profiles; without an answer nothing is claimed of anybody.
LEMMA RowsProfiles ==
    ASSUME Simple, TasksInv, RowsInv, NEW t \in tasks, FetchProfiles(t)
    PROVE  RowsInv'
<1>0. /\ t \in Tasks /\ group' = group /\ participants' = participants
      /\ t.kind = "refresh" /\ t.stage = "profiles" /\ tasks \subseteq Tasks
  BY OneOf DEF FetchProfiles, zalo
<1>1. PICK u : /\ Grown(t, u) /\ u.stage = "list" /\ u.sound = t.sound
               /\ \/ tasks' = Becomes(t, u) /\ u.members = t.members /\ astray' = astray
                  \/ /\ tasks' = Doubt(People, Becomes(t, u)) /\ u.members = {}
                     /\ astray' = astray \cup People
  BY AskingProfiles
<1> SUFFICES ASSUME NEW p \in People PROVE RowOf(p)'
  BY DEF RowsInv
<1>2. RowOK(p, tasks, group.members, participants, astray)
  BY DEF RowsInv, RowOf
<1>3. CASE tasks' = Becomes(t, u) /\ u.members = t.members /\ astray' = astray
  <2>1. /\ ~ Removes(u, p) /\ ~ Adds(u, p) /\ Answered(u) /\ Answered(t) /\ ~ Awaits(t, p)
    BY <1>0, <1>1 DEF Grown, Removes, Adds, Answered, Awaits
  <2>2. Right(t, p, group.members) => Right(u, p, group.members)
    BY <1>0, <1>1, <1>3, <2>1 DEF Right
  <2>3. Vouches(u, p, group.members, participants)
    BY <1>1, <2>1 DEF Vouches
  <2>4. RowOK(p, (tasks \ {t}) \cup {u}, group.members, participants, astray)
    BY <1>1, <1>2, <2>1, <2>2, <2>3, RowMoves
  <2> QED
    BY <1>0, <1>3, <2>4 DEF RowOf, Becomes
<1>4. CASE tasks' = Doubt(People, Becomes(t, u)) /\ astray' = astray \cup People
  <2>1. \A o \in Becomes(t, u) : o \in Tasks
    BY <1>0, <1>1 DEF Becomes, Grown
  <2>2. \A v \in tasks' : p \notin v.sound
    <3>1. ASSUME NEW v \in tasks'
          PROVE  p \notin v.sound
      <4>1. PICK o \in Becomes(t, u) : v = [o EXCEPT !.sound = @ \ People]
        BY <1>4 DEF Doubt
      <4>2. v.sound = o.sound \ People
        BY <2>1, <4>1, DoubtedTask
      <4> QED
        BY <4>2
    <3> QED
      BY <3>1
  <2> QED
    BY <1>4, <2>2, RowAstray DEF RowOf
<1> QED
  BY <1>1, <1>3, <1>4

\* Who fails to put a row right leaves it astray.
LEMMA RowsFail ==
    ASSUME Simple, TasksInv, RowsInv, NEW t \in tasks, Fails(t)
    PROVE  RowsInv'
<1>0. /\ tasks' = tasks \ {t} /\ group' = group /\ participants' = participants
      /\ astray \subseteq astray'
      /\ t.kind \in {"join", "leave"} /\ t.stage = "rows" => t.about \in astray'
  BY DEF Fails, Ended, zalo
<1> SUFFICES ASSUME NEW p \in People PROVE RowOf(p)'
  BY DEF RowsInv
<1>1. RowOK(p, tasks, group.members, participants, astray) /\ (Awaits(t, p) => p \in astray')
  BY <1>0 DEF RowsInv, RowOf, Awaits
<1>2. RowOK(p, tasks \ {t}, group.members, participants, astray')
  BY <1>0, <1>1, RowEnds
<1> QED
  BY <1>0, <1>2 DEF RowOf

LEMMA RowsStep ==
    ASSUME Simple, TasksInv, RowsInv, [Next]_vars
    PROVE  RowsInv'
<1>1. ASSUME NEW p \in People, Leave(p, tasks)
      PROVE  RowsInv'
  <2>1. Fit(tasks, started) /\ \A r \in People : RowOK(r, tasks, group.members, participants, astray)
    BY DEF TasksInv, RowsInv, RowOf
  <2> QED
    BY <1>1, <2>1, RowsLeave
<1>2. ASSUME NEW p \in People, Join(p)
      PROVE  RowsInv'
  BY <1>2, RowsJoin
<1>3. CASE (\E p \in People : Rank(p)) \/ (\E x \in Pins : Pin(x))
  BY <1>3, RowsRankOrPin
<1>4. CASE \/ \E p \in People : \/ BeginMessage(p) \/ BeginRemove(p)
                                \/ BeginRank("promote", p) \/ BeginRank("demote", p)
           \/ BeginRewrite \/ BeginSummary \/ BeginTopics \/ BeginRefresh
  BY <1>4, RowsBegin
<1>5. ASSUME NEW t \in tasks,
             \/ Rewrite(t) \/ WriteSummary(t) \/ WritePin(t) \/ WriteRank(t) \/ WritePins(t)
             \/ WriteInfo(t)
      PROVE  RowsInv'
  BY <1>5, RowsWrite
<1>6. ASSUME NEW t \in tasks, CallRemove(t) \/ CallRank(t)
      PROVE  RowsInv'
  BY <1>6, RowsCallRemove, RowsCallRank
<1>7. ASSUME NEW t \in tasks,
             \/ AddRow(t) \/ LeaveRow(t) \/ RemoveRow(t) \/ DeleteGone(t)
             \/ \E p \in People : UpsertRow(t, p) \/ UpsertRejected(t, p)
      PROVE  RowsInv'
  BY <1>7, RowsEvent, RowsLeaveRow, RowsDeleteGone, RowsUpsert
<1>8. ASSUME NEW t \in tasks,
             \/ ReadMetadata(t) \/ FetchPins(t) \/ FetchInfo(t) \/ FetchProfiles(t)
             \/ ListRows(t) \/ Fails(t)
      PROVE  RowsInv'
  BY <1>8, RowsMove, RowsInfo, RowsProfiles, RowsFail
<1>9. CASE UNCHANGED vars
  BY <1>9 DEF vars, zalo, history, RowsInv, RowOf
<1> QED
  BY <1>1, <1>2, <1>3, <1>4, <1>5, <1>6, <1>7, <1>8, <1>9 DEF Next

-----------------------------------------------------------------------------
(* The whole invariant, and what it says                                   *)

Inv == Simple /\ TasksInv /\ CopyInv /\ SummaryKept /\ AdminsInv /\ PinsInv /\ RowsInv

\* At first nothing is on its way and all agrees.
LEMMA InitInv == Init => Inv
<1> SUFFICES ASSUME Init PROVE Inv
  OBVIOUS
<1>1. Simple /\ TasksInv
  BY InitTypes
<1>2. /\ tasks = {} /\ astray = {} /\ participants = group.members
      /\ meta.admins = group.admins /\ meta.pins = group.pins /\ meta.summary = latest
  BY DEF Init
<1>3. CopyInv /\ SummaryKept
  BY <1>2 DEF CopyInv, CopyOK, SummaryKept
<1>4. AdminsInv /\ PinsInv
  BY <1>2 DEF AdminsInv, AdminsOK, RanksOK, PinsInv, PinsOK, HandlersOK
<1>5. RowsInv
  BY <1>2 DEF RowsInv, RowOf, RowOK
<1> QED
  BY <1>1, <1>3, <1>4, <1>5 DEF Inv

LEMMA InvStep == Inv /\ [Next]_vars => Inv'
<1> SUFFICES ASSUME Inv, [Next]_vars PROVE Inv'
  OBVIOUS
<1>1. Simple' /\ TasksInv'
  BY TypesStep DEF Inv
<1>2. CopyInv' /\ SummaryKept'
  BY CopyStep, SummaryStep DEF Inv
<1>3. AdminsInv' /\ PinsInv' /\ RowsInv'
  BY AdminsStep, PinsStep, RowsStep DEF Inv
<1> QED
  BY <1>1, <1>2, <1>3 DEF Inv

LEMMA InvHolds == Spec => []Inv
BY InitInv, InvStep, PTL DEF Spec

\* Every member has a row and nobody else does, but for those of whom an event
\* or a request is on its way, was lost or was overlapped by another or by a
\* refresh: whatever the order of the handlers of group events and messages,
\* of removeMember and of ZaloAdapter.syncGroups' refresh.
THEOREM RowsFollowTheGroup == Spec => []MembersAgree
<1>1. Inv => MembersAgree
  <2> SUFFICES ASSUME Inv, NEW p \in People
               PROVE  (p \in group.members <=> p \in participants) \/ p \in astray \/ InFlight(p)
    BY DEF MembersAgree
  <2>1. RowOK(p, tasks, group.members, participants, astray)
    BY DEF Inv, RowsInv, RowOf
  <2>2. ASSUME NEW t \in tasks, Awaits(t, p)
        PROVE  InFlight(p)
    BY <2>2 DEF Awaits, InFlight, Adds, Removes
  <2> QED
    BY <2>1, <2>2 DEF RowOK
<1> QED
  BY <1>1, InvHolds, PTL

\* adminIds and pinnedMessages are the deputies and the pins of the group, but
\* for a rank or a pin that is still to be written and for what was lost,
\* overtaken or taken back by a write of the whole metadata, although every
\* handler writes the whole object from the copy it read.
THEOREM KeysFollowTheGroup == Spec => []MetadataAgrees
<1>1. Inv => AdminsAgree
  BY DEF Inv, AdminsInv, AdminsOK, RanksOK, Ranks, AdminsAgree
<1>2. Inv => PinsAgree
  <2> SUFFICES ASSUME Inv PROVE PinsAgree
    OBVIOUS
  <2>1. meta.pins \subseteq Pins /\ group.pins \subseteq Pins
    BY MetadataFields, GroupFields DEF Inv, Simple
  <2>2. "pins" \in astray \/ HandlersOK(tasks, group.pins, meta.pins)
    BY DEF Inv, PinsInv, PinsOK
  <2>3. ASSUME HandlersOK(tasks, group.pins, meta.pins), ~ PinsInFlight(Pins)
        PROVE  meta.pins = group.pins
    <3>1. \A x \in Pins : x \in group.pins <=> x \in meta.pins
      BY <2>3 DEF HandlersOK, PinsInFlight, Pinning
    <3> QED
      BY <2>1, <3>1
  <2> QED
    BY <2>2, <2>3 DEF PinsAgree
<1> QED
  BY <1>1, <1>2, InvHolds, PTL DEF MetadataAgrees

\* The summary that setSummary wrote last stays, unless a task that had read the
\* metadata before wrote its copy back afterwards.
THEOREM SummaryStays == Spec => []SummaryKept
<1>1. Inv => SummaryKept
  BY DEF Inv
<1> QED
  BY <1>1, InvHolds, PTL

=============================================================================
