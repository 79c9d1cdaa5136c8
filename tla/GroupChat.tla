------------------------------ MODULE GroupChat ------------------------------
(***************************************************************************)
(* One Zalo group and what the database has of it: the Participant rows    *)
(* and the JSON metadata of its Conversation row, under the handlers of    *)
(* group events and messages, the calls of ConversationService and         *)
(* ZaloAdapter.syncGroups.  Whoever changes a key of the metadata reads    *)
(* the whole object, changes its copy and writes that back.                *)
(*                                                                         *)
(* Keys kept apart: adminIds, pinnedMessages (which, not their order) and  *)
(* the summary, a version number.  The other keys (memberCount, settings,  *)
(* isMuted, creatorId, the times of the last syncs), title and avatar are  *)
(* left out: who writes one of those only writes the copy back.  So is a   *)
(* sync whose cached time has not run out, which does nothing, and what    *)
(* createGroup writes when the row is made.  The account itself stays in   *)
(* the group.                                                              *)
(***************************************************************************)
EXTENDS Naturals, FiniteSets

CONSTANTS People,      \* members of the group, past and future
          Pins,        \* messages that may be pinned
          MaxChanges,  \* bound: changes on Zalo's side
          MaxTasks     \* bound: handlers and requests

ASSUME GroupChatAssumption ==
    /\ MaxChanges \in Nat /\ MaxTasks \in Nat
    /\ People \cap {"admins", "pins", "summary"} = {}

VARIABLES
    group,         \* the group as Zalo has it: members, admins and pins
    changes,       \* how often it changed
    participants,  \* persons with a Participant row
    meta,          \* the metadata: admins, pins and summary
    tasks,         \* handlers and requests in progress
    started,       \* how many there were
    \* history
    latest,  \* the summary last written
    astray   \* persons and keys about which something overlapped or was lost
             \* since they were last put right

zalo == <<group, changes>>
history == <<latest, astray>>
vars == <<zalo, participants, meta, tasks, started, history>>

Keys == {"admins", "pins", "summary"}
Metadata == [admins : SUBSET People, pins : SUBSET Pins, summary : 0 .. MaxTasks]

Kinds == {"join", "leave", "message", "remove",  \* about a person's row
          "promote", "demote",                   \* a person's rank
          "pin", "unpin",                        \* one pinned message
          "rewrite", "summary", "topics", "refresh"}

Tasks == [n : 1 .. MaxTasks, kind : Kinds, about : People \cup Pins \cup {"group"},
          stage : {"call", "read", "fetch", "write", "profiles", "list", "rows", "rest"},
          copy : Metadata,       \* the metadata as read
          admins : SUBSET People, members : SUBSET People, pins : SUBSET Pins,
                                 \* what Zalo answered
          gone : SUBSET People,  \* rows to delete
          missed : SUBSET Keys,  \* history: keys written since the copy was read
          sound : SUBSET (People \cup Keys)]
                                 \* history: what the answer is still true of

TypeOK ==
    /\ group \in [members : SUBSET People, admins : SUBSET People, pins : SUBSET Pins]
    /\ group.admins \subseteq group.members
    /\ changes \in 0 .. MaxChanges
    /\ participants \subseteq People
    /\ meta \in Metadata
    /\ tasks \subseteq Tasks
    /\ \A t, u \in tasks : t.n = u.n => t = u
    /\ started \in 0 .. MaxTasks
    /\ latest \in 0 .. MaxTasks
    /\ astray \subseteq People \cup Keys

NoMetadata == [admins |-> {}, pins |-> {}, summary |-> 0]

\* As a refresh left them: rows and metadata agree with Zalo.
Init ==
    /\ group \in [members : SUBSET People, admins : SUBSET People, pins : SUBSET Pins]
    /\ group.admins \subseteq group.members
    /\ changes = 0
    /\ participants = group.members
    /\ meta = [admins |-> group.admins, pins |-> group.pins, summary |-> 0]
    /\ tasks = {} /\ started = 0
    /\ latest = 0 /\ astray = {}

Task(kind, about, stage) ==
    [n |-> started + 1, kind |-> kind, about |-> about, stage |-> stage,
     copy |-> NoMetadata, admins |-> {}, members |-> {}, pins |-> {}, gone |-> {},
     missed |-> {}, sound |-> {}]

\* The tasks after t became u, or ended.
Becomes(t, u) == (tasks \ {t}) \cup {u}
Ended(t) == tasks \ {t}

\* A task begins and nothing else happens.
Starts(task) ==
    /\ started < MaxTasks
    /\ started' = started + 1
    /\ tasks' = tasks \cup {task}
    /\ UNCHANGED <<zalo, participants, meta, history>>

\* No answer can vouch for X any more.
Doubt(X, T) == {[t EXCEPT !.sound = @ \ X] : t \in T}

-----------------------------------------------------------------------------
(* Zalo                                                                    *)

\* Tasks that will still write p's row, one way or the other.
Adds(t, p) == t.about = p /\ t.kind \in {"join", "message"}
Removes(t, p) == t.about = p /\ t.kind \in {"leave", "remove"} /\ t.stage = "rows"
Refreshes(t) == t.kind = "refresh"
InFlight(p) == \E t \in tasks : Adds(t, p) \/ Removes(t, p)

\* Tasks that will still write about the pins.
PinsInFlight(X) == \E t \in tasks : t.kind \in {"pin", "unpin"} /\ t.about \in X

\* The group becomes g and the listener is told by an event of this kind, or
\* is not connected; X is what changed, T the tasks left in progress.
Changes(g, X, kind, about, stage, T, muddled) ==
    /\ changes < MaxChanges
    /\ changes' = changes + 1
    /\ group' = g
    /\ \/ /\ started < MaxTasks
          /\ started' = started + 1
          /\ tasks' = Doubt(X, T) \cup {Task(kind, about, stage)}
          /\ astray' = IF muddled THEN astray \cup X ELSE astray
       \/ /\ tasks' = Doubt(X, T)
          /\ astray' = astray \cup X
          /\ UNCHANGED started

\* p joins, or is invited with ConversationService.inviteMember.
Join(p) ==
    /\ p \notin group.members
    /\ Changes([group EXCEPT !.members = @ \cup {p}], {p}, "join", p, "rows", tasks,
               \E t \in tasks : Removes(t, p) \/ Refreshes(t))
    /\ UNCHANGED <<participants, meta, latest>>

\* p leaves or is removed.  Nobody updates adminIds.
Leave(p, T) ==
    /\ p \in group.members
    /\ LET X == IF p \in group.admins THEN {p, "admins"} ELSE {p}
           g == [group EXCEPT !.members = @ \ {p}, !.admins = @ \ {p}]
       IN  Changes(g, X, "leave", p, "rows", T,
                   p \in group.admins \/ \E t \in T : Adds(t, p) \/ Refreshes(t))
    /\ UNCHANGED <<participants, meta, latest>>

\* In the Zalo app somebody is made a deputy, or is one no more; the event
\* only leads to a new memberCount.
Rank(p) ==
    /\ p \in group.members
    /\ LET A == IF p \in group.admins THEN group.admins \ {p} ELSE group.admins \cup {p}
       IN  Changes([group EXCEPT !.admins = A], {"admins"}, "rewrite", "group", "read", tasks, TRUE)
    /\ UNCHANGED <<participants, meta, latest>>

\* The deputies once a promotion or demotion is done.
Ranked(t) ==
    IF t.kind = "promote" THEN group.admins \cup {t.about} ELSE group.admins \ {t.about}

\* A message is pinned or unpinned, in the app or by ZaloZcaService.pinMessage.
Pin(x) ==
    LET X == IF x \in group.pins THEN group.pins \ {x} ELSE group.pins \cup {x}
        kind == IF x \in group.pins THEN "unpin" ELSE "pin"
    IN
    /\ Changes([group EXCEPT !.pins = X], {"pins"}, kind, x, "read", tasks, PinsInFlight({x}))
    /\ UNCHANGED <<participants, meta, latest>>

-----------------------------------------------------------------------------
(* The metadata                                                            *)

ReadsMetadata(t) == [t EXCEPT !.copy = meta, !.missed = {}, !.stage = "write"]

\* t holds a copy of the metadata, or drops it once it is written.
Holds(t) == t.kind # "remove" /\ t.stage \in {"call", "fetch", "write"}
Drops(t, stage) ==
    [t EXCEPT !.stage = stage, !.copy = NoMetadata, !.missed = {}, !.admins = {}]

\* t writes value, its copy with own keys changed; what it had missed is
\* reverted.  T are the tasks that remain.
Writes(t, value, own, T) ==
    /\ meta' = value
    /\ tasks' = {IF u.n # t.n /\ Holds(u) THEN [u EXCEPT !.missed = @ \cup own \cup t.missed]
                                      ELSE u : u \in T}

Reverts(t) == astray' = astray \cup t.missed

\* findMetadata by a handler.
ReadMetadata(t) ==
    /\ t.stage = "read"
    /\ tasks' = Becomes(t, ReadsMetadata(t))
    /\ UNCHANGED <<zalo, participants, meta, started, history>>

\* Something happens that reads the metadata, changes a key that is left out
\* and writes the metadata back: syncGroups, handlePinReorder, a default group
\* event, changeOwner, updateGroupSettings, updateMute.
BeginRewrite == Starts(Task("rewrite", "group", "read"))

\* handleMemberLeave ends with it, the handling of a message begins with it.
Rewritten(t) == IF t.kind = "message" THEN Becomes(t, Drops(t, "rows")) ELSE Ended(t)

\* Deviation: the other keys are not taken over.
RewriteAlone(t) ==
    /\ t.kind \in {"rewrite", "leave", "message"} /\ t.stage = "write"
    /\ Writes(t, NoMetadata, {}, Rewritten(t))
    /\ Reverts(t)
    /\ UNCHANGED <<zalo, participants, started, latest>>

Rewrite(t) ==
    /\ t.kind \in {"rewrite", "leave", "message"} /\ t.stage = "write"
    /\ Writes(t, t.copy, {}, Rewritten(t))
    /\ Reverts(t)
    /\ UNCHANGED <<zalo, participants, started, latest>>

\* setSummary reads ...
BeginSummary == Starts([Task("summary", "group", "write") EXCEPT !.copy = meta])

\* ... and writes.
WriteSummary(t) ==
    /\ t.kind = "summary" /\ t.stage = "write"
    /\ Writes(t, [t.copy EXCEPT !.summary = t.n], {"summary"}, Ended(t))
    /\ latest' = t.n
    /\ astray' = (astray \cup t.missed) \ {"summary"}
    /\ UNCHANGED <<zalo, participants, started>>

-----------------------------------------------------------------------------
(* Events and messages                                                     *)

\* handleJoin, and a message of p: upsertParticipant.
AddRow(t) ==
    /\ t.kind \in {"join", "message"} /\ t.stage = "rows"
    /\ participants' = participants \cup {t.about}
    /\ tasks' = Ended(t)
    /\ UNCHANGED <<zalo, meta, started, history>>

\* A message of p, or the notice that a handler publishes when p pins.
BeginMessage(p) ==
    /\ p \in group.members
    /\ Starts(Task("message", p, "read"))

\* handleMemberLeave goes on with syncGroupInfo.
LeaveRow(t) ==
    /\ t.kind = "leave" /\ t.stage = "rows"
    /\ participants' = participants \ {t.about}
    /\ tasks' = Becomes(t, [t EXCEPT !.stage = "read"])
    /\ UNCHANGED <<zalo, meta, started, history>>

\* Deviation: what is unpinned is pinned again.
PinsAfterKept(t) == t.copy.pins \cup {t.about}

PinsAfter(t) ==
    IF t.kind = "pin" THEN t.copy.pins \cup {t.about} ELSE t.copy.pins \ {t.about}

\* handleGroupPin and handleGroupUnpin.
WritePin(t) ==
    /\ t.kind \in {"pin", "unpin"} /\ t.stage = "write"
    /\ Writes(t, [t.copy EXCEPT !.pins = PinsAfter(t)], {"pins"}, Ended(t))
    /\ Reverts(t)
    /\ UNCHANGED <<zalo, participants, started, latest>>

-----------------------------------------------------------------------------
(* Requests about a member                                                 *)

\* removeMember, promoteDeputy and demoteDeputy read the row and call Zalo.
BeginRemove(p) == Starts(Task("remove", p, "call"))
BeginRank(kind, p) == Starts([Task(kind, p, "call") EXCEPT !.copy = meta])

\* Zalo refuses to remove who is not there: the request fails (see Fails).
CallRemove(t) ==
    /\ t.kind = "remove" /\ t.stage = "call"
    /\ Leave(t.about, Becomes(t, [t EXCEPT !.stage = "rows"]))

RemoveRow(t) ==
    /\ t.kind = "remove" /\ t.stage = "rows"
    /\ participants' = participants \ {t.about}
    /\ tasks' = Ended(t)
    /\ UNCHANGED <<zalo, meta, started, history>>

AdminsAfter(t) ==
    IF t.kind = "promote" THEN t.copy.admins \cup {t.about} ELSE t.copy.admins \ {t.about}

\* Deviation: who has left in the meantime is made a deputy.
CallRankOfAnyone(t) ==
    /\ t.kind \in {"promote", "demote"} /\ t.stage = "call"
    /\ Changes([group EXCEPT !.admins = Ranked(t)], {"admins"}, "rewrite", "group", "read",
               Becomes(t, [t EXCEPT !.stage = "write"]), FALSE)
    /\ UNCHANGED <<participants, meta, latest>>

\* Zalo changes the rank of a member.
CallRank(t) ==
    /\ t.kind \in {"promote", "demote"} /\ t.stage = "call"
    /\ t.about \in group.members
    /\ LET A == Ranked(t)
           u == [t EXCEPT !.stage = "write"]
       IN  \/ /\ A # group.admins
              /\ Changes([group EXCEPT !.admins = A], {"admins"}, "rewrite", "group", "read",
                         Becomes(t, u), FALSE)
           \/ /\ A = group.admins
              /\ tasks' = Becomes(t, u)
              /\ UNCHANGED <<zalo, started, astray>>
    /\ UNCHANGED <<participants, meta, latest>>

WriteRank(t) ==
    /\ t.kind \in {"promote", "demote"} /\ t.stage = "write"
    /\ Writes(t, [t.copy EXCEPT !.admins = AdminsAfter(t)], {"admins"}, Ended(t))
    /\ Reverts(t)
    /\ UNCHANGED <<zalo, participants, started, latest>>

-----------------------------------------------------------------------------
(* Synchronising with Zalo                                                 *)

\* getById reads the row ...
BeginTopics == Starts([Task("topics", "group", "fetch") EXCEPT !.copy = meta])

\* ... asks for the pins, where a failed call is answered with no pins ...
FetchPins(t) ==
    /\ t.kind = "topics" /\ t.stage = "fetch"
    /\ \/ /\ tasks' = Becomes(t, [t EXCEPT !.stage = "write", !.pins = group.pins,
                        !.sound = IF PinsInFlight(Pins) THEN {} ELSE {"pins"}])
       \/ tasks' = Becomes(t, [t EXCEPT !.stage = "write"])
    /\ UNCHANGED <<zalo, participants, meta, started, history>>

\* A key written from Zalo's answer is right if nothing came between.
RightedIn(t, key) ==
    LET reverted == astray \cup t.missed
    IN  IF key \in t.sound THEN reverted \ {key} ELSE reverted \cup {key}

\* ... and writes them.
WritePins(t) ==
    /\ t.kind = "topics" /\ t.stage = "write"
    /\ Writes(t, [t.copy EXCEPT !.pins = t.pins], {"pins"}, Ended(t))
    /\ astray' = RightedIn(t, "pins")
    /\ UNCHANGED <<zalo, participants, started, latest>>

\* listParticipants reads the row ...
BeginRefresh == Starts([Task("refresh", "group", "fetch") EXCEPT !.copy = meta])

\* ... asks for the group ...
FetchInfo(t) ==
    LET alone == \A u \in tasks \ {t} : u.kind = "refresh" => u.stage = "fetch"
        settled == IF alone THEN {p \in People : ~ InFlight(p)} ELSE {}
    IN
    /\ t.kind = "refresh" /\ t.stage = "fetch"
    /\ tasks' = Becomes(t, [t EXCEPT !.stage = "write", !.admins = group.admins,
                        !.members = group.members, !.sound = {"admins"} \cup settled])
    /\ UNCHANGED <<zalo, participants, meta, started, history>>

\* ... writes the metadata ...
WriteInfo(t) ==
    /\ t.kind = "refresh" /\ t.stage = "write"
    /\ Writes(t, [t.copy EXCEPT !.admins = t.admins], {"admins"},
              Becomes(t, Drops(t, "profiles")))
    /\ astray' = RightedIn(t, "admins")
    /\ UNCHANGED <<zalo, participants, started, latest>>

\* ... has the members in that answer or asks for their profiles, and has
\* none if this fails ...
FetchProfiles(t) ==
    /\ t.kind = "refresh" /\ t.stage = "profiles"
    /\ \/ /\ tasks' = Becomes(t, [t EXCEPT !.stage = "list"])
          /\ UNCHANGED astray
       \/ /\ tasks' = Doubt(People, Becomes(t, [t EXCEPT !.stage = "list", !.members = {}]))
          /\ astray' = astray \cup People
    /\ UNCHANGED <<zalo, participants, meta, started, latest>>

\* Deviation: the members in the first answer count, of whom there may be none.
ListRowsTooSoon(t) ==
    /\ t.kind = "refresh" /\ t.stage = "list"
    /\ tasks' = Becomes(t, [t EXCEPT !.stage = "rows", !.gone = participants])
    /\ UNCHANGED <<zalo, participants, meta, started, history>>

\* ... reads the rows ...
ListRows(t) ==
    /\ t.kind = "refresh" /\ t.stage = "list"
    /\ tasks' = Becomes(t, [t EXCEPT !.stage = "rows", !.gone = participants \ t.members])
    /\ UNCHANGED <<zalo, participants, meta, started, history>>

\* ... upserts those of the members, in any order ...
UpsertRow(t, p) ==
    /\ t.kind = "refresh" /\ t.stage \in {"rows", "rest"}
    /\ p \in t.members
    /\ participants' = participants \cup {p}
    /\ tasks' = Becomes(t, [t EXCEPT !.members = @ \ {p}])
    /\ UNCHANGED <<zalo, meta, started, history>>

\* ... where one that is rejected ends the refresh but not the others ...
UpsertRejected(t, p) ==
    /\ t.kind = "refresh" /\ t.stage \in {"rows", "rest"}
    /\ p \in t.members
    /\ tasks' = Becomes(t, [t EXCEPT !.stage = "rest", !.members = @ \ {p}])
    /\ UNCHANGED <<zalo, participants, meta, started, history>>

\* ... and when all are done deletes the others.
DeleteGone(t) ==
    /\ t.kind = "refresh" /\ t.stage = "rows"
    /\ t.members = {}
    /\ participants' = participants \ t.gone
    /\ tasks' = Ended(t)
    /\ astray' = astray \ (t.sound \cap People)
    /\ UNCHANGED <<zalo, meta, started, latest>>

\* t throws, has nothing left to do, gets nothing from Zalo, or is lost with the
\* process.
Fails(t) ==
    /\ tasks' = Ended(t)
    /\ astray' = astray \cup
         CASE t.kind \in {"join", "leave"} /\ t.stage = "rows" -> {t.about}
           [] t.kind \in {"pin", "unpin"} -> {"pins"}
           [] t.kind \in {"promote", "demote"} /\ t.stage = "write" -> {"admins"}
           [] OTHER -> {}
    /\ UNCHANGED <<zalo, participants, meta, started, latest>>

Next ==
    \/ \E p \in People : Join(p) \/ Leave(p, tasks) \/ Rank(p) \/ BeginMessage(p)
    \/ \E p \in People : BeginRemove(p) \/ BeginRank("promote", p) \/ BeginRank("demote", p)
    \/ \E x \in Pins : Pin(x)
    \/ BeginRewrite \/ BeginSummary \/ BeginTopics \/ BeginRefresh
    \/ \E t \in tasks :
          \/ ReadMetadata(t) \/ Rewrite(t) \/ WriteSummary(t) \/ WritePin(t)
          \/ AddRow(t) \/ LeaveRow(t)
          \/ CallRemove(t) \/ RemoveRow(t) \/ CallRank(t) \/ WriteRank(t)
          \/ FetchPins(t) \/ WritePins(t)
          \/ FetchInfo(t) \/ WriteInfo(t) \/ FetchProfiles(t) \/ ListRows(t)
          \/ DeleteGone(t) \/ Fails(t)
          \/ \E p \in People : UpsertRow(t, p) \/ UpsertRejected(t, p)

Spec == Init /\ [][Next]_vars

-----------------------------------------------------------------------------
(* Properties                                                              *)

\* Who is in the group has a row, unless an event of theirs is on its way, was
\* lost, or overlapped with another about them or a refresh: whatever the order
\* of events, messages, requests and refreshes that leave them alone.  Who left
\* has no row any more, with the same exceptions.
MembersAgree ==
    \A p \in People :
        (p \in group.members <=> p \in participants) \/ p \in astray \/ InFlight(p)

\* adminIds, which nobody but promoteDeputy, demoteDeputy and listParticipants
\* changes, are the deputies, unless a request is about to write one, or since
\* the last undisturbed refresh somebody else made or unmade one, one left, or a
\* write of the metadata took back another.
AdminsAgree ==
    \/ meta.admins = group.admins
    \/ "admins" \in astray
    \/ \E t \in tasks : t.kind \in {"promote", "demote"} /\ t.stage = "write"

\* pinnedMessages are the pinned messages, unless an event is on its way, or
\* since the last undisturbed sync one was lost or overtaken, Zalo did not
\* answer, or a write of the metadata took back another.
PinsAgree ==
    \/ meta.pins = group.pins
    \/ "pins" \in astray
    \/ PinsInFlight(Pins)

\* The keys of the metadata that mirror Zalo's group, each with its exceptions,
\* although every writer puts the whole object back.
MetadataAgrees == AdminsAgree /\ PinsAgree

\* The summary last written is there, unless a task that read the metadata
\* before this, or before an earlier one, wrote it back afterwards.
SummaryKept == meta.summary = latest \/ "summary" \in astray

=============================================================================
