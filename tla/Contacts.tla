------------------------------- MODULE Contacts -------------------------------
(***************************************************************************)
(* The friends of one Zalo account and what the database knows of them:    *)
(* the events that Zalo sends and ZaloFriendListener handles concurrently, *)
(* the requests of ContactsService, ZaloAdapter.syncFriends after a login, *)
(* and restarts.                                                           *)
(*                                                                         *)
(* Zalo's side is external: a person is a stranger, asks to be a friend or *)
(* is one; each change sends one event.  Names, avatars, online marks and  *)
(* the notices in the chat are left out.                                   *)
(***************************************************************************)
EXTENDS Naturals, FiniteSets

CONSTANTS People, Calls, Syncs,  \* persons, calls of ContactsService, syncs
          MaxChanges             \* bound: changes on Zalo's side

ASSUME ContactsAssumption == MaxChanges \in Nat

VARIABLES
    rel,       \* rel[p]: "stranger", "asking" or "friend", as Zalo has it
    changes,   \* how often rel changed
    online,    \* an API object is registered and listens
    events,    \* events that Zalo sent and that are not handled to the end
    contact,   \* contact[p]: id of the Contact row, 0 for none
    isFriend,  \* persons whose Contact row has isFriend
    request,   \* request[p]: id of the FriendRequest row, 0 for none
    lastId,    \* highest id given to a row
    begun,     \* calls that were made
    calls,     \* calls in progress
    sync,      \* sync[s]: progress of a sync
    \* history
    muddled,   \* persons about whom steps overlapped or something was lost
    astray,    \* those since a sync last put them right
    leftover   \* persons who became friends and kept a request's row

zalo == <<rel, changes, online>>
rows == <<contact, isFriend, request, lastId>>
server == <<begun, calls, sync>>
history == <<muddled, astray, leftover>>
vars == <<zalo, events, rows, server, history>>

Event == [n : 1 .. MaxChanges, kind : {"add", "remove", "request", "cancel", "delete"},
          person : People, id : Nat]
Call == [call : Calls, kind : {"accept", "decline", "remove"}, person : People, id : Nat,
         called : BOOLEAN]
Sync == [stage : {"idle", "friends", "list", "delete", "add", "done"},
         friends : SUBSET People, asked : SUBSET People, gone : SUBSET Nat,
         requests : SUBSET People, sound : SUBSET People]

TypeOK ==
    /\ rel \in [People -> {"stranger", "asking", "friend"}]
    /\ changes \in 0 .. MaxChanges /\ online \in BOOLEAN
    /\ events \subseteq Event
    /\ contact \in [People -> 0 .. lastId] /\ request \in [People -> 0 .. lastId]
    /\ isFriend \subseteq {p \in People : contact[p] # 0}
    /\ lastId \in Nat
    /\ begun \subseteq Calls /\ calls \subseteq Call
    /\ sync \in [Syncs -> Sync] /\ \A s \in Syncs : sync[s].gone \subseteq 1 .. lastId
    /\ muddled \subseteq People /\ astray \subseteq muddled /\ leftover \subseteq People

Init ==
    /\ rel = [p \in People |-> "stranger"]
    /\ changes = 0 /\ online = TRUE
    /\ events = {}
    /\ contact = [p \in People |-> 0] /\ request = [p \in People |-> 0]
    /\ isFriend = {} /\ lastId = 0
    /\ begun = {} /\ calls = {}
    /\ sync = [s \in Syncs |-> [stage |-> "idle", friends |-> {}, asked |-> {}, gone |-> {},
                                requests |-> {}, sound |-> {}]]
    /\ muddled = {} /\ astray = {} /\ leftover = {}

\* A sync of which an await, or an upsert it started, is still to come.
Runs(s) ==
    \/ sync[s].stage \notin {"idle", "done"}
    \/ sync[s].friends # {} \/ sync[s].requests # {}

InFlight(p) == (\E e \in events : e.person = p) \/ (\E c \in calls : c.person = p)

Muddle(P) ==
    /\ muddled' = muddled \cup P
    /\ astray' = astray \cup P

-----------------------------------------------------------------------------
(* Zalo                                                                    *)

\* p becomes r by a change that sends an event of this kind, or none if
\* nobody listens; others are the calls in progress but for the one, if any,
\* that makes the change.
Becomes(p, r, kind, others) ==
    /\ changes < MaxChanges
    /\ changes' = changes + 1
    /\ rel' = [rel EXCEPT ![p] = r]
    /\ events' = IF online
                 THEN events \cup {[n |-> changes + 1, kind |-> kind, person |-> p, id |-> 0]}
                 ELSE events
    /\ leftover' = IF r = "friend" /\ request[p] # 0 THEN leftover \cup {p} ELSE leftover
    /\ IF \/ ~online \/ \E e \in events : e.person = p
          \/ \E c \in others : c.person = p
          \/ \E s \in Syncs : Runs(s)
       THEN Muddle({p}) ELSE UNCHANGED <<muddled, astray>>

\* No sync can vouch for p, who changed while it ran.
Doubt(p) == [s \in Syncs |-> [sync[s] EXCEPT !.sound = @ \ {p}]]

\* The peer or the user's own phone: a request is made, withdrawn or accepted,
\* a request of ours is accepted, a friend is removed.
Change(p) ==
    /\ \/ rel[p] = "stranger" /\ Becomes(p, "asking", "request", calls)
       \/ rel[p] = "asking" /\ Becomes(p, "stranger", "cancel", calls)
       \/ rel[p] \in {"stranger", "asking"} /\ Becomes(p, "friend", "add", calls)
       \/ rel[p] = "friend" /\ Becomes(p, "stranger", "remove", calls)
    /\ sync' = Doubt(p)
    /\ UNCHANGED <<online, contact, isFriend, request, lastId, begun, calls>>

\* The connection closes, or a login or restore makes a new one.
Switch ==
    /\ online' = ~online
    /\ UNCHANGED <<rel, changes, events, rows, server, history>>

-----------------------------------------------------------------------------
(* Rows                                                                    *)

UpsertContact(p) ==
    /\ isFriend' = isFriend \cup {p}
    /\ IF contact[p] = 0
       THEN lastId' = lastId + 1 /\ contact' = [contact EXCEPT ![p] = lastId + 1]
       ELSE UNCHANGED <<lastId, contact>>

UpsertRequest(p) ==
    IF request[p] = 0
    THEN lastId' = lastId + 1 /\ request' = [request EXCEPT ![p] = lastId + 1]
    ELSE UNCHANGED <<lastId, request>>

Without(R) == [p \in People |-> IF request[p] \in R THEN 0 ELSE request[p]]

-----------------------------------------------------------------------------
(* ZaloFriendListener.handle; the handlers of events interleave freely.    *)

Handled(e) == events' = events \ {e}

\* handleFriendAdd: the profile, then the upsert of the contact.
FriendAdd(e) ==
    /\ e.kind = "add"
    /\ UpsertContact(e.person)
    /\ Handled(e)
    /\ UNCHANGED <<zalo, request, server, history>>

\* Deviation: the contact's row is left alone.
RemoveIgnored(e) ==
    /\ e.kind = "remove"
    /\ Handled(e)
    /\ UNCHANGED <<zalo, rows, server, history>>

\* handleFriendRemove: the row stays, without isFriend.
FriendRemove(e) ==
    /\ e.kind = "remove"
    /\ isFriend' = isFriend \ {e.person}
    /\ Handled(e)
    /\ UNCHANGED <<zalo, contact, request, lastId, server, history>>

\* handleFriendRequest: the profile, then the upsert of the request.
FriendRequest(e) ==
    /\ e.kind = "request"
    /\ UpsertRequest(e.person)
    /\ Handled(e)
    /\ UNCHANGED <<zalo, contact, isFriend, server, history>>

\* handleRequestCancel: the request is looked for ...
RequestCancel(e) ==
    /\ e.kind = "cancel"
    /\ events' = (events \ {e}) \cup
                    IF request[e.person] = 0 THEN {}
                    ELSE {[e EXCEPT !.kind = "delete", !.id = request[e.person]]}
    /\ UNCHANGED <<zalo, rows, server, history>>

\* ... and deleted by its id.
DeleteRequest(e) ==
    /\ e.kind = "delete"
    /\ request' = Without({e.id})
    /\ Handled(e)
    /\ UNCHANGED <<zalo, contact, isFriend, lastId, server, history>>

\* handle() catches and logs whatever fails.
HandlerFails(e) ==
    /\ Handled(e)
    /\ Muddle({e.person})
    /\ UNCHANGED <<zalo, rows, server, leftover>>

Handle(e) ==
    \/ FriendAdd(e) \/ FriendRemove(e) \/ FriendRequest(e)
    \/ RequestCancel(e) \/ DeleteRequest(e) \/ HandlerFails(e)

-----------------------------------------------------------------------------
(* ContactsService                                                         *)

\* acceptFriendRequest and declineFriendRequest find the request by its id,
\* removeFriend the contact.
Begin(o, p) ==
    /\ o \notin begun
    /\ begun' = begun \cup {o}
    /\ \/ /\ request[p] # 0
          /\ \E kind \in {"accept", "decline"} :
                calls' = calls \cup {[call |-> o, kind |-> kind, person |-> p,
                                      id |-> request[p], called |-> FALSE]}
       \/ /\ contact[p] # 0
          /\ calls' = calls \cup {[call |-> o, kind |-> "remove", person |-> p,
                                   id |-> contact[p], called |-> FALSE]}
    /\ UNCHANGED <<zalo, events, rows, sync, history>>

\* c goes on to write, or has lost Zalo's answer and throws.
Answered(c) == calls' \in {calls \ {c}, (calls \ {c}) \cup {[c EXCEPT !.called = TRUE]}}

\* Zalo does what it is asked ...
CallZalo(c) ==
    /\ online /\ ~c.called
    /\ \/ c.kind = "accept" /\ rel[c.person] = "asking"
          /\ Becomes(c.person, "friend", "add", calls \ {c})
       \/ c.kind = "decline" /\ rel[c.person] = "asking"
          /\ Becomes(c.person, "stranger", "cancel", calls \ {c})
       \/ c.kind = "remove" /\ rel[c.person] = "friend"
          /\ Becomes(c.person, "stranger", "remove", calls \ {c})
    /\ Answered(c)
    /\ sync' = Doubt(c.person)
    /\ UNCHANGED <<online, contact, isFriend, request, lastId, begun>>

\* ... or has nothing to do: the person is a friend already, or none.
CallIsIdle(c) ==
    /\ online /\ ~c.called
    /\ c.kind # "decline"
    /\ c.kind = "accept" <=> rel[c.person] = "friend"
    /\ Answered(c)
    /\ UNCHANGED <<zalo, events, rows, begun, sync, history>>

\* Without an API object ZaloZcaService answers null and tells nobody.
CallOffline(c) ==
    /\ ~online /\ ~c.called
    /\ calls' = (calls \ {c}) \cup {[c EXCEPT !.called = TRUE]}
    /\ sync' = Doubt(c.person)
    /\ Muddle({c.person})
    /\ UNCHANGED <<zalo, events, rows, begun, leftover>>

\* Zalo refuses or the call fails.
CallFails(c) ==
    /\ ~c.called
    /\ calls' = calls \ {c}
    /\ UNCHANGED <<zalo, events, rows, begun, sync, history>>

\* The transaction of acceptFriendRequest; it is rolled back if there is a
\* contact's row already or the request's row is gone.
Accept(c) ==
    /\ c.called /\ c.kind = "accept"
    /\ IF contact[c.person] = 0 /\ request[c.person] = c.id
       THEN UpsertContact(c.person) /\ request' = Without({c.id})
       ELSE UNCHANGED rows
    /\ calls' = calls \ {c}
    /\ UNCHANGED <<zalo, events, begun, sync, history>>

\* declineFriendRequest deletes the request's row, and throws if it is gone.
Decline(c) ==
    /\ c.called /\ c.kind = "decline"
    /\ request' = Without({c.id})
    /\ calls' = calls \ {c}
    /\ UNCHANGED <<zalo, events, contact, isFriend, lastId, begun, sync, history>>

\* removeFriend deletes the contact's row, and throws if it is gone.
Remove(c) ==
    /\ c.called /\ c.kind = "remove"
    /\ IF contact[c.person] = c.id
       THEN /\ contact' = [contact EXCEPT ![c.person] = 0]
            /\ isFriend' = isFriend \ {c.person}
       ELSE UNCHANGED <<contact, isFriend>>
    /\ calls' = calls \ {c}
    /\ UNCHANGED <<zalo, events, request, lastId, begun, sync, history>>

Proceed(c) ==
    \/ CallZalo(c) \/ CallIsIdle(c) \/ CallOffline(c) \/ CallFails(c)
    \/ Accept(c) \/ Decline(c) \/ Remove(c)

-----------------------------------------------------------------------------
(* ZaloAdapter.syncFriends                                                 *)

\* getAllFriends: the friends, or nobody if it fails.  History: a sync can vouch
\* for persons about whom nothing else is going on; overlapping syncs for none.
FetchFriends(s) ==
    /\ sync[s].stage = "idle"
    /\ \E failed \in BOOLEAN :
          /\ ~online => failed
          /\ sync' = [t \in Syncs |->
                IF t # s THEN [sync[t] EXCEPT !.sound = {}]
                ELSE [sync[s] EXCEPT
                        !.stage = "friends",
                        !.friends = IF failed THEN {} ELSE {p \in People : rel[p] = "friend"},
                        !.sound = IF failed \/ \E u \in Syncs : Runs(u) THEN {}
                                  ELSE {p \in People : ~InFlight(p)}]]
    /\ UNCHANGED <<zalo, events, rows, begun, calls, history>>

\* One of the concurrent upserts of friends.
UpsertFriend(s, p) ==
    /\ p \in sync[s].friends
    /\ UpsertContact(p)
    /\ sync' = [sync EXCEPT ![s].friends = @ \ {p}]
    /\ UNCHANGED <<zalo, events, request, begun, calls, history>>

\* All friends are written.  getFriendRequests: those who ask, or nobody if it
\* fails, so that every request will be deleted.
FetchRequests(s) ==
    /\ sync[s].stage = "friends" /\ sync[s].friends = {}
    /\ \/ /\ online
          /\ sync' = [sync EXCEPT ![s].stage = "list",
                                  ![s].asked = {p \in People : rel[p] = "asking"}]
          /\ UNCHANGED history
       \/ /\ sync' = [sync EXCEPT ![s].stage = "list", ![s].asked = {}, ![s].sound = {}]
          /\ Muddle({p \in People : rel[p] = "asking"})
          /\ UNCHANGED leftover
    /\ UNCHANGED <<zalo, events, rows, begun, calls>>

\* Deviation: persons without a request are listed too.
ListPeople(s) ==
    /\ sync[s].stage = "list"
    /\ sync' = [sync EXCEPT ![s].stage = "delete",
                            ![s].gone = {request[p] : p \in People \ sync[s].asked}]
    /\ UNCHANGED <<zalo, events, rows, begun, calls, history>>

\* findAllRequestsByBot and the ids that are to go.
ListRequests(s) ==
    /\ sync[s].stage = "list"
    /\ sync' = [sync EXCEPT ![s].stage = "delete",
                            ![s].gone = {request[p] : p \in People \ sync[s].asked} \ {0}]
    /\ UNCHANGED <<zalo, events, rows, begun, calls, history>>

\* Deviation: requests are deleted and none is added.
DeleteOnly(s) ==
    /\ sync[s].stage = "delete"
    /\ request' = Without(sync[s].gone)
    /\ sync' = [sync EXCEPT ![s].stage = "add", ![s].gone = {}]
    /\ UNCHANGED <<zalo, events, contact, isFriend, lastId, begun, calls, history>>

\* deleteRequestsByIds, then the upserts of requests are started.
DeleteRequests(s) ==
    /\ sync[s].stage = "delete"
    /\ request' = Without(sync[s].gone)
    /\ sync' = [sync EXCEPT ![s].stage = "add", ![s].requests = sync[s].asked, ![s].gone = {}]
    /\ UNCHANGED <<zalo, events, contact, isFriend, lastId, begun, calls, history>>

\* One of the concurrent upserts of requests.
UpsertAsked(s, p) ==
    /\ p \in sync[s].requests
    /\ UpsertRequest(p)
    /\ sync' = [sync EXCEPT ![s].requests = @ \ {p}]
    /\ UNCHANGED <<zalo, events, contact, isFriend, begun, calls, history>>

\* The sync is done.
SyncEnds(s) ==
    /\ sync[s].stage = "add" /\ sync[s].requests = {}
    /\ astray' = astray \ sync[s].sound
    /\ leftover' = leftover \ sync[s].sound
    /\ sync' = [sync EXCEPT ![s] = [@ EXCEPT !.stage = "done", !.asked = {}, !.sound = {}]]
    /\ UNCHANGED <<zalo, events, rows, begun, calls, muddled>>

\* An upsert, or one of the other steps, is rejected and syncFriends gives up;
\* the upserts that it started go on.
SyncFails(s) ==
    /\ sync[s].stage \notin {"idle", "done"}
    /\ \E F \in {sync[s].friends} \cup {sync[s].friends \ {p} : p \in People},
          R \in {sync[s].requests} \cup {sync[s].requests \ {p} : p \in People} :
          sync' = [sync EXCEPT ![s] = [stage |-> "done", friends |-> F, asked |-> {},
                                       gone |-> {}, requests |-> R, sound |-> {}]]
    /\ UNCHANGED <<zalo, events, rows, begun, calls, history>>

Synchronise(s) ==
    \/ FetchFriends(s) \/ FetchRequests(s) \/ ListRequests(s) \/ DeleteRequests(s)
    \/ SyncEnds(s) \/ SyncFails(s)
    \/ \E p \in People : UpsertFriend(s, p) \/ UpsertAsked(s, p)

-----------------------------------------------------------------------------
\* The process dies: what was being handled is lost.
Crash ==
    /\ events' = {} /\ calls' = {}
    /\ sync' = [s \in Syncs |->
                  IF sync[s].stage = "idle" THEN sync[s]
                  ELSE [stage |-> "done", friends |-> {}, asked |-> {}, gone |-> {},
                        requests |-> {}, sound |-> {}]]
    /\ online' = FALSE
    /\ Muddle({e.person : e \in events})
    /\ UNCHANGED <<rel, changes, rows, begun, leftover>>

Next ==
    \/ \E p \in People : Change(p)
    \/ Switch \/ Crash
    \/ \E e \in events : Handle(e)
    \/ \E o \in Calls, p \in People : Begin(o, p)
    \/ \E c \in calls : Proceed(c)
    \/ \E s \in Syncs : Synchronise(s)

Spec == Init /\ [][Next]_vars

-----------------------------------------------------------------------------
\* Nothing is going on.
Quiet == events = {} /\ calls = {} /\ \A s \in Syncs : ~Runs(s)

\* Once all is handled, Zalo's friends are friends in the database, unless
\* steps overlapped or something was lost and no sync has followed; and nobody
\* else is, unless such a thing happened, which a sync does not put right.
FriendsAgree ==
    Quiet =>
        /\ \A p \in People \ astray : rel[p] = "friend" => p \in isFriend
        /\ \A p \in People \ muddled : p \in isFriend => rel[p] = "friend"

\* Who asks has a request in the database, with the same exception; and a request
\* there is of somebody who asks, or of somebody who became a friend without the
\* request's row being deleted.
RequestsAgree ==
    Quiet => \A p \in People \ astray :
        /\ rel[p] = "asking" => request[p] # 0
        /\ request[p] # 0 => rel[p] = "asking" \/ p \in leftover

=============================================================================
