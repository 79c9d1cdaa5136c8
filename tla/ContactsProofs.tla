--------------------------- MODULE ContactsProofs ---------------------------
(***************************************************************************)
(* Proofs about Contacts, for any persons, requests, syncs and changes.     *)
(*                                                                         *)
(* A person is steady who is not astray: at most one event about them is    *)
(* under way and tells what they are, every call that Zalo answered did     *)
(* what they are, every sync knows them as they are, and the rows are right *)
(* but for what the event will write.  A change while anything else is      *)
(* under way makes them astray.  They are steady again when a sync ends     *)
(* that vouches for them; Sound says how far it has come.                   *)
(***************************************************************************)
EXTENDS Contacts, TLAPS

\* Ids of rows are used once.  What is to be deleted by its id is the person's own.
IdsInv ==
    /\ \A p, q \in People : request[p] = request[q] /\ request[p] # 0 => p = q
    /\ \A c \in calls : /\ c.id \in 1 .. lastId
                        /\ c.kind # "remove" => \A q \in People : request[q] = c.id => q = c.person
    /\ \A e \in events : e.kind = "delete" =>
          e.id \in 1 .. lastId /\ \A q \in People : request[q] = e.id => q = e.person

\* What a sync holds in which stage.
StagesInv ==
    \A s \in Syncs :
        /\ sync[s].stage \notin {"friends", "done"} => sync[s].friends = {}
        /\ sync[s].stage \notin {"add", "done"} => sync[s].requests = {}
        /\ sync[s].stage \in {"idle", "done"} => sync[s].sound = {}

EventsFit(p) ==
    /\ \A e, f \in events : e.person = p /\ f.person = p => e = f
    /\ \A e \in events : e.person = p =>
          /\ e.kind = "add" => rel[p] = "friend"
          /\ e.kind = "request" => rel[p] = "asking"
          /\ e.kind \in {"remove", "cancel", "delete"} => rel[p] = "stranger"

CallsFit(p) ==
    \A c \in calls : c.person = p /\ c.called =>
        /\ c.kind = "accept" => rel[p] = "friend"
        /\ c.kind = "decline" => rel[p] = "stranger"
        /\ c.kind = "remove" => rel[p] # "friend"

SyncFits(s, p) ==
    /\ p \in sync[s].friends => rel[p] = "friend"
    /\ p \in sync[s].requests => rel[p] = "asking"
    /\ sync[s].stage \in {"list", "delete", "add"} => (p \in sync[s].asked <=> rel[p] = "asking")
    /\ sync[s].stage = "delete" /\ rel[p] = "asking" => request[p] \notin sync[s].gone

\* The rows are right, or an event will put them right.
RowsFit(p) ==
    /\ rel[p] = "friend" => p \in isFriend \/ \E e \in events : e.person = p /\ e.kind = "add"
    /\ rel[p] = "asking" => request[p] # 0 \/ \E e \in events : e.person = p /\ e.kind = "request"
    /\ request[p] # 0 =>
          \/ rel[p] = "asking" \/ p \in leftover
          \/ \E e \in events : /\ e.person = p
                               /\ e.kind = "cancel" \/ (e.kind = "delete" /\ e.id = request[p])

Steady(p) ==
    /\ EventsFit(p) /\ CallsFit(p) /\ RowsFit(p)
    /\ \A s \in Syncs : SyncFits(s, p)

SteadyInv == \A p \in People \ astray : Steady(p)

\* Who was never muddled is marked as a friend only while they are one, or until the
\* event is handled that says otherwise.
CleanInv ==
    \A p \in People \ muddled : p \in isFriend =>
        rel[p] = "friend" \/ \E e \in events : e.person = p /\ e.kind = "remove"

\* How far a sync has come with a person it can vouch for.
Sound(s, p) ==
    /\ \A t \in Syncs \ {s} : ~Runs(t)
    /\ \A e \in events : e.person # p
    /\ \A c \in calls : c.person = p /\ c.called =>
          c.kind # "decline" /\ (c.kind = "accept" <=> rel[p] = "friend")
    /\ SyncFits(s, p)
    /\ rel[p] = "friend" => p \in isFriend \/ p \in sync[s].friends
    /\ sync[s].stage = "delete" /\ rel[p] # "asking" => request[p] \in sync[s].gone \cup {0}
    /\ sync[s].stage = "add" =>
          IF rel[p] = "asking" THEN request[p] # 0 \/ p \in sync[s].requests ELSE request[p] = 0

SoundInv == \A s \in Syncs : \A p \in sync[s].sound : Sound(s, p)

Inv == TypeOK /\ IdsInv /\ StagesInv /\ SteadyInv /\ CleanInv /\ SoundInv

-----------------------------------------------------------------------------
(* Types                                                                   *)

\* An upsert makes a friend; nobody else's row changes and no id is used again.
LEMMA UpsertContactDoes ==
    ASSUME TypeOK, NEW p \in People, UpsertContact(p)
    PROVE  /\ lastId' \in Nat /\ lastId <= lastId'
           /\ contact' \in [People -> 0 .. lastId'] /\ contact'[p] # 0
           /\ \A q \in People \ {p} : contact'[q] = contact[q]
           /\ isFriend' = isFriend \cup {p}
           /\ isFriend' \subseteq {q \in People : contact'[q] # 0}
<1>1. CASE contact[p] = 0
  BY <1>1 DEF UpsertContact, TypeOK
<1>2. CASE contact[p] # 0
  BY <1>2 DEF UpsertContact, TypeOK
<1> QED
  BY <1>1, <1>2

\* The like of a request.
LEMMA UpsertRequestDoes ==
    ASSUME TypeOK, NEW p \in People, UpsertRequest(p)
    PROVE  /\ lastId' \in Nat /\ lastId <= lastId'
           /\ request' \in [People -> 0 .. lastId'] /\ request'[p] # 0
           /\ \A q \in People \ {p} : request'[q] = request[q]
           /\ request[p] # 0 => request'[p] = request[p]
           /\ request[p] = 0 => request'[p] = lastId + 1 /\ lastId' = lastId + 1
<1>1. CASE request[p] = 0
  BY <1>1 DEF UpsertRequest, TypeOK
<1>2. CASE request[p] # 0
  BY <1>2 DEF UpsertRequest, TypeOK
<1> QED
  BY <1>1, <1>2

\* Rows of requests are deleted by their ids.
LEMMA WithoutDoes ==
    ASSUME TypeOK, NEW R, request' = Without(R)
    PROVE  /\ request' \in [People -> 0 .. lastId]
           /\ \A p \in People : request'[p] = IF request[p] \in R THEN 0 ELSE request[p]
  BY DEF TypeOK, Without

\* Ids of rows stay in their bounds while more are given.
LEMMA IdsGrow ==
    ASSUME TypeOK, lastId' \in Nat, lastId <= lastId'
    PROVE  /\ contact \in [People -> 0 .. lastId'] /\ request \in [People -> 0 .. lastId']
           /\ \A s \in Syncs : sync[s].gone \subseteq 1 .. lastId'
  BY DEF TypeOK

\* The type's part about Zalo and the history.
Outside ==
    /\ rel \in [People -> {"stranger", "asking", "friend"}]
    /\ changes \in 0 .. MaxChanges /\ online \in BOOLEAN
    /\ events \subseteq Event
    /\ muddled \subseteq People /\ astray \subseteq muddled /\ leftover \subseteq People

LEMMA BecomesTyped ==
    ASSUME TypeOK, NEW p \in People, NEW r \in {"stranger", "asking", "friend"},
           NEW kind \in {"add", "remove", "request", "cancel"}, NEW others,
           Becomes(p, r, kind, others), UNCHANGED online
    PROVE  Outside'
<1>1. /\ changes' \in 0 .. MaxChanges /\ changes + 1 \in 1 .. MaxChanges
      /\ rel' \in [People -> {"stranger", "asking", "friend"}] /\ online' \in BOOLEAN
  BY ContactsAssumption DEF Becomes, TypeOK
<1>2. events' \subseteq Event
  BY <1>1 DEF Becomes, TypeOK, Event
<1>3. muddled' \subseteq People /\ astray' \subseteq muddled' /\ leftover' \subseteq People
  BY DEF Becomes, TypeOK, Muddle
<1> QED
  BY <1>1, <1>2, <1>3 DEF Outside

\* One's doubt leaves a sync what it is.
LEMMA DoubtTyped ==
    ASSUME TypeOK, NEW p
    PROVE  Doubt(p) \in [Syncs -> Sync] /\ \A s \in Syncs : Doubt(p)[s].gone \subseteq 1 .. lastId
<1> SUFFICES ASSUME NEW s \in Syncs
             PROVE  Doubt(p)[s] \in Sync /\ Doubt(p)[s].gone \subseteq 1 .. lastId
  BY DEF Doubt
<1> QED
  BY DEF TypeOK, Doubt, Sync

LEMMA AnsweredTyped ==
    ASSUME TypeOK, NEW c \in calls, Answered(c)
    PROVE  calls' \subseteq Call
<1>1. [c EXCEPT !.called = TRUE] \in Call
  BY DEF TypeOK, Call
<1> QED
  BY <1>1 DEF TypeOK, Answered

LEMMA HandleTyped ==
    ASSUME TypeOK, NEW e \in events, Handle(e)
    PROVE  TypeOK'
<1>0. e \in Event /\ e.person \in People
  BY DEF TypeOK, Event
<1>1. CASE FriendAdd(e)
  BY <1>0, <1>1, UpsertContactDoes, IdsGrow DEF FriendAdd, TypeOK, Handled, zalo, server, history
<1>2. CASE FriendRemove(e)
  BY <1>2 DEF FriendRemove, TypeOK, Handled, zalo, server, history
<1>3. CASE FriendRequest(e)
  BY <1>0, <1>3, UpsertRequestDoes, IdsGrow DEF FriendRequest, TypeOK, Handled, zalo, server, history
<1>4. CASE RequestCancel(e)
  <2>0. request[e.person] \in Nat
    BY <1>0 DEF TypeOK
  <2>1. [e EXCEPT !.kind = "delete", !.id = request[e.person]] \in Event
    BY <1>0, <2>0 DEF Event
  <2>2. events' \subseteq Event
    BY <1>4, <2>1 DEF RequestCancel, TypeOK
  <2> QED
    BY <1>4, <2>2 DEF RequestCancel, TypeOK, zalo, rows, server, history
<1>5. CASE DeleteRequest(e)
  BY <1>5, WithoutDoes DEF DeleteRequest, TypeOK, Handled, zalo, server, history
<1>6. CASE HandlerFails(e)
  BY <1>0, <1>6 DEF HandlerFails, TypeOK, Handled, Muddle, zalo, rows, server
<1> QED
  BY <1>1, <1>2, <1>3, <1>4, <1>5, <1>6 DEF Handle

LEMMA CallsTyped ==
    ASSUME TypeOK, \/ \E o \in Calls, p \in People : Begin(o, p)
                   \/ \E c \in calls : Proceed(c)
    PROVE  TypeOK'
<1>1. CASE \E o \in Calls, p \in People : Begin(o, p)
  <2> PICK o \in Calls, p \in People : Begin(o, p)
    BY <1>1
  <2>1. /\ request[p] \in Nat /\ contact[p] \in Nat
        /\ \A kind \in {"accept", "decline", "remove"}, id \in Nat :
              [call |-> o, kind |-> kind, person |-> p, id |-> id, called |-> FALSE] \in Call
    BY DEF TypeOK, Call
  <2>2. calls' \subseteq Call
    BY <2>1 DEF Begin, TypeOK
  <2> QED
    BY <2>2 DEF Begin, TypeOK, zalo, rows, history
<1>2. CASE \E c \in calls : Proceed(c)
  <2> PICK c \in calls : Proceed(c)
    BY <1>2
  <2>0. c \in Call /\ c.person \in People /\ [c EXCEPT !.called = TRUE] \in Call
    BY DEF TypeOK, Call
  <2>1. CASE CallZalo(c)
    <3>1. Outside'
      BY <2>0, <2>1, BecomesTyped DEF CallZalo
    <3> QED
      BY <2>1, <3>1, AnsweredTyped, DoubtTyped DEF CallZalo, Outside, TypeOK
  <2>2. CASE CallIsIdle(c)
    BY <2>2, AnsweredTyped DEF CallIsIdle, TypeOK, zalo, rows, history
  <2>3. CASE CallOffline(c)
    BY <2>0, <2>3, DoubtTyped DEF CallOffline, TypeOK, Muddle, zalo, rows
  <2>4. CASE CallFails(c)
    BY <2>4 DEF CallFails, TypeOK, zalo, rows, history
  <2>5. CASE Accept(c)
    <3>1. CASE contact[c.person] = 0 /\ request[c.person] = c.id
      <4>1. UpsertContact(c.person) /\ request' = Without({c.id})
        BY <2>5, <3>1 DEF Accept
      <4>2. request' \in [People -> 0 .. lastId']
        BY <2>0, <4>1, UpsertContactDoes, WithoutDoes DEF TypeOK
      <4> QED
        BY <2>0, <2>5, <4>1, <4>2, UpsertContactDoes, IdsGrow DEF Accept, TypeOK, zalo, history
    <3>2. CASE ~(contact[c.person] = 0 /\ request[c.person] = c.id)
      BY <2>5, <3>2 DEF Accept, TypeOK, zalo, rows, history
    <3> QED
      BY <3>1, <3>2
  <2>6. CASE Decline(c)
    BY <2>6, WithoutDoes DEF Decline, TypeOK, zalo, history
  <2>7. CASE Remove(c)
    BY <2>0, <2>7 DEF Remove, TypeOK, zalo, history
  <2> QED
    BY <2>1, <2>2, <2>3, <2>4, <2>5, <2>6, <2>7 DEF Proceed
<1> QED
  BY <1>1, <1>2

LEMMA SyncsTyped ==
    ASSUME TypeOK, NEW s \in Syncs, Synchronise(s)
    PROVE  TypeOK'
<1>0. sync[s] \in Sync /\ rel \in [People -> {"stranger", "asking", "friend"}]
  BY DEF TypeOK
<1>1. CASE FetchFriends(s)
  <2>1. PICK S, F : /\ S \subseteq People /\ F \subseteq People
                    /\ sync' = [t \in Syncs |->
                          IF t # s THEN [sync[t] EXCEPT !.sound = {}]
                          ELSE [sync[s] EXCEPT !.stage = "friends", !.friends = F, !.sound = S]]
    <3>1. PICK failed \in BOOLEAN :
             sync' = [t \in Syncs |->
                IF t # s THEN [sync[t] EXCEPT !.sound = {}]
                ELSE [sync[s] EXCEPT
                        !.stage = "friends",
                        !.friends = IF failed THEN {} ELSE {p \in People : rel[p] = "friend"},
                        !.sound = IF failed \/ \E u \in Syncs : Runs(u) THEN {}
                                  ELSE {p \in People : ~InFlight(p)}]]
      BY <1>1 DEF FetchFriends
    <3>2. PICK F : F = IF failed THEN {} ELSE {p \in People : rel[p] = "friend"}
      OBVIOUS
    <3>3. PICK S : S = IF failed \/ \E u \in Syncs : Runs(u) THEN {}
                                  ELSE {p \in People : ~InFlight(p)}
      OBVIOUS
    <3> HIDE DEF Runs, InFlight
    <3>4. S \subseteq People /\ F \subseteq People
      BY <3>2, <3>3
    <3> QED
      BY <3>1, <3>2, <3>3, <3>4
  <2>2. \A t \in Syncs : sync'[t] \in Sync /\ sync'[t].gone = sync[t].gone
    BY <2>1 DEF TypeOK, Sync
  <2>3. sync' \in [Syncs -> Sync]
    BY <2>1, <2>2
  <2> QED
    BY <1>1, <2>2, <2>3 DEF FetchFriends, TypeOK, zalo, rows, history
<1>2. CASE \E p \in People : UpsertFriend(s, p)
  <2> PICK p \in People : UpsertFriend(s, p)
    BY <1>2
  <2>1. sync' \in [Syncs -> Sync] /\ \A t \in Syncs : sync'[t].gone = sync[t].gone
    BY <1>0 DEF UpsertFriend, TypeOK, Sync
  <2> QED
    BY <2>1, UpsertContactDoes, IdsGrow DEF UpsertFriend, TypeOK, zalo, history
<1>3. CASE FetchRequests(s)
  <2>1. PICK A, S : /\ A \subseteq People /\ S \subseteq People
                    /\ sync' = [sync EXCEPT ![s] = [@ EXCEPT !.stage = "list", !.asked = A, !.sound = S]]
    <3>1. CASE sync' = [sync EXCEPT ![s].stage = "list", ![s].asked = {p \in People : rel[p] = "asking"}]
      <4>1. [sync[s] EXCEPT !.stage = "list", !.asked = {p \in People : rel[p] = "asking"}]
              = [sync[s] EXCEPT !.stage = "list", !.asked = {p \in People : rel[p] = "asking"},
                                !.sound = sync[s].sound]
        BY <1>0 DEF Sync
      <4>2. sync' = [sync EXCEPT ![s] = [@ EXCEPT !.stage = "list",
                       !.asked = {p \in People : rel[p] = "asking"}, !.sound = sync[s].sound]]
        BY <3>1, <4>1 DEF TypeOK
      <4>3. sync[s].sound \subseteq People
        BY <1>0 DEF Sync
      <4> QED
        BY <4>2, <4>3
    <3>2. CASE sync' = [sync EXCEPT ![s].stage = "list", ![s].asked = {}, ![s].sound = {}]
      <4>1. sync' = [sync EXCEPT ![s] = [@ EXCEPT !.stage = "list", !.asked = {}, !.sound = {}]]
        BY <3>2 DEF TypeOK
      <4> QED
        BY <4>1
    <3> QED
      BY <1>3, <3>1, <3>2 DEF FetchRequests
  <2>2. sync' \in [Syncs -> Sync] /\ \A t \in Syncs : sync'[t].gone = sync[t].gone
    BY <1>0, <2>1 DEF TypeOK, Sync
  <2> QED
    BY <1>3, <2>2 DEF FetchRequests, TypeOK, Muddle, zalo, rows, history
<1>4. CASE ListRequests(s)
  <2>1. PICK G : G = {request[p] : p \in People \ sync[s].asked} \ {0}
    OBVIOUS
  <2>2. G \subseteq 1 .. lastId /\ G \subseteq Nat
    BY <2>1 DEF TypeOK
  <2>3. sync' \in [Syncs -> Sync] /\ \A t \in Syncs : sync'[t].gone \in {sync[t].gone, G}
    BY <1>0, <1>4, <2>1, <2>2 DEF ListRequests, TypeOK, Sync
  <2> QED
    BY <1>4, <2>2, <2>3 DEF ListRequests, TypeOK, zalo, rows, history
<1>5. CASE DeleteRequests(s)
  <2>1. sync' \in [Syncs -> Sync] /\ \A t \in Syncs : sync'[t].gone \in {sync[t].gone, {}}
    BY <1>0, <1>5 DEF DeleteRequests, TypeOK, Sync
  <2> QED
    BY <1>5, <2>1, WithoutDoes DEF DeleteRequests, TypeOK, zalo, history
<1>6. CASE \E p \in People : UpsertAsked(s, p)
  <2> PICK p \in People : UpsertAsked(s, p)
    BY <1>6
  <2>1. sync' \in [Syncs -> Sync] /\ \A t \in Syncs : sync'[t].gone = sync[t].gone
    BY <1>0 DEF UpsertAsked, TypeOK, Sync
  <2> QED
    BY <2>1, UpsertRequestDoes, IdsGrow DEF UpsertAsked, TypeOK, zalo, history
<1>7. CASE SyncEnds(s)
  <2>1. sync' \in [Syncs -> Sync] /\ \A t \in Syncs : sync'[t].gone = sync[t].gone
    BY <1>0, <1>7 DEF SyncEnds, TypeOK, Sync
  <2> QED
    BY <1>7, <2>1 DEF SyncEnds, TypeOK, zalo, rows
<1>8. CASE SyncFails(s)
  <2>1. PICK F \in SUBSET People, R \in SUBSET People :
           sync' = [sync EXCEPT ![s] = [stage |-> "done", friends |-> F, asked |-> {},
                                        gone |-> {}, requests |-> R, sound |-> {}]]
    <3>1. sync[s].friends \subseteq People /\ sync[s].requests \subseteq People
      BY <1>0 DEF Sync
    <3> QED
      BY <1>8, <3>1 DEF SyncFails
  <2>2. sync' \in [Syncs -> Sync] /\ \A t \in Syncs : sync'[t].gone \in {sync[t].gone, {}}
    BY <2>1 DEF TypeOK, Sync
  <2> QED
    BY <1>8, <2>2 DEF SyncFails, TypeOK, zalo, rows, history
<1> QED
  BY <1>1, <1>2, <1>3, <1>4, <1>5, <1>6, <1>7, <1>8 DEF Synchronise

LEMMA TypeStep ==
    ASSUME TypeOK, [Next]_vars
    PROVE  TypeOK'
<1>1. CASE \E p \in People : Change(p)
  <2> PICK p \in People : Change(p)
    BY <1>1
  <2>1. Outside'
    BY BecomesTyped DEF Change
  <2> QED
    BY <2>1, DoubtTyped DEF Change, Outside, TypeOK
<1>2. CASE Switch
  BY <1>2 DEF Switch, TypeOK, rows, server, history
<1>3. CASE Crash
  <2>1. /\ sync' \in [Syncs -> Sync] /\ \A t \in Syncs : sync'[t].gone \in {sync[t].gone, {}}
    BY <1>3 DEF Crash, TypeOK, Sync
  <2>2. {e.person : e \in events} \subseteq People
    BY DEF TypeOK, Event
  <2> QED
    BY <1>3, <2>1, <2>2 DEF Crash, TypeOK, Muddle, rows
<1>4. CASE UNCHANGED vars
  BY <1>4 DEF TypeOK, vars, zalo, rows, server, history
<1> QED
  BY <1>1, <1>2, <1>3, <1>4, HandleTyped, CallsTyped, SyncsTyped DEF Next

LEMMA TypeInit == Init => TypeOK
  BY ContactsAssumption DEF Init, TypeOK, Sync

\* Persons, rows, events, calls and syncs keep their types: a friend has a row, and a
\* sync deletes only rows that were given an id.
THEOREM TypeCorrect == Spec => []TypeOK
  BY TypeInit, TypeStep, PTL DEF Spec

-----------------------------------------------------------------------------
(* Ids and stages                                                          *)

\* Rows are deleted, or get new ids; calls and events keep the ids they have.
LEMMA IdsKeep ==
    ASSUME TypeOK, IdsInv, lastId' \in Nat, lastId <= lastId',
           \A q \in People : request'[q] \in {0, request[q]} \/ request'[q] > lastId,
           \A p, q \in People : request'[p] = request'[q] /\ request'[p] > lastId => p = q,
           \A c \in calls' : \E d \in calls : c.id = d.id /\ c.kind = d.kind /\ c.person = d.person,
           \A e \in events' : e.kind = "delete" => e \in events
    PROVE  IdsInv'
<1>0. \A q \in People : request[q] \in 0 .. lastId
  BY DEF TypeOK
<1>1. \A p, q \in People : request'[p] = request'[q] /\ request'[p] # 0 => p = q
  BY <1>0 DEF IdsInv
<1>2. ASSUME NEW c \in calls'
      PROVE  /\ c.id \in 1 .. lastId'
             /\ c.kind # "remove" => \A q \in People : request'[q] = c.id => q = c.person
  <2> PICK d \in calls : c.id = d.id /\ c.kind = d.kind /\ c.person = d.person
    OBVIOUS
  <2> QED
    BY <1>0 DEF IdsInv, TypeOK
<1>3. ASSUME NEW e \in events', e.kind = "delete"
      PROVE  e.id \in 1 .. lastId' /\ \A q \in People : request'[q] = e.id => q = e.person
  BY <1>0, <1>3 DEF IdsInv, TypeOK
<1> QED
  BY <1>1, <1>2, <1>3 DEF IdsInv

LEMMA IdsOfHandle ==
    ASSUME TypeOK, IdsInv, NEW e \in events, Handle(e)
    PROVE  IdsInv'
<1>0. e.person \in People /\ lastId \in Nat /\ \A q \in People : request[q] \in 0 .. lastId
  BY DEF TypeOK, Event
<1>1. CASE FriendAdd(e)
  <2>1. lastId' \in Nat /\ lastId <= lastId'
    BY <1>0, <1>1, UpsertContactDoes DEF FriendAdd
  <2> QED
    BY <1>0, <1>1, <2>1, IdsKeep DEF FriendAdd, Handled, server
<1>2. CASE FriendRemove(e) \/ HandlerFails(e)
  BY <1>0, <1>2, IdsKeep DEF FriendRemove, HandlerFails, Handled, server, rows
<1>3. CASE FriendRequest(e)
  <2>1. UpsertRequest(e.person)
    BY <1>3 DEF FriendRequest
  <2> QED
    BY <1>0, <1>3, <2>1, UpsertRequestDoes, IdsKeep DEF FriendRequest, Handled, server
<1>4. CASE RequestCancel(e)
  <2>1. CASE request[e.person] = 0
    BY <1>0, <1>4, <2>1, IdsKeep DEF RequestCancel, rows, server
  <2>2. CASE request[e.person] # 0
    <3>1. PICK d : d = [e EXCEPT !.kind = "delete", !.id = request[e.person]]
      OBVIOUS
    <3>2. d.kind = "delete" /\ d.id = request[e.person] /\ d.person = e.person
      BY <3>1 DEF TypeOK, Event
    <3>3. events' = (events \ {e}) \cup {d} /\ UNCHANGED <<request, lastId, calls>>
      BY <1>4, <2>2, <3>1 DEF RequestCancel, rows, server
    <3> QED
      BY <1>0, <2>2, <3>2, <3>3 DEF IdsInv
  <2> QED
    BY <2>1, <2>2
<1>5. CASE DeleteRequest(e)
  BY <1>0, <1>5, WithoutDoes, IdsKeep DEF DeleteRequest, Handled, server
<1> QED
  BY <1>1, <1>2, <1>3, <1>4, <1>5 DEF Handle

LEMMA IdsOfBecomes ==
    ASSUME TypeOK, IdsInv, NEW p, NEW r, NEW kind \in {"add", "remove", "request", "cancel"}, NEW others,
           Becomes(p, r, kind, others), UNCHANGED <<request, lastId>>,
           \A c \in calls' : \E d \in calls : c.id = d.id /\ c.kind = d.kind /\ c.person = d.person
    PROVE  IdsInv'
<1>1. \A e \in events' : e.kind = "delete" => e \in events
  BY DEF Becomes
<1> QED
  BY <1>1, IdsKeep DEF TypeOK

\* An answered call is the one that was made.
LEMMA AnsweredSame ==
    ASSUME TypeOK, NEW c \in calls,
           \/ Answered(c)
           \/ calls' = (calls \ {c}) \cup {[c EXCEPT !.called = TRUE]}
    PROVE  \A d \in calls' :
              \/ d \in calls \ {c}
              \/ d.called /\ d.id = c.id /\ d.kind = c.kind /\ d.person = c.person
<1>1. PICK d : d = [c EXCEPT !.called = TRUE]
  OBVIOUS
<1>2. d.called /\ d.id = c.id /\ d.kind = c.kind /\ d.person = c.person
  BY <1>1 DEF TypeOK, Call
<1> QED
  BY <1>1, <1>2 DEF Answered

LEMMA IdsOfCalls ==
    ASSUME TypeOK, IdsInv, \/ \E o \in Calls, p \in People : Begin(o, p)
                           \/ \E c \in calls : Proceed(c)
    PROVE  IdsInv'
<1>0. lastId \in Nat /\ \A q \in People : request[q] \in 0 .. lastId /\ contact[q] \in 0 .. lastId
  BY DEF TypeOK
<1>1. CASE \E o \in Calls, p \in People : Begin(o, p)
  <2> PICK o \in Calls, p \in People : Begin(o, p)
    BY <1>1
  <2>1. UNCHANGED <<events, request, lastId>>
    BY DEF Begin, rows
  <2>2. PICK d : /\ calls' = calls \cup {d} /\ d.person = p
                 /\ \/ request[p] # 0 /\ d.id = request[p]
                    \/ contact[p] # 0 /\ d.id = contact[p] /\ d.kind = "remove"
    <3>1. CASE request[p] # 0 /\ \E kind \in {"accept", "decline"} :
                 calls' = calls \cup {[call |-> o, kind |-> kind, person |-> p,
                                       id |-> request[p], called |-> FALSE]}
      <4> PICK kind \in {"accept", "decline"} :
                 calls' = calls \cup {[call |-> o, kind |-> kind, person |-> p,
                                       id |-> request[p], called |-> FALSE]}
        BY <3>1
      <4>1. PICK d : d = [call |-> o, kind |-> kind, person |-> p, id |-> request[p], called |-> FALSE]
        OBVIOUS
      <4>2. calls' = calls \cup {d} /\ d.person = p /\ d.id = request[p]
        BY <4>1
      <4> QED
        BY <3>1, <4>2
    <3>2. CASE /\ contact[p] # 0
               /\ calls' = calls \cup {[call |-> o, kind |-> "remove", person |-> p,
                                        id |-> contact[p], called |-> FALSE]}
      <4>1. PICK d : d = [call |-> o, kind |-> "remove", person |-> p, id |-> contact[p], called |-> FALSE]
        OBVIOUS
      <4>2. calls' = calls \cup {d} /\ d.person = p /\ d.id = contact[p] /\ d.kind = "remove"
        BY <3>2, <4>1
      <4> QED
        BY <3>2, <4>2
    <3> QED
      BY <3>1, <3>2 DEF Begin
  <2> QED
    BY <1>0, <2>1, <2>2 DEF IdsInv
<1>2. CASE \E c \in calls : Proceed(c)
  <2> PICK c \in calls : Proceed(c)
    BY <1>2
  <2>0. c.person \in People
    BY DEF TypeOK, Call
  <2>1. CASE CallZalo(c)
    <3>1. \A e \in calls' : \E d \in calls : e.id = d.id /\ e.kind = d.kind /\ e.person = d.person
      BY <2>1, AnsweredSame DEF CallZalo
    <3> QED
      BY <2>1, <3>1, IdsOfBecomes DEF CallZalo
  <2>2. CASE CallIsIdle(c) \/ CallOffline(c) \/ CallFails(c)
    <3>1. \A e \in calls' : \E d \in calls : e.id = d.id /\ e.kind = d.kind /\ e.person = d.person
      BY <2>2, AnsweredSame DEF CallIsIdle, CallOffline, CallFails
    <3> QED
      BY <1>0, <2>2, <3>1, IdsKeep DEF CallIsIdle, CallOffline, CallFails, rows
  <2>3. CASE Accept(c)
    <3>1. CASE contact[c.person] = 0 /\ request[c.person] = c.id
      <4>1. UpsertContact(c.person) /\ request' = Without({c.id})
        BY <2>3, <3>1 DEF Accept
      <4>2. lastId' \in Nat /\ lastId <= lastId' /\ \A q \in People : request'[q] \in {0, request[q]}
        BY <2>0, <4>1, UpsertContactDoes, WithoutDoes
      <4> QED
        BY <1>0, <2>3, <4>2, IdsKeep DEF Accept
    <3>2. CASE ~(contact[c.person] = 0 /\ request[c.person] = c.id)
      BY <1>0, <2>3, <3>2, IdsKeep DEF Accept, rows
    <3> QED
      BY <3>1, <3>2
  <2>4. CASE Decline(c) \/ Remove(c)
    BY <1>0, <2>4, WithoutDoes, IdsKeep DEF Decline, Remove
  <2> QED
    BY <2>1, <2>2, <2>3, <2>4 DEF Proceed
<1> QED
  BY <1>1, <1>2

LEMMA IdsStep ==
    ASSUME TypeOK, IdsInv, [Next]_vars
    PROVE  IdsInv'
<1>0. lastId \in Nat /\ \A q \in People : request[q] \in 0 .. lastId
  BY DEF TypeOK
<1>1. CASE \E p \in People : Change(p)
  BY <1>1, IdsOfBecomes DEF Change
<1>2. CASE Switch \/ Crash \/ UNCHANGED vars
  BY <1>0, <1>2, IdsKeep DEF Switch, Crash, vars, rows, server
<1>3. CASE \E s \in Syncs : Synchronise(s)
  <2> PICK s \in Syncs : Synchronise(s)
    BY <1>3
  <2>1. CASE \E p \in People : UpsertFriend(s, p)
    <3> PICK p \in People : UpsertFriend(s, p)
      BY <2>1
    <3>1. lastId' \in Nat /\ lastId <= lastId'
      BY UpsertContactDoes DEF UpsertFriend
    <3> QED
      BY <1>0, <3>1, IdsKeep DEF UpsertFriend
  <2>2. CASE \E p \in People : UpsertAsked(s, p)
    <3> PICK p \in People : UpsertAsked(s, p)
      BY <2>2
    <3>1. UpsertRequest(p)
      BY DEF UpsertAsked
    <3> QED
      BY <1>0, <3>1, UpsertRequestDoes, IdsKeep DEF UpsertAsked
  <2>3. CASE DeleteRequests(s)
    BY <1>0, <2>3, WithoutDoes, IdsKeep DEF DeleteRequests
  <2>4. CASE \/ FetchFriends(s) \/ FetchRequests(s) \/ ListRequests(s) \/ SyncEnds(s) \/ SyncFails(s)
    <3>1. UNCHANGED <<events, request, lastId, calls>>
      BY <2>4 DEF FetchFriends, FetchRequests, ListRequests, SyncEnds, SyncFails, rows
    <3> QED
      BY <1>0, <3>1, IdsKeep
  <2> QED
    BY <2>1, <2>2, <2>3, <2>4 DEF Synchronise
<1> QED
  BY <1>1, <1>2, <1>3, IdsOfHandle, IdsOfCalls DEF Next

\* All of a sync but whom it can vouch for.
SameWork(s) ==
    /\ sync'[s].stage = sync[s].stage /\ sync'[s].friends = sync[s].friends
    /\ sync'[s].asked = sync[s].asked /\ sync'[s].gone = sync[s].gone
    /\ sync'[s].requests = sync[s].requests

LEMMA DoubtDoes ==
    ASSUME TypeOK, NEW p, sync' = Doubt(p), NEW s \in Syncs
    PROVE  SameWork(s) /\ sync'[s].sound = sync[s].sound \ {p}
  BY DEF TypeOK, Sync, Doubt, SameWork

LEMMA FetchFriendsDoes ==
    ASSUME TypeOK, NEW s \in Syncs, FetchFriends(s)
    PROVE  /\ \A t \in Syncs \ {s} : SameWork(t) /\ sync'[t].sound = {}
           /\ sync[s].stage = "idle" /\ sync'[s].stage = "friends"
           /\ sync'[s].asked = sync[s].asked /\ sync'[s].gone = sync[s].gone
           /\ sync'[s].requests = sync[s].requests
           /\ \A p \in sync'[s].friends : p \in People /\ rel[p] = "friend"
           /\ \A p \in sync'[s].sound :
                 /\ p \in People /\ ~InFlight(p) /\ \A u \in Syncs : ~Runs(u)
                 /\ rel[p] = "friend" => p \in sync'[s].friends
<1>1. PICK failed \in BOOLEAN :
         sync' = [t \in Syncs |->
            IF t # s THEN [sync[t] EXCEPT !.sound = {}]
            ELSE [sync[s] EXCEPT
                    !.stage = "friends",
                    !.friends = IF failed THEN {} ELSE {p \in People : rel[p] = "friend"},
                    !.sound = IF failed \/ \E u \in Syncs : Runs(u) THEN {}
                              ELSE {p \in People : ~InFlight(p)}]]
  BY DEF FetchFriends
<1>2. PICK F : F = IF failed THEN {} ELSE {p \in People : rel[p] = "friend"}
  OBVIOUS
<1>3. PICK S : S = IF failed \/ \E u \in Syncs : Runs(u) THEN {}
                              ELSE {p \in People : ~InFlight(p)}
  OBVIOUS
<1>4. sync' = [t \in Syncs |-> IF t # s THEN [sync[t] EXCEPT !.sound = {}]
                ELSE [sync[s] EXCEPT !.stage = "friends", !.friends = F, !.sound = S]]
  BY <1>1, <1>2, <1>3
<1>5. \A t \in Syncs \ {s} : SameWork(t) /\ sync'[t].sound = {}
  BY <1>4 DEF TypeOK, Sync, SameWork
<1>6. /\ sync'[s].stage = "friends" /\ sync'[s].friends = F /\ sync'[s].sound = S
      /\ sync'[s].asked = sync[s].asked /\ sync'[s].gone = sync[s].gone
      /\ sync'[s].requests = sync[s].requests
  BY <1>4 DEF TypeOK, Sync
<1>7. \A p \in S : /\ p \in People /\ ~InFlight(p) /\ ~failed /\ \A u \in Syncs : ~Runs(u)
  BY <1>3
<1>8. \A p \in F : p \in People /\ rel[p] = "friend"
  BY <1>2
<1>9. \A p \in S : rel[p] = "friend" => p \in F
  BY <1>2, <1>7
<1> QED
  BY <1>5, <1>6, <1>7, <1>8, <1>9 DEF FetchFriends

LEMMA UpsertFriendDoes ==
    ASSUME TypeOK, NEW s \in Syncs, NEW p \in People, UpsertFriend(s, p)
    PROVE  /\ \A t \in Syncs \ {s} : sync'[t] = sync[t]
           /\ sync'[s].stage = sync[s].stage /\ sync'[s].friends = sync[s].friends \ {p}
           /\ sync'[s].asked = sync[s].asked /\ sync'[s].gone = sync[s].gone
           /\ sync'[s].requests = sync[s].requests /\ sync'[s].sound = sync[s].sound
  BY DEF UpsertFriend, TypeOK, Sync

LEMMA FetchRequestsDoes ==
    ASSUME TypeOK, NEW s \in Syncs, FetchRequests(s)
    PROVE  /\ \A t \in Syncs \ {s} : sync'[t] = sync[t]
           /\ sync[s].stage = "friends" /\ sync[s].friends = {}
           /\ sync'[s].stage = "list" /\ sync'[s].friends = sync[s].friends
           /\ sync'[s].gone = sync[s].gone /\ sync'[s].requests = sync[s].requests
           /\ sync'[s].sound \in {{}, sync[s].sound}
           /\ \A p \in People : p \in sync'[s].asked => rel[p] = "asking"
           /\ \/ /\ UNCHANGED history
                 /\ \A p \in People : rel[p] = "asking" => p \in sync'[s].asked
              \/ /\ sync'[s].sound = {} /\ Muddle({p \in People : rel[p] = "asking"})
                 /\ UNCHANGED leftover
<1>0. sync[s].stage = "friends" /\ sync[s].friends = {}
  BY DEF FetchRequests
<1>1. CASE /\ sync' = [sync EXCEPT ![s].stage = "list",
                                   ![s].asked = {p \in People : rel[p] = "asking"}]
           /\ UNCHANGED history
  <2>1. PICK A : A = {p \in People : rel[p] = "asking"}
    OBVIOUS
  <2>2. sync' = [sync EXCEPT ![s].stage = "list", ![s].asked = A]
    BY <1>1, <2>1
  <2>3. /\ \A t \in Syncs \ {s} : sync'[t] = sync[t]
        /\ sync'[s].stage = "list" /\ sync'[s].friends = sync[s].friends
        /\ sync'[s].gone = sync[s].gone /\ sync'[s].requests = sync[s].requests
        /\ sync'[s].sound = sync[s].sound /\ sync'[s].asked = A
    BY <2>2 DEF TypeOK, Sync
  <2> QED
    BY <1>0, <1>1, <2>1, <2>3
<1>2. CASE /\ sync' = [sync EXCEPT ![s].stage = "list", ![s].asked = {}, ![s].sound = {}]
           /\ Muddle({p \in People : rel[p] = "asking"})
           /\ UNCHANGED leftover
  <2>1. /\ \A t \in Syncs \ {s} : sync'[t] = sync[t]
        /\ sync'[s].stage = "list" /\ sync'[s].friends = sync[s].friends
        /\ sync'[s].gone = sync[s].gone /\ sync'[s].requests = sync[s].requests
        /\ sync'[s].sound = {} /\ sync'[s].asked = {}
    BY <1>2 DEF TypeOK, Sync
  <2> QED
    BY <1>0, <1>2, <2>1
<1> QED
  BY <1>1, <1>2 DEF FetchRequests

LEMMA ListRequestsDoes ==
    ASSUME TypeOK, NEW s \in Syncs, ListRequests(s)
    PROVE  /\ \A t \in Syncs \ {s} : sync'[t] = sync[t]
           /\ sync[s].stage = "list" /\ sync'[s].stage = "delete"
           /\ sync'[s].friends = sync[s].friends /\ sync'[s].asked = sync[s].asked
           /\ sync'[s].gone = {request[p] : p \in People \ sync[s].asked} \ {0}
           /\ sync'[s].requests = sync[s].requests /\ sync'[s].sound = sync[s].sound
<1>1. PICK G : G = {request[p] : p \in People \ sync[s].asked} \ {0}
  OBVIOUS
<1>2. sync' = [sync EXCEPT ![s].stage = "delete", ![s].gone = G]
  BY <1>1 DEF ListRequests
<1>3. /\ \A t \in Syncs \ {s} : sync'[t] = sync[t]
      /\ sync'[s].stage = "delete"
      /\ sync'[s].friends = sync[s].friends /\ sync'[s].asked = sync[s].asked
      /\ sync'[s].gone = G
      /\ sync'[s].requests = sync[s].requests /\ sync'[s].sound = sync[s].sound
  BY <1>2 DEF TypeOK, Sync
<1> QED
  BY <1>1, <1>3 DEF ListRequests

LEMMA DeleteRequestsDoes ==
    ASSUME TypeOK, NEW s \in Syncs, DeleteRequests(s)
    PROVE  /\ \A t \in Syncs \ {s} : sync'[t] = sync[t]
           /\ sync[s].stage = "delete" /\ sync'[s].stage = "add"
           /\ sync'[s].friends = sync[s].friends /\ sync'[s].asked = sync[s].asked
           /\ sync'[s].gone = {} /\ sync'[s].requests = sync[s].asked
           /\ sync'[s].sound = sync[s].sound
           /\ \A p \in People : request'[p] = IF request[p] \in sync[s].gone THEN 0 ELSE request[p]
<1>1. /\ \A t \in Syncs \ {s} : sync'[t] = sync[t]
      /\ sync'[s].stage = "add"
      /\ sync'[s].friends = sync[s].friends /\ sync'[s].asked = sync[s].asked
      /\ sync'[s].gone = {} /\ sync'[s].requests = sync[s].asked
      /\ sync'[s].sound = sync[s].sound
  BY DEF DeleteRequests, TypeOK, Sync
<1> QED
  BY <1>1, WithoutDoes DEF DeleteRequests

LEMMA UpsertAskedDoes ==
    ASSUME TypeOK, NEW s \in Syncs, NEW p \in People, UpsertAsked(s, p)
    PROVE  /\ \A t \in Syncs \ {s} : sync'[t] = sync[t]
           /\ sync'[s].stage = sync[s].stage /\ sync'[s].friends = sync[s].friends
           /\ sync'[s].asked = sync[s].asked /\ sync'[s].gone = sync[s].gone
           /\ sync'[s].requests = sync[s].requests \ {p} /\ sync'[s].sound = sync[s].sound
  BY DEF UpsertAsked, TypeOK, Sync

LEMMA SyncEndsDoes ==
    ASSUME TypeOK, NEW s \in Syncs, SyncEnds(s)
    PROVE  /\ \A t \in Syncs \ {s} : sync'[t] = sync[t]
           /\ sync[s].stage = "add" /\ sync[s].requests = {}
           /\ sync'[s].stage = "done" /\ sync'[s].friends = sync[s].friends
           /\ sync'[s].requests = sync[s].requests /\ sync'[s].sound = {}
  BY DEF SyncEnds, TypeOK, Sync

LEMMA SyncFailsDoes ==
    ASSUME TypeOK, NEW s \in Syncs, SyncFails(s)
    PROVE  /\ \A t \in Syncs \ {s} : sync'[t] = sync[t]
           /\ sync[s].stage \notin {"idle", "done"} /\ sync'[s].stage = "done"
           /\ sync'[s].friends \subseteq sync[s].friends
           /\ sync'[s].requests \subseteq sync[s].requests /\ sync'[s].sound = {}
<1>1. PICK F, R :
         /\ F \subseteq sync[s].friends /\ R \subseteq sync[s].requests
         /\ sync' = [sync EXCEPT ![s] = [stage |-> "done", friends |-> F, asked |-> {},
                                         gone |-> {}, requests |-> R, sound |-> {}]]
  BY DEF SyncFails
<1> QED
  BY <1>1 DEF SyncFails, TypeOK

LEMMA StagesStep ==
    ASSUME TypeOK, StagesInv, [Next]_vars
    PROVE  StagesInv'
<1>1. CASE \/ \E p \in People : Change(p)
           \/ \E c \in calls : CallZalo(c) \/ CallOffline(c)
  <2>1. PICK p : sync' = Doubt(p)
    BY <1>1 DEF Change, CallZalo, CallOffline
  <2> QED
    BY <2>1, DoubtDoes DEF StagesInv, SameWork
<1>2. CASE Crash
  BY <1>2 DEF Crash, StagesInv, TypeOK
<1>3. CASE UNCHANGED sync
  BY <1>3 DEF StagesInv
<1>4. CASE \E s \in Syncs : Synchronise(s)
  <2> PICK s \in Syncs : Synchronise(s)
    BY <1>4
  <2>1. CASE FetchFriends(s)
    BY <2>1, FetchFriendsDoes DEF StagesInv, SameWork
  <2>2. CASE FetchRequests(s)
    BY <2>2, FetchRequestsDoes DEF StagesInv
  <2>3. CASE ListRequests(s) \/ DeleteRequests(s)
    BY <2>3, ListRequestsDoes, DeleteRequestsDoes DEF StagesInv
  <2>4. CASE SyncEnds(s) \/ SyncFails(s)
    BY <2>4, SyncEndsDoes, SyncFailsDoes DEF StagesInv
  <2>5. CASE \E p \in People : UpsertFriend(s, p) \/ UpsertAsked(s, p)
    BY <2>5, UpsertFriendDoes, UpsertAskedDoes DEF StagesInv
  <2> QED
    BY <2>1, <2>2, <2>3, <2>4, <2>5 DEF Synchronise
<1>5. CASE \/ Switch \/ UNCHANGED vars
           \/ \E e \in events : Handle(e)
           \/ \E o \in Calls, p \in People : Begin(o, p)
           \/ \E c \in calls : CallIsIdle(c) \/ CallFails(c) \/ Accept(c) \/ Decline(c) \/ Remove(c)
  <2>1. UNCHANGED sync
    BY <1>5 DEF Switch, vars, server, Handle, FriendAdd, FriendRemove, FriendRequest, RequestCancel,
       DeleteRequest, HandlerFails, Begin, CallIsIdle, CallFails, Accept, Decline, Remove
  <2> QED
    BY <1>3, <2>1
<1> QED
  BY <1>1, <1>2, <1>4, <1>5 DEF Next, Proceed

-----------------------------------------------------------------------------
(* Steady persons                                                          *)

\* Nothing of what is known of p changes; a call that was not answered may begin or end.
Undisturbed(p) ==
    /\ rel'[p] = rel[p] /\ request'[p] = request[p]
    /\ p \in isFriend' <=> p \in isFriend
    /\ \A e \in events \cup events' : e.person = p => e \in events /\ e \in events'
    /\ \A c \in calls' : c.person = p /\ c.called => c \in calls
    /\ p \in leftover => p \in leftover'

LEMMA OthersSteady ==
    ASSUME NEW p \in People, Steady(p), Undisturbed(p), \A s \in Syncs : SameWork(s)
    PROVE  Steady(p)'
<1>1. EventsFit(p)'
  BY DEF Steady, Undisturbed, EventsFit
<1>2. CallsFit(p)'
  BY DEF Steady, Undisturbed, CallsFit
<1>3. RowsFit(p)'
  BY DEF Steady, Undisturbed, RowsFit
<1>4. \A s \in Syncs : SyncFits(s, p)'
  BY DEF Steady, Undisturbed, SyncFits, SameWork
<1> QED
  BY <1>1, <1>2, <1>3, <1>4 DEF Steady

LEMMA OthersSound ==
    ASSUME NEW s \in Syncs, NEW p \in People, Sound(s, p), Undisturbed(p),
           \A t \in Syncs : SameWork(t)
    PROVE  Sound(s, p)'
<1>1. \A t \in Syncs \ {s} : ~Runs(t)'
  BY DEF Sound, Runs, SameWork
<1>2. SyncFits(s, p)'
  BY DEF Sound, Undisturbed, SyncFits, SameWork
<1>3. \A e \in events' : e.person # p
  BY DEF Sound, Undisturbed
<1>4. \A c \in calls' : c.person = p /\ c.called =>
         c.kind # "decline" /\ (c.kind = "accept" <=> rel'[p] = "friend")
  BY DEF Sound, Undisturbed
<1>5. /\ rel'[p] = "friend" => p \in isFriend' \/ p \in sync'[s].friends
      /\ sync'[s].stage = "delete" /\ rel'[p] # "asking" => request'[p] \in sync'[s].gone \cup {0}
      /\ sync'[s].stage = "add" =>
            IF rel'[p] = "asking" THEN request'[p] # 0 \/ p \in sync'[s].requests ELSE request'[p] = 0
  BY DEF Sound, Undisturbed, SameWork
<1> QED
  BY <1>1, <1>2, <1>3, <1>4, <1>5 DEF Sound

LEMMA OthersClean ==
    ASSUME NEW p \in People, Undisturbed(p),
           p \in isFriend => rel[p] = "friend" \/ \E e \in events : e.person = p /\ e.kind = "remove"
    PROVE  p \in isFriend' =>
               rel'[p] = "friend" \/ \E e \in events' : e.person = p /\ e.kind = "remove"
  BY DEF Undisturbed

Kept == SteadyInv /\ CleanInv /\ SoundInv

\* Who is disturbed is all that needs care.
LEMMA KeptBut ==
    ASSUME Inv, NEW P, \A p \in People \ P : Undisturbed(p),
           \A s \in Syncs : SameWork(s) /\ sync'[s].sound \subseteq sync[s].sound,
           astray \subseteq astray', muddled \subseteq muddled',
           \A p \in P \cap People :
              /\ p \notin astray' => Steady(p)'
              /\ p \notin muddled' /\ p \in isFriend' =>
                    rel'[p] = "friend" \/ \E e \in events' : e.person = p /\ e.kind = "remove"
              /\ \A s \in Syncs : p \in sync'[s].sound => Sound(s, p)'
    PROVE  Kept'
<1>1. ASSUME NEW p \in People \ astray'
      PROVE  Steady(p)'
  <2>1. CASE p \in P
    BY <2>1
  <2>2. CASE p \notin P
    BY <2>2, OthersSteady DEF Inv, SteadyInv
  <2> QED
    BY <2>1, <2>2
<1>2. ASSUME NEW p \in People \ muddled', p \in isFriend'
      PROVE  rel'[p] = "friend" \/ \E e \in events' : e.person = p /\ e.kind = "remove"
  <2>1. CASE p \in P
    BY <1>2, <2>1
  <2>2. CASE p \notin P
    BY <1>2, <2>2, OthersClean DEF Inv, CleanInv
  <2> QED
    BY <2>1, <2>2
<1>3. ASSUME NEW s \in Syncs, NEW p \in sync'[s].sound
      PROVE  Sound(s, p)'
  <2>0. p \in People /\ Sound(s, p)
    BY DEF Inv, SoundInv, TypeOK, Sync
  <2>1. CASE p \in P
    BY <2>0, <2>1
  <2>2. CASE p \notin P
    BY <2>0, <2>2, OthersSound
  <2> QED
    BY <2>1, <2>2
<1> QED
  BY <1>1, <1>2, <1>3 DEF Kept, SteadyInv, CleanInv, SoundInv

LEMMA KeptButOne ==
    ASSUME Inv, NEW p \in People, \A q \in People \ {p} : Undisturbed(q),
           \A s \in Syncs : SameWork(s) /\ sync'[s].sound \subseteq sync[s].sound,
           astray \subseteq astray', muddled \subseteq muddled',
           p \notin astray' => Steady(p)',
           p \notin muddled' /\ p \in isFriend' =>
              rel'[p] = "friend" \/ \E e \in events' : e.person = p /\ e.kind = "remove",
           \A s \in Syncs : p \in sync'[s].sound => Sound(s, p)'
    PROVE  Kept'
<1>1. PICK P : P = {p}
  OBVIOUS
<1>2. \A q \in People \ P : Undisturbed(q)
  BY <1>1
<1>3. \A q \in P \cap People :
         /\ q \notin astray' => Steady(q)'
         /\ q \notin muddled' /\ q \in isFriend' =>
               rel'[q] = "friend" \/ \E e \in events' : e.person = q /\ e.kind = "remove"
         /\ \A s \in Syncs : q \in sync'[s].sound => Sound(s, q)'
  BY <1>1
<1> QED
  BY <1>2, <1>3, KeptBut

\* The handlers of events: one's own event is what disturbs one.
LEMMA HandleKeeps ==
    ASSUME Inv, NEW e \in events, Handle(e)
    PROVE  Kept'
<1> DEFINE p == e.person
<1>0. p \in People /\ TypeOK /\ IdsInv /\ request[p] \in Nat
  BY DEF Inv, TypeOK, Event
<1>1. /\ UNCHANGED <<rel, calls, sync, leftover>>
      /\ astray \subseteq astray' /\ muddled \subseteq muddled'
      /\ \A f \in events \cup events' : f.person # p => f \in events /\ f \in events'
  <2>1. CASE RequestCancel(e) /\ request[p] # 0
    <3>1. PICK d : d = [e EXCEPT !.kind = "delete", !.id = request[p]]
      OBVIOUS
    <3>2. d.person = p
      BY <1>0, <3>1 DEF TypeOK, Event
    <3>3. events' = (events \ {e}) \cup {d}
      BY <2>1, <3>1 DEF RequestCancel
    <3> QED
      BY <2>1, <3>2, <3>3 DEF RequestCancel, zalo, rows, server, history
  <2>2. CASE ~(RequestCancel(e) /\ request[p] # 0)
    <3>1. events' = events \ {e}
      BY <2>2 DEF Handle, FriendAdd, FriendRemove, FriendRequest, RequestCancel, DeleteRequest,
         HandlerFails, Handled
    <3>2. /\ UNCHANGED <<rel, calls, sync, leftover>>
          /\ astray \subseteq astray' /\ muddled \subseteq muddled'
      BY DEF Handle, FriendAdd, FriendRemove, FriendRequest, RequestCancel, DeleteRequest,
         HandlerFails, Muddle, zalo, rows, server, history
    <3> QED
      BY <3>1, <3>2
  <2> QED
    BY <2>1, <2>2
<1>2. ASSUME NEW q \in People \ {p}
      PROVE  request'[q] = request[q] /\ (q \in isFriend' <=> q \in isFriend)
  <2>1. CASE FriendAdd(e) \/ FriendRemove(e)
    BY <1>0, <2>1, UpsertContactDoes DEF FriendAdd, FriendRemove
  <2>2. CASE FriendRequest(e)
    BY <1>0, <2>2, UpsertRequestDoes DEF FriendRequest
  <2>3. CASE RequestCancel(e) \/ HandlerFails(e)
    BY <2>3 DEF RequestCancel, HandlerFails, rows
  <2>4. CASE DeleteRequest(e)
    <3>1. request[q] # e.id
      BY <1>0, <2>4 DEF DeleteRequest, IdsInv
    <3> QED
      BY <1>0, <2>4, <3>1, WithoutDoes DEF DeleteRequest
  <2> QED
    BY <2>1, <2>2, <2>3, <2>4 DEF Handle
<1>3. \A q \in People \ {p} : Undisturbed(q)
  BY <1>1, <1>2 DEF Undisturbed
<1>4. \A s \in Syncs : SameWork(s) /\ sync'[s].sound = sync[s].sound /\ p \notin sync'[s].sound
  BY <1>1 DEF SameWork, Inv, SoundInv, Sound
<1>5. ASSUME p \notin astray'
      PROVE  Steady(p)'
  <2>0. ~HandlerFails(e)
    BY <1>5 DEF HandlerFails, Muddle
  <2>1. Steady(p)
    BY <1>0, <1>1, <1>5 DEF Inv, SteadyInv
  <2>2. CallsFit(p)'
    BY <1>1, <2>1 DEF Steady, CallsFit
  <2>3. \A f \in events : f.person = p => f = e
    BY <2>1 DEF Steady, EventsFit
  <2>4. CASE FriendAdd(e)
    <3>1. rel[p] = "friend" /\ p \in isFriend' /\ UNCHANGED request /\ events' = events \ {e}
      BY <1>0, <2>1, <2>4, UpsertContactDoes DEF FriendAdd, Steady, EventsFit, Handled
    <3>2. EventsFit(p)' /\ RowsFit(p)'
      BY <1>1, <2>1, <2>3, <2>4, <3>1 DEF FriendAdd, Steady, EventsFit, RowsFit
    <3> QED
      BY <1>1, <2>1, <2>2, <3>1, <3>2 DEF Steady, SyncFits
  <2>5. CASE FriendRemove(e)
    <3>1. rel[p] = "stranger" /\ UNCHANGED request /\ events' = events \ {e}
      BY <1>0, <2>1, <2>5 DEF FriendRemove, Steady, EventsFit, Handled
    <3>2. EventsFit(p)' /\ RowsFit(p)'
      BY <1>1, <2>1, <2>3, <2>5, <3>1 DEF FriendRemove, Steady, EventsFit, RowsFit
    <3> QED
      BY <1>1, <2>1, <2>2, <3>1, <3>2 DEF Steady, SyncFits
  <2>6. CASE FriendRequest(e)
    <3>1. rel[p] = "asking" /\ events' = events \ {e} /\ UpsertRequest(p)
      BY <1>0, <2>1, <2>6 DEF FriendRequest, Steady, EventsFit, Handled
    <3>2. EventsFit(p)' /\ RowsFit(p)'
      BY <1>0, <1>1, <2>1, <2>3, <3>1, UpsertRequestDoes DEF Steady, EventsFit, RowsFit
    <3>3. ASSUME NEW s \in Syncs
          PROVE  request'[p] \in sync[s].gone => request[p] \in sync[s].gone
      <4>1. sync[s].gone \subseteq 1 .. lastId /\ lastId \in Nat
        BY <1>0 DEF TypeOK
      <4> QED
        BY <1>0, <3>1, <4>1, UpsertRequestDoes
    <3> QED
      BY <1>1, <2>1, <2>2, <3>2, <3>3 DEF Steady, SyncFits
  <2>7. CASE RequestCancel(e)
    <3>1. rel[p] = "stranger" /\ UNCHANGED <<request, isFriend>>
      BY <1>0, <2>1, <2>7 DEF RequestCancel, Steady, EventsFit, rows
    <3>2. CASE request[p] = 0
      <4>1. events' = events \ {e}
        BY <2>7, <3>2 DEF RequestCancel
      <4>2. EventsFit(p)' /\ RowsFit(p)'
        BY <1>1, <2>1, <2>3, <3>1, <3>2, <4>1 DEF Steady, EventsFit, RowsFit
      <4> QED
        BY <1>1, <2>1, <2>2, <3>1, <4>2 DEF Steady, SyncFits
    <3>3. CASE request[p] # 0
      <4>1. PICK d : d = [e EXCEPT !.kind = "delete", !.id = request[p]]
        OBVIOUS
      <4>2. d.person = p /\ d.kind = "delete" /\ d.id = request[p]
        BY <1>0, <4>1 DEF TypeOK, Event
      <4>3. events' = (events \ {e}) \cup {d}
        BY <2>7, <3>3, <4>1 DEF RequestCancel
      <4>4. EventsFit(p)' /\ RowsFit(p)'
        BY <1>1, <2>1, <2>3, <3>1, <4>2, <4>3 DEF Steady, EventsFit, RowsFit
      <4> QED
        BY <1>1, <2>1, <2>2, <3>1, <4>4 DEF Steady, SyncFits
    <3> QED
      BY <3>2, <3>3
  <2>8. CASE DeleteRequest(e)
    <3>1. rel[p] = "stranger" /\ UNCHANGED isFriend /\ events' = events \ {e}
      BY <1>0, <2>1, <2>8 DEF DeleteRequest, Steady, EventsFit, Handled
    <3>2. request'[p] = IF request[p] = e.id THEN 0 ELSE request[p]
      BY <1>0, <2>8, WithoutDoes DEF DeleteRequest
    <3>3. EventsFit(p)' /\ RowsFit(p)'
      BY <1>1, <2>1, <2>3, <2>8, <3>1, <3>2 DEF DeleteRequest, Steady, EventsFit, RowsFit
    <3> QED
      BY <1>1, <2>1, <2>2, <3>1, <3>3 DEF Steady, SyncFits
  <2> QED
    BY <2>0, <2>4, <2>5, <2>6, <2>7, <2>8 DEF Handle
<1>6. ASSUME p \notin muddled', p \in isFriend'
      PROVE  rel'[p] = "friend" \/ \E f \in events' : f.person = p /\ f.kind = "remove"
  <2>0. p \notin muddled /\ p \notin astray /\ ~HandlerFails(e)
    BY <1>1, <1>6 DEF Inv, TypeOK, HandlerFails, Muddle
  <2>1. EventsFit(p)
    BY <1>0, <2>0 DEF Inv, SteadyInv, Steady
  <2>2. CASE FriendAdd(e)
    BY <1>0, <1>1, <2>1, <2>2 DEF FriendAdd, EventsFit
  <2>3. CASE FriendRemove(e)
    BY <1>6, <2>3 DEF FriendRemove
  <2>4. CASE FriendRequest(e) \/ RequestCancel(e) \/ DeleteRequest(e)
    <3>1. p \in isFriend /\ e.kind # "remove" /\ \A f \in events : f.person = p => f = e
      BY <1>6, <2>1, <2>4 DEF FriendRequest, RequestCancel, DeleteRequest, EventsFit, rows
    <3> QED
      BY <1>0, <1>1, <2>0, <3>1 DEF Inv, CleanInv
  <2> QED
    BY <2>0, <2>2, <2>3, <2>4 DEF Handle
<1> QED
  BY <1>0, <1>1, <1>3, <1>4, <1>5, <1>6, KeptButOne

\* A change: with anything else under way it leads astray; else its one event will tell.
LEMMA BecomesKeeps ==
    ASSUME Inv, NEW p \in People, NEW r, NEW kind, NEW others \in SUBSET calls,
           Becomes(p, r, kind, others), sync' = Doubt(p), UNCHANGED <<isFriend, request>>,
           \/ r = "asking" /\ kind = "request" /\ rel[p] = "stranger"
           \/ r = "stranger" /\ kind = "cancel" /\ rel[p] = "asking"
           \/ r = "friend" /\ kind = "add" /\ rel[p] \in {"stranger", "asking"}
           \/ r = "stranger" /\ kind = "remove" /\ rel[p] = "friend",
           \A c \in calls' :
              \/ c \in others
              \/ /\ c.person = p
                 /\ c.kind = "accept" => r = "friend"
                 /\ c.kind = "decline" => r = "stranger"
                 /\ c.kind = "remove" => r # "friend"
    PROVE  Kept'
<1>0. TypeOK
  BY DEF Inv
<1>1. /\ rel' = [rel EXCEPT ![p] = r] /\ leftover \subseteq leftover'
      /\ astray \subseteq astray' /\ muddled \subseteq muddled'
      /\ r = "friend" /\ request[p] # 0 => p \in leftover'
  BY DEF Becomes, Muddle
<1>2. PICK d : /\ d.kind = kind /\ d.person = p
               /\ events' = events \/ events' = events \cup {d}
               /\ online => events' = events \cup {d}
  <2>1. PICK d : d = [n |-> changes + 1, kind |-> kind, person |-> p, id |-> 0]
    OBVIOUS
  <2>2. d.kind = kind /\ d.person = p
    BY <2>1
  <2>3. events' = IF online THEN events \cup {d} ELSE events
    BY <2>1 DEF Becomes
  <2> QED
    BY <2>2, <2>3
<1>3. \A q \in People \ {p} : Undisturbed(q)
  <2> SUFFICES ASSUME NEW q \in People \ {p}
               PROVE  Undisturbed(q)
    OBVIOUS
  <2>1. rel'[q] = rel[q]
    BY <1>0, <1>1 DEF TypeOK
  <2> QED
    BY <1>1, <1>2, <2>1 DEF Undisturbed
<1>4. \A s \in Syncs : SameWork(s) /\ sync'[s].sound \subseteq sync[s].sound /\ p \notin sync'[s].sound
  BY <1>0, DoubtDoes
<1>5. ASSUME p \notin astray'
      PROVE  Steady(p)'
  <2>1. /\ online /\ \A e \in events : e.person # p
        /\ \A c \in others : c.person # p
        /\ \A s \in Syncs : ~Runs(s)
    BY <1>5 DEF Becomes, Muddle
  <2>2. rel'[p] = r /\ events' = events \cup {d}
    BY <1>0, <1>1, <1>2, <2>1 DEF TypeOK
  <2>3. EventsFit(p)'
    BY <1>2, <2>1, <2>2 DEF EventsFit
  <2>4. CallsFit(p)'
    BY <2>1, <2>2 DEF CallsFit
  <2>5. RowsFit(p)'
    <3>1. Steady(p)
      BY <1>1, <1>5 DEF Inv, SteadyInv
    <3> QED
      BY <1>1, <1>2, <2>1, <2>2, <3>1 DEF Steady, RowsFit
  <2>6. \A s \in Syncs : SyncFits(s, p)'
    BY <1>4, <2>1 DEF Runs, SyncFits, SameWork
  <2> QED
    BY <2>3, <2>4, <2>5, <2>6 DEF Steady
<1>6. ASSUME p \notin muddled', p \in isFriend'
      PROVE  rel'[p] = "friend" \/ \E e \in events' : e.person = p /\ e.kind = "remove"
  <2>1. p \notin muddled /\ online /\ p \in isFriend /\ \A e \in events : e.person # p
    BY <1>6 DEF Becomes, Muddle
  <2>2. rel[p] = "friend"
    BY <2>1 DEF Inv, CleanInv
  <2> QED
    BY <1>2, <2>1, <2>2
<1> QED
  BY <1>1, <1>3, <1>4, <1>5, <1>6, KeptButOne

\* A call of Zalo that changes nothing, or whose end changes nothing.
LEMMA CallsStay ==
    ASSUME Inv, NEW p \in People, UNCHANGED <<rel, events, sync, isFriend, request, history>>,
           \A c \in calls' :
              \/ c \in calls \/ ~c.called
              \/ /\ c.person = p /\ c.kind # "decline"
                 /\ c.kind = "accept" <=> rel[p] = "friend"
    PROVE  Kept'
<1>0. TypeOK
  BY DEF Inv
<1>1. \A q \in People \ {p} : Undisturbed(q)
  BY DEF Undisturbed, history
<1>2. \A s \in Syncs : SameWork(s) /\ sync'[s].sound = sync[s].sound
  BY DEF SameWork
<1>3. ASSUME NEW c \in calls', c.person = p, c.called, c \notin calls
      PROVE  c.kind # "decline" /\ (c.kind = "accept" <=> rel[p] = "friend")
  BY <1>3
<1>4. ASSUME p \notin astray'
      PROVE  Steady(p)'
  <2>1. Steady(p)
    BY <1>4 DEF Inv, SteadyInv, history
  <2>2. CallsFit(p)'
    BY <1>3, <2>1 DEF Steady, CallsFit
  <2> QED
    BY <2>1, <2>2 DEF Steady, EventsFit, RowsFit, SyncFits, history
<1>5. ASSUME NEW s \in Syncs, p \in sync'[s].sound
      PROVE  Sound(s, p)'
  <2>1. Sound(s, p)
    BY <1>5 DEF Inv, SoundInv
  <2>2. \A c \in calls' : c.person = p /\ c.called =>
           c.kind # "decline" /\ (c.kind = "accept" <=> rel'[p] = "friend")
    BY <1>3, <2>1 DEF Sound
  <2> QED
    BY <2>1, <2>2 DEF Sound, SyncFits, Runs
<1>6. p \notin muddled' /\ p \in isFriend' =>
         rel'[p] = "friend" \/ \E e \in events' : e.person = p /\ e.kind = "remove"
  BY DEF Inv, CleanInv, history
<1> QED
  BY <1>1, <1>2, <1>4, <1>5, <1>6, KeptButOne DEF history

\* A call that begins, goes to Zalo or comes back.
LEMMA AsksKeep ==
    ASSUME Inv, \/ \E o \in Calls, p \in People : Begin(o, p)
                \/ \E c \in calls : CallZalo(c) \/ CallIsIdle(c) \/ CallOffline(c) \/ CallFails(c)
    PROVE  Kept'
<1>0. TypeOK
  BY DEF Inv
<1>1. CASE \E o \in Calls, p \in People : Begin(o, p)
  <2> PICK o \in Calls, p \in People : Begin(o, p)
    BY <1>1
  <2>1. UNCHANGED <<rel, events, sync, isFriend, request, history>>
    BY DEF Begin, zalo, rows
  <2>2. \A c \in calls' : c \in calls \/ ~c.called
    BY DEF Begin
  <2> QED
    BY <2>1, <2>2, CallsStay
<1>2. CASE \E c \in calls : CallZalo(c) \/ CallIsIdle(c) \/ CallOffline(c) \/ CallFails(c)
  <2> PICK c \in calls : CallZalo(c) \/ CallIsIdle(c) \/ CallOffline(c) \/ CallFails(c)
    BY <1>2
  <2>0. PICK p \in People : p = c.person
    BY <1>0 DEF TypeOK, Call
  <2>1. CASE CallZalo(c)
    <3>1. PICK others \in SUBSET calls : others = calls \ {c}
      OBVIOUS
    <3>2. \A d \in calls' : d \in others \/ (d.kind = c.kind /\ d.person = p)
      BY <1>0, <2>0, <2>1, <3>1, AnsweredSame DEF CallZalo
    <3>3. sync' = Doubt(p) /\ UNCHANGED <<isFriend, request>>
      BY <2>0, <2>1 DEF CallZalo
    <3>4. CASE /\ c.kind = "accept" /\ rel[p] = "asking"
               /\ Becomes(p, "friend", "add", others)
      BY <3>2, <3>3, <3>4, BecomesKeeps
    <3>5. CASE /\ c.kind = "decline" /\ rel[p] = "asking"
               /\ Becomes(p, "stranger", "cancel", others)
      BY <3>2, <3>3, <3>5, BecomesKeeps
    <3>6. CASE /\ c.kind = "remove" /\ rel[p] = "friend"
               /\ Becomes(p, "stranger", "remove", others)
      BY <3>2, <3>3, <3>6, BecomesKeeps
    <3> QED
      BY <2>0, <2>1, <3>1, <3>4, <3>5, <3>6 DEF CallZalo
  <2>2. CASE CallIsIdle(c)
    <3>1. UNCHANGED <<rel, events, sync, isFriend, request, history>>
      BY <2>2 DEF CallIsIdle, zalo, rows
    <3>2. c.kind # "decline" /\ (c.kind = "accept" <=> rel[p] = "friend")
      BY <2>0, <2>2 DEF CallIsIdle
    <3>3. \A d \in calls' : d \in calls \/ (d.kind = c.kind /\ d.person = p)
      BY <1>0, <2>0, <2>2, AnsweredSame DEF CallIsIdle
    <3> QED
      BY <3>1, <3>2, <3>3, CallsStay
  <2>3. CASE CallOffline(c)
    <3>1. /\ UNCHANGED <<rel, events, isFriend, request, leftover>> /\ sync' = Doubt(p)
          /\ astray' = astray \cup {p} /\ muddled' = muddled \cup {p}
      BY <2>0, <2>3 DEF CallOffline, zalo, rows, Muddle
    <3>2. \A d \in calls' : d \in calls \/ d.person = p
      BY <1>0, <2>0, <2>3, AnsweredSame DEF CallOffline
    <3>3. \A q \in People \ {p} : Undisturbed(q)
      BY <3>1, <3>2 DEF Undisturbed
    <3>4. \A s \in Syncs : SameWork(s) /\ sync'[s].sound \subseteq sync[s].sound /\ p \notin sync'[s].sound
      BY <1>0, <3>1, DoubtDoes
    <3> QED
      BY <3>1, <3>3, <3>4, KeptButOne
  <2>4. CASE CallFails(c)
    <3>1. UNCHANGED <<rel, events, sync, isFriend, request, history>> /\ calls' \subseteq calls
      BY <2>4 DEF CallFails, zalo, rows
    <3> QED
      BY <2>0, <3>1, CallsStay
  <2> QED
    BY <2>1, <2>2, <2>3, <2>4
<1> QED
  BY <1>1, <1>2

\* The rows that a call writes are what Zalo answered.
LEMMA WritesKeep ==
    ASSUME Inv, NEW c \in calls, Accept(c) \/ Decline(c) \/ Remove(c)
    PROVE  Kept'
<1>0. TypeOK /\ IdsInv
  BY DEF Inv
<1>1. PICK p \in People : p = c.person
  BY <1>0 DEF TypeOK, Call
<1>2. /\ UNCHANGED <<rel, events, sync, history>> /\ calls' = calls \ {c} /\ c.called
      /\ c.kind \in {"accept", "decline", "remove"}
  BY <1>0 DEF Accept, Decline, Remove, zalo, TypeOK, Call
<1>3. /\ \A q \in People \ {p} : request'[q] = request[q] /\ (q \in isFriend' <=> q \in isFriend)
      /\ request'[p] \in {request[p], 0}
      /\ c.kind = "remove" => request'[p] = request[p]
      /\ c.kind = "accept" => (p \in isFriend => p \in isFriend')
      /\ c.kind = "decline" => isFriend' = isFriend
      /\ c.kind = "remove" => (p \in isFriend' => p \in isFriend)
  <2>1. CASE Accept(c) /\ contact[p] = 0 /\ request[p] = c.id
    <3>1. UpsertContact(p) /\ request' = Without({c.id}) /\ c.kind = "accept"
      BY <1>1, <2>1 DEF Accept
    <3>2. \A q \in People \ {p} : request[q] # c.id
      BY <1>0, <1>1, <3>1 DEF IdsInv
    <3> QED
      BY <1>0, <3>1, <3>2, UpsertContactDoes, WithoutDoes
  <2>2. CASE Accept(c) /\ ~(contact[p] = 0 /\ request[p] = c.id)
    BY <1>1, <2>2 DEF Accept, rows
  <2>3. CASE Decline(c)
    <3>1. request' = Without({c.id}) /\ c.kind = "decline" /\ UNCHANGED isFriend
      BY <2>3 DEF Decline
    <3>2. \A q \in People \ {p} : request[q] # c.id
      BY <1>0, <1>1, <3>1 DEF IdsInv
    <3> QED
      BY <1>0, <3>1, <3>2, WithoutDoes
  <2>4. CASE Remove(c)
    BY <1>1, <2>4 DEF Remove
  <2> QED
    BY <2>1, <2>2, <2>3, <2>4
<1>4. \A q \in People \ {p} : Undisturbed(q)
  BY <1>2, <1>3 DEF Undisturbed, history
<1>5. \A s \in Syncs : SameWork(s) /\ sync'[s].sound \subseteq sync[s].sound
  BY <1>2 DEF SameWork
<1>6. ASSUME p \notin astray'
      PROVE  Steady(p)'
  <2>1. Steady(p)
    BY <1>2, <1>6 DEF Inv, SteadyInv, history
  <2>2. /\ c.kind = "accept" => rel[p] = "friend"
        /\ c.kind = "decline" => rel[p] = "stranger"
        /\ c.kind = "remove" => rel[p] # "friend"
    BY <1>1, <1>2, <2>1 DEF Steady, CallsFit
  <2>3. EventsFit(p)' /\ CallsFit(p)'
    BY <1>2, <2>1 DEF Steady, EventsFit, CallsFit
  <2>4. RowsFit(p)'
    BY <1>2, <1>3, <2>1, <2>2 DEF Steady, RowsFit, history
  <2>5. \A s \in Syncs : SyncFits(s, p)'
    BY <1>2, <1>3, <2>1, <2>2 DEF Steady, SyncFits
  <2> QED
    BY <2>3, <2>4, <2>5 DEF Steady
<1>7. ASSUME p \notin muddled', p \in isFriend'
      PROVE  rel'[p] = "friend" \/ \E e \in events' : e.person = p /\ e.kind = "remove"
  <2>1. p \notin muddled /\ p \notin astray
    BY <1>0, <1>2, <1>7 DEF TypeOK, history
  <2>2. c.kind = "accept" => rel[p] = "friend"
    BY <1>1, <1>2, <2>1 DEF Inv, SteadyInv, Steady, CallsFit
  <2> QED
    BY <1>2, <1>3, <1>7, <2>1, <2>2 DEF Inv, CleanInv
<1>8. ASSUME NEW s \in Syncs, p \in sync'[s].sound
      PROVE  Sound(s, p)'
  <2>1. Sound(s, p)
    BY <1>2, <1>8 DEF Inv, SoundInv
  <2>2. c.kind # "decline" /\ (c.kind = "accept" <=> rel[p] = "friend")
    BY <1>1, <1>2, <2>1 DEF Sound
  <2>3. SyncFits(s, p)'
    BY <1>2, <1>3, <2>1, <2>2 DEF Sound, SyncFits
  <2>4. \A t \in Syncs \ {s} : ~Runs(t)'
    BY <1>2, <2>1 DEF Sound, Runs
  <2>5. /\ rel'[p] = "friend" => p \in isFriend' \/ p \in sync'[s].friends
        /\ sync'[s].stage = "delete" /\ rel'[p] # "asking" => request'[p] \in sync'[s].gone \cup {0}
        /\ sync'[s].stage = "add" =>
              IF rel'[p] = "asking" THEN request'[p] # 0 \/ p \in sync'[s].requests
              ELSE request'[p] = 0
    BY <1>2, <1>3, <2>1, <2>2 DEF Sound
  <2> QED
    BY <1>2, <2>1, <2>3, <2>4, <2>5 DEF Sound
<1> QED
  BY <1>2, <1>4, <1>5, <1>6, <1>7, <1>8, KeptButOne DEF history

\* A sync that can vouch for anybody is the only one that runs.
LEMMA RunsAlone ==
    ASSUME Inv, NEW s \in Syncs, Runs(s), NEW u \in Syncs, NEW p \in sync[u].sound
    PROVE  u = s
  BY DEF Inv, SoundInv, Sound

\* A step of one sync, seen from each person: what it knows fits them, and a person it
\* can vouch for is as far as the sync is.
LEMMA KeptBySync ==
    ASSUME Inv, NEW s \in Syncs, UNCHANGED <<rel, events, calls>>,
           \A t \in Syncs \ {s} : SameWork(t),
           \A t \in Syncs \ {s} : sync'[t].sound = {} \/ (Runs(s) /\ sync'[t].sound = sync[t].sound),
           astray \ sync[s].sound \subseteq astray', muddled \subseteq muddled',
           \A p \in People \ astray' : p \notin astray =>
              /\ RowsFit(p)' /\ SyncFits(s, p)'
              /\ \A t \in Syncs \ {s} : rel[p] = "asking" /\ request'[p] \in sync[t].gone
                                           => request[p] \in sync[t].gone,
           \A p \in People \ astray' : p \in astray => Steady(p)',
           \A p \in People \ muddled' : p \in isFriend' /\ p \notin isFriend => rel[p] = "friend",
           \A p \in sync'[s].sound : Sound(s, p)'
    PROVE  Kept'
<1>1. ASSUME NEW p \in People \ astray'
      PROVE  Steady(p)'
  <2>1. CASE p \in astray
    BY <2>1
  <2>2. CASE p \notin astray
    <3>1. Steady(p)
      BY <2>2 DEF Inv, SteadyInv
    <3>2. EventsFit(p)' /\ CallsFit(p)'
      BY <3>1 DEF Steady, EventsFit, CallsFit
    <3>3. \A t \in Syncs \ {s} : SyncFits(t, p)'
      BY <2>2, <3>1 DEF Steady, SyncFits, SameWork
    <3> QED
      BY <2>2, <3>2, <3>3 DEF Steady
  <2> QED
    BY <2>1, <2>2
<1>2. CleanInv'
  BY DEF Inv, CleanInv
<1>3. ASSUME NEW u \in Syncs, NEW p \in sync'[u].sound
      PROVE  Sound(u, p)'
  <2>1. u = s
    BY RunsAlone
  <2> QED
    BY <2>1
<1> QED
  BY <1>1, <1>2, <1>3 DEF Kept, SteadyInv, SoundInv

LEMMA UpsertFriendKeeps ==
    ASSUME Inv, NEW s \in Syncs, NEW p \in People, UpsertFriend(s, p)
    PROVE  Kept'
<1>0. TypeOK /\ UNCHANGED <<rel, events, calls, request, history>> /\ p \in sync[s].friends
  BY DEF Inv, UpsertFriend, zalo
<1>1. isFriend' = isFriend \cup {p}
  BY <1>0, UpsertContactDoes DEF UpsertFriend
<1>2. Runs(s)
  BY <1>0 DEF Runs
<1>3. \A q \in People \ astray' : RowsFit(q)' /\ SyncFits(s, q)'
  BY <1>0, <1>1, UpsertFriendDoes DEF Inv, SteadyInv, Steady, RowsFit, SyncFits, history
<1>4. \A q \in People \ muddled' : q \in isFriend' /\ q \notin isFriend => rel[q] = "friend"
  <2>1. p \notin muddled => rel[p] = "friend"
    BY <1>0 DEF Inv, TypeOK, SteadyInv, Steady, SyncFits
  <2> QED
    BY <1>0, <1>1, <2>1 DEF history
<1>5. ASSUME NEW q \in sync'[s].sound
      PROVE  Sound(s, q)'
  <2>1. Sound(s, q)
    BY <1>0, UpsertFriendDoes DEF Inv, SoundInv
  <2>2. \A t \in Syncs \ {s} : ~Runs(t)'
    BY <1>0, <2>1, UpsertFriendDoes DEF Sound, Runs
  <2>3. SyncFits(s, q)'
    BY <1>0, <2>1, UpsertFriendDoes DEF Sound, SyncFits
  <2> QED
    BY <1>0, <1>1, <2>1, <2>2, <2>3, UpsertFriendDoes DEF Sound
<1>6. \A t \in Syncs \ {s} : SameWork(t) /\ sync'[t].sound = sync[t].sound
  BY <1>0, UpsertFriendDoes DEF SameWork
<1> QED
  BY <1>0, <1>2, <1>3, <1>4, <1>5, <1>6, KeptBySync DEF history

LEMMA UpsertAskedKeeps ==
    ASSUME Inv, NEW s \in Syncs, NEW p \in People, UpsertAsked(s, p)
    PROVE  Kept'
<1>0. TypeOK /\ UNCHANGED <<rel, events, calls, isFriend, history>> /\ p \in sync[s].requests
  BY DEF Inv, UpsertAsked, zalo
<1>1. /\ request'[p] # 0 /\ request'[p] \in {request[p], lastId + 1}
      /\ request[p] # 0 => request'[p] = request[p]
      /\ \A q \in People \ {p} : request'[q] = request[q]
  BY <1>0, UpsertRequestDoes DEF UpsertAsked
<1>2. Runs(s)
  BY <1>0 DEF Runs
<1>3. \A t \in Syncs : sync[t].gone \subseteq 1 .. lastId /\ lastId \in Nat
  BY <1>0 DEF TypeOK
<1>4. \A q \in People, t \in Syncs : request'[q] \in sync[t].gone => request[q] \in sync[t].gone
  BY <1>1, <1>3
<1>5. \A q \in People \ astray' : RowsFit(q)' /\ SyncFits(s, q)'
  <2> SUFFICES ASSUME NEW q \in People \ astray'
               PROVE  RowsFit(q)' /\ SyncFits(s, q)'
    OBVIOUS
  <2>1. Steady(q)
    BY <1>0 DEF Inv, SteadyInv, history
  <2>2. q = p => rel[q] = "asking"
    BY <1>0, <2>1 DEF Steady, SyncFits
  <2>3. RowsFit(q)'
    BY <1>0, <1>1, <2>1, <2>2 DEF Steady, RowsFit, history
  <2> QED
    BY <1>0, <1>4, <2>1, <2>3, UpsertAskedDoes DEF Steady, SyncFits
<1>6. ASSUME NEW q \in sync'[s].sound
      PROVE  Sound(s, q)'
  <2>0. q \in People /\ Sound(s, q)
    BY <1>0, UpsertAskedDoes DEF Inv, SoundInv, TypeOK, Sync
  <2>1. q = p => rel[q] = "asking"
    BY <1>0, <2>0 DEF Sound, SyncFits
  <2>2. \A t \in Syncs \ {s} : ~Runs(t)'
    BY <1>0, <2>0, UpsertAskedDoes DEF Sound, Runs
  <2>3. SyncFits(s, q)'
    BY <1>0, <1>4, <2>0, UpsertAskedDoes DEF Sound, SyncFits
  <2> QED
    BY <1>0, <1>1, <2>0, <2>1, <2>2, <2>3, UpsertAskedDoes DEF Sound
<1>7. \A t \in Syncs \ {s} : SameWork(t) /\ sync'[t].sound = sync[t].sound
  BY <1>0, UpsertAskedDoes DEF SameWork
<1> QED
  BY <1>0, <1>2, <1>4, <1>5, <1>6, <1>7, KeptBySync DEF history

LEMMA FetchFriendsKeeps ==
    ASSUME Inv, NEW s \in Syncs, FetchFriends(s)
    PROVE  Kept'
<1>0. TypeOK /\ StagesInv /\ UNCHANGED <<rel, events, calls, request, isFriend, history>>
  BY DEF Inv, FetchFriends, zalo, rows
<1>1. \A q \in People \ astray' : RowsFit(q)' /\ SyncFits(s, q)'
  BY <1>0, FetchFriendsDoes DEF Inv, SteadyInv, Steady, RowsFit, SyncFits, history
<1>2. ASSUME NEW q \in sync'[s].sound
      PROVE  Sound(s, q)'
  <2>1. /\ q \in People /\ ~InFlight(q) /\ \A u \in Syncs : ~Runs(u)
        /\ rel[q] = "friend" => q \in sync'[s].friends
    BY <1>0, FetchFriendsDoes
  <2>2. \A t \in Syncs \ {s} : ~Runs(t)'
    BY <1>0, <2>1, FetchFriendsDoes DEF Runs, SameWork
  <2>3. SyncFits(s, q)'
    BY <1>0, <2>1, FetchFriendsDoes DEF SyncFits, Runs
  <2> QED
    BY <1>0, <2>1, <2>2, <2>3, FetchFriendsDoes DEF Sound, InFlight
<1>3. \A t \in Syncs \ {s} : SameWork(t) /\ sync'[t].sound = {}
  BY <1>0, FetchFriendsDoes
<1> QED
  BY <1>0, <1>1, <1>2, <1>3, KeptBySync DEF history

LEMMA FetchRequestsKeeps ==
    ASSUME Inv, NEW s \in Syncs, FetchRequests(s)
    PROVE  Kept'
<1>0. TypeOK /\ StagesInv /\ UNCHANGED <<rel, events, calls, request, isFriend, leftover>>
  BY DEF Inv, FetchRequests, zalo, rows, history
<1>1. /\ Runs(s) /\ astray \subseteq astray' /\ muddled \subseteq muddled'
      /\ \A q \in People \ astray' : q \notin astray /\ (q \in sync'[s].asked <=> rel[q] = "asking")
  BY <1>0, FetchRequestsDoes DEF Runs, Muddle, history
<1>2. \A q \in People \ astray' : RowsFit(q)' /\ SyncFits(s, q)'
  <2> SUFFICES ASSUME NEW q \in People \ astray'
               PROVE  RowsFit(q)' /\ SyncFits(s, q)'
    OBVIOUS
  <2>1. Steady(q) /\ (q \in sync'[s].asked <=> rel[q] = "asking")
    BY <1>1 DEF Inv, SteadyInv
  <2>2. RowsFit(q)'
    BY <1>0, <2>1 DEF Steady, RowsFit
  <2> QED
    BY <1>0, <2>1, <2>2, FetchRequestsDoes DEF Steady, SyncFits
<1>3. ASSUME NEW q \in sync'[s].sound
      PROVE  Sound(s, q)'
  <2>1. q \in People /\ Sound(s, q) /\ (q \in sync'[s].asked <=> rel[q] = "asking")
    BY <1>0, FetchRequestsDoes DEF Inv, SoundInv, TypeOK, Sync
  <2>2. \A t \in Syncs \ {s} : ~Runs(t)'
    BY <1>0, <2>1, FetchRequestsDoes DEF Sound, Runs
  <2>3. SyncFits(s, q)'
    BY <1>0, <2>1, FetchRequestsDoes DEF Sound, SyncFits
  <2> QED
    BY <1>0, <2>1, <2>2, <2>3, FetchRequestsDoes DEF Sound
<1>4. \A t \in Syncs \ {s} : SameWork(t) /\ sync'[t].sound = sync[t].sound
  BY <1>0, FetchRequestsDoes DEF SameWork
<1> QED
  BY <1>0, <1>1, <1>2, <1>3, <1>4, KeptBySync

LEMMA ListRequestsKeeps ==
    ASSUME Inv, NEW s \in Syncs, ListRequests(s)
    PROVE  Kept'
<1>0. TypeOK /\ IdsInv /\ UNCHANGED <<rel, events, calls, request, isFriend, history>>
  BY DEF Inv, ListRequests, zalo, rows
<1>1. Runs(s)
  BY <1>0, ListRequestsDoes DEF Runs
<1>2. ASSUME NEW q \in People, q \in sync[s].asked
      PROVE  request[q] \notin sync'[s].gone
  <2>1. \A p \in People \ sync[s].asked : request[p] = request[q] => request[q] = 0
    BY <1>0, <1>2 DEF IdsInv
  <2> QED
    BY <1>0, <2>1, ListRequestsDoes
<1>3. ASSUME NEW q \in People, q \notin sync[s].asked
      PROVE  request[q] \in sync'[s].gone \cup {0}
  BY <1>0, <1>3, ListRequestsDoes
<1>4. \A q \in People \ astray' : RowsFit(q)' /\ SyncFits(s, q)'
  BY <1>0, <1>2, ListRequestsDoes DEF Inv, SteadyInv, Steady, RowsFit, SyncFits, history
<1>5. ASSUME NEW q \in sync'[s].sound
      PROVE  Sound(s, q)'
  <2>1. q \in People /\ Sound(s, q)
    BY <1>0, ListRequestsDoes DEF Inv, SoundInv, TypeOK, Sync
  <2>2. q \in sync[s].asked <=> rel[q] = "asking"
    BY <1>0, <2>1, ListRequestsDoes DEF Sound, SyncFits
  <2>3. \A t \in Syncs \ {s} : ~Runs(t)'
    BY <1>0, <2>1, ListRequestsDoes DEF Sound, Runs
  <2>4. SyncFits(s, q)'
    BY <1>0, <1>2, <2>1, <2>2, ListRequestsDoes DEF Sound, SyncFits
  <2> QED
    BY <1>0, <1>3, <2>1, <2>2, <2>3, <2>4, ListRequestsDoes DEF Sound
<1>6. \A t \in Syncs \ {s} : SameWork(t) /\ sync'[t].sound = sync[t].sound
  BY <1>0, ListRequestsDoes DEF SameWork
<1> QED
  BY <1>0, <1>1, <1>4, <1>5, <1>6, KeptBySync DEF history

LEMMA DeleteRequestsKeeps ==
    ASSUME Inv, NEW s \in Syncs, DeleteRequests(s)
    PROVE  Kept'
<1>0. /\ TypeOK /\ UNCHANGED <<rel, events, calls, isFriend, history>>
      /\ \A q \in People : request'[q] = IF request[q] \in sync[s].gone THEN 0 ELSE request[q]
  BY DeleteRequestsDoes DEF Inv, DeleteRequests, zalo
<1>1. Runs(s)
  BY <1>0, DeleteRequestsDoes DEF Runs
<1>2. \A q \in People \ astray' : RowsFit(q)' /\ SyncFits(s, q)'
  <2> SUFFICES ASSUME NEW q \in People \ astray'
               PROVE  RowsFit(q)' /\ SyncFits(s, q)'
    OBVIOUS
  <2>1. Steady(q)
    BY <1>0 DEF Inv, SteadyInv, history
  <2>2. rel[q] = "asking" => request'[q] = request[q]
    BY <1>0, <2>1, DeleteRequestsDoes DEF Steady, SyncFits
  <2>3. RowsFit(q)'
    BY <1>0, <2>1, <2>2 DEF Steady, RowsFit, history
  <2> QED
    BY <1>0, <2>1, <2>3, DeleteRequestsDoes DEF Steady, SyncFits
<1>3. ASSUME NEW q \in sync'[s].sound
      PROVE  Sound(s, q)'
  <2>1. q \in People /\ Sound(s, q)
    BY <1>0, DeleteRequestsDoes DEF Inv, SoundInv, TypeOK, Sync
  <2>2. \A t \in Syncs \ {s} : ~Runs(t)'
    BY <1>0, <2>1, DeleteRequestsDoes DEF Sound, Runs
  <2>3. SyncFits(s, q)'
    BY <1>0, <2>1, DeleteRequestsDoes DEF Sound, SyncFits
  <2>4. IF rel[q] = "asking" THEN request'[q] # 0 \/ q \in sync'[s].requests ELSE request'[q] = 0
    BY <1>0, <2>1, DeleteRequestsDoes DEF Sound, SyncFits
  <2> QED
    BY <1>0, <2>1, <2>2, <2>3, <2>4, DeleteRequestsDoes DEF Sound
<1>4. \A t \in Syncs \ {s} : SameWork(t) /\ sync'[t].sound = sync[t].sound
  BY <1>0, DeleteRequestsDoes DEF SameWork
<1>5. \A q \in People, t \in Syncs : rel[q] = "asking" /\ request'[q] \in sync[t].gone
                                        => request[q] \in sync[t].gone
  <2>1. \A t \in Syncs : 0 \notin sync[t].gone
    BY <1>0 DEF TypeOK
  <2> QED
    BY <1>0, <2>1
<1> QED
  BY <1>0, <1>1, <1>2, <1>3, <1>4, <1>5, KeptBySync DEF history

\* The end of a sync puts right whom it can vouch for.
LEMMA SyncEndsKeeps ==
    ASSUME Inv, NEW s \in Syncs, SyncEnds(s)
    PROVE  Kept'
<1>0. /\ TypeOK /\ StagesInv
      /\ UNCHANGED <<rel, events, calls, request, isFriend, muddled>>
      /\ astray' = astray \ sync[s].sound /\ leftover' = leftover \ sync[s].sound
  BY DEF Inv, SyncEnds, zalo, rows
<1>1. Runs(s) /\ sync[s].friends = {}
  BY <1>0, SyncEndsDoes DEF Runs, StagesInv
<1>2. ASSUME NEW q \in sync[s].sound
      PROVE  Steady(q)'
  <2>1. q \in People /\ Sound(s, q)
    BY <1>0 DEF Inv, SoundInv, TypeOK, Sync
  <2>2. EventsFit(q)' /\ CallsFit(q)'
    BY <1>0, <2>1 DEF Sound, EventsFit, CallsFit, TypeOK
  <2>3. RowsFit(q)'
    BY <1>0, <1>1, <2>1, SyncEndsDoes DEF Sound, RowsFit
  <2>4. \A t \in Syncs : SyncFits(t, q)'
    <3>1. SyncFits(s, q)'
      BY <1>0, <1>1, SyncEndsDoes DEF SyncFits
    <3>2. ASSUME NEW t \in Syncs \ {s}
          PROVE  SyncFits(t, q)'
      BY <1>0, <2>1, SyncEndsDoes DEF Sound, Runs, SyncFits
    <3> QED
      BY <3>1, <3>2
  <2> QED
    BY <2>2, <2>3, <2>4 DEF Steady
<1>3. ASSUME NEW q \in People \ astray', q \notin sync[s].sound
      PROVE  RowsFit(q)' /\ SyncFits(s, q)' /\ q \notin astray
  <2>1. Steady(q) /\ (q \in leftover => q \in leftover')
    BY <1>0, <1>3 DEF Inv, SteadyInv
  <2>2. RowsFit(q)'
    BY <1>0, <2>1 DEF Steady, RowsFit
  <2>3. SyncFits(s, q)'
    BY <1>0, <1>1, SyncEndsDoes DEF SyncFits
  <2> QED
    BY <1>0, <1>3, <2>2, <2>3
<1>4. \A t \in Syncs \ {s} : SameWork(t) /\ sync'[t].sound = sync[t].sound
  BY <1>0, SyncEndsDoes DEF SameWork
<1>5. \A q \in People \ astray' :
         /\ q \notin astray => RowsFit(q)' /\ SyncFits(s, q)'
         /\ q \in astray => Steady(q)'
  BY <1>0, <1>2, <1>3 DEF Steady
<1> QED
  BY <1>0, <1>1, <1>4, <1>5, KeptBySync, SyncEndsDoes

LEMMA SyncFailsKeeps ==
    ASSUME Inv, NEW s \in Syncs, SyncFails(s)
    PROVE  Kept'
<1>0. TypeOK /\ UNCHANGED <<rel, events, calls, request, isFriend, history>>
  BY DEF Inv, SyncFails, zalo, rows
<1>1. Runs(s)
  BY <1>0, SyncFailsDoes DEF Runs
<1>2. \A q \in People \ astray' : RowsFit(q)' /\ SyncFits(s, q)'
  BY <1>0, SyncFailsDoes DEF Inv, SteadyInv, Steady, RowsFit, SyncFits, history
<1>3. \A t \in Syncs \ {s} : SameWork(t) /\ sync'[t].sound = sync[t].sound
  BY <1>0, SyncFailsDoes DEF SameWork
<1> QED
  BY <1>0, <1>1, <1>2, <1>3, SyncFailsDoes, KeptBySync DEF history

-----------------------------------------------------------------------------
(* The properties                                                          *)

LEMMA SyncsKeep ==
    ASSUME Inv, NEW s \in Syncs, Synchronise(s)
    PROVE  Kept'
  BY FetchFriendsKeeps, FetchRequestsKeeps, ListRequestsKeeps, DeleteRequestsKeeps,
     SyncEndsKeeps, SyncFailsKeeps, UpsertFriendKeeps, UpsertAskedKeeps DEF Synchronise

\* What dies with the process leads astray; who is steady loses nothing.
LEMMA CrashKeeps ==
    ASSUME Inv, Crash
    PROVE  Kept'
<1>0. /\ TypeOK /\ UNCHANGED <<rel, request, isFriend, leftover>>
      /\ events' = {} /\ calls' = {}
      /\ muddled' = muddled \cup {e.person : e \in events}
      /\ astray' = astray \cup {e.person : e \in events}
  BY DEF Inv, Crash, Muddle, rows
<1>1. ASSUME NEW s \in Syncs
      PROVE  /\ sync'[s].sound = {}
             /\ sync'[s].stage \in {"idle", "done"}
             /\ sync'[s].friends \subseteq sync[s].friends
             /\ sync'[s].requests \subseteq sync[s].requests
  BY DEF Inv, TypeOK, StagesInv, Crash
<1>2. ASSUME NEW p \in People \ astray'
      PROVE  Steady(p)'
  <2>1. Steady(p) /\ \A e \in events : e.person # p
    BY <1>0 DEF Inv, SteadyInv
  <2>2. EventsFit(p)' /\ CallsFit(p)'
    BY <1>0 DEF EventsFit, CallsFit
  <2>3. RowsFit(p)'
    BY <1>0, <2>1 DEF Steady, RowsFit
  <2>4. \A s \in Syncs : SyncFits(s, p)'
    BY <1>0, <1>1, <2>1 DEF Steady, SyncFits
  <2> QED
    BY <2>2, <2>3, <2>4 DEF Steady
<1>3. CleanInv'
  BY <1>0 DEF Inv, CleanInv
<1>4. SoundInv'
  BY <1>1 DEF SoundInv
<1> QED
  BY <1>2, <1>3, <1>4 DEF Kept, SteadyInv

LEMMA InvStep ==
    ASSUME Inv, [Next]_vars
    PROVE  Inv'
<1>1. TypeOK' /\ IdsInv' /\ StagesInv'
  BY TypeStep, IdsStep, StagesStep DEF Inv
<1>2. Kept'
  <2>1. CASE \E p \in People : Change(p)
    <3> PICK p \in People : Change(p)
      BY <2>1
    <3>1. calls \in SUBSET calls /\ calls' = calls /\ sync' = Doubt(p) /\ UNCHANGED <<isFriend, request>>
      BY DEF Change
    <3>2. CASE rel[p] = "stranger" /\ Becomes(p, "asking", "request", calls)
      BY <3>1, <3>2, BecomesKeeps
    <3>3. CASE rel[p] = "asking" /\ Becomes(p, "stranger", "cancel", calls)
      BY <3>1, <3>3, BecomesKeeps
    <3>4. CASE rel[p] \in {"stranger", "asking"} /\ Becomes(p, "friend", "add", calls)
      BY <3>1, <3>4, BecomesKeeps
    <3>5. CASE rel[p] = "friend" /\ Becomes(p, "stranger", "remove", calls)
      BY <3>1, <3>5, BecomesKeeps
    <3> QED
      BY <3>2, <3>3, <3>4, <3>5 DEF Change
  <2>2. CASE Switch \/ UNCHANGED vars
    <3>1. UNCHANGED <<rel, events, calls, sync, request, isFriend, history>>
      BY <2>2 DEF Switch, vars, zalo, rows, server
    <3>2. \A p \in People : Undisturbed(p)
      BY <3>1 DEF Undisturbed, history
    <3>3. \A s \in Syncs : SameWork(s) /\ sync'[s].sound = sync[s].sound
      BY <3>1 DEF SameWork
    <3>4. PICK P : P = {}
      OBVIOUS
    <3> QED
      BY <3>1, <3>2, <3>3, <3>4, KeptBut DEF history
  <2>3. CASE \E c \in calls : Proceed(c)
    BY <2>3, AsksKeep, WritesKeep DEF Proceed
  <2> QED
    BY <2>1, <2>2, <2>3, CrashKeeps, HandleKeeps, AsksKeep, SyncsKeep DEF Next
<1> QED
  BY <1>1, <1>2 DEF Inv, Kept

LEMMA InvInit == Init => Inv
<1> SUFFICES ASSUME Init PROVE Inv
  OBVIOUS
<1>1. TypeOK
  BY TypeInit
<1>2. IdsInv /\ StagesInv /\ CleanInv /\ SoundInv
  BY DEF Init, IdsInv, StagesInv, CleanInv, SoundInv
<1>3. \A p \in People : Steady(p)
  BY DEF Init, Steady, EventsFit, CallsFit, RowsFit, SyncFits
<1> QED
  BY <1>1, <1>2, <1>3 DEF Inv, SteadyInv

THEOREM Invariant == Spec => []Inv
  BY InvInit, InvStep, PTL DEF Spec

\* When nothing is going on Zalo's friends are the database's, for any persons, calls
\* and syncs that overlap as they like: who is not astray is not missing, and who was
\* never muddled is no friend that Zalo does not have.
THEOREM FriendsDoAgree == Spec => []FriendsAgree
<1>1. Inv => FriendsAgree
  BY DEF Inv, TypeOK, SteadyInv, Steady, RowsFit, CleanInv, FriendsAgree, Quiet
<1> QED
  BY <1>1, Invariant, PTL

\* The like of requests: there is a row for each who asks and for nobody else, but for
\* persons astray and for what was left over when somebody became a friend.
THEOREM RequestsDoAgree == Spec => []RequestsAgree
<1>1. Inv => RequestsAgree
  BY DEF Inv, TypeOK, SteadyInv, Steady, RowsFit, RequestsAgree, Quiet
<1> QED
  BY <1>1, Invariant, PTL

=============================================================================
