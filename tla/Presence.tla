------------------------------ MODULE Presence ------------------------------
(***************************************************************************)
(* When was a contact last online: sockets of the console ask for it, and   *)
(* getLastOnline lets all who ask share one call of the Zalo API and its    *)
(* answer, by a cache in Redis and a map of the promises under way.  One    *)
(* contact of one account, and one customer's sockets.                     *)
(*                                                                         *)
(* When the contact was online, and how that is worded, is left out: an     *)
(* answer is "known" or "nothing", which the console shows as offline.      *)
(***************************************************************************)
EXTENDS Naturals

CONSTANTS Sockets,    \* connections of one customer's consoles
          Questions   \* requests under way at a time

\* Bounds: connections, questions, comings and goings of the account, lapses of
\* the cache, and failures of Zalo or Redis.
PresenceDemands ==
    [connects : Nat, questions : Nat, changes : Nat, lapses : Nat, errors : Nat]

VARIABLES
    socket,      \* "gone", "verifying" or "joined", the customer's room
    registered,  \* the account has an API object
    cache,       \* "known" or "empty"
    inflight,    \* lastOnlineInflight: "absent", the stage of the promise that is
                 \* there, or the value that it was resolved to
    question,    \* "none", or the await that the question is in
    answers,     \* what the room was last told
    demands,     \* what may still happen
    unready      \* history: a question found no API object since the process started

presenceVars ==
    <<socket, registered, cache, inflight, question, answers, demands, unready>>

UnderWay == {"asking", "storing"}
Answers == {"known", "nothing"}

PresenceTypeOK ==
    /\ socket \in [Sockets -> {"gone", "verifying", "joined"}]
    /\ registered \in BOOLEAN /\ cache \in {"known", "empty"}
    /\ inflight \in {"absent"} \cup UnderWay \cup Answers
    /\ question \in [Questions -> {"none", "cache", "map", "promise"}]
    /\ answers \in Answers \cup {"none"} /\ unready \in BOOLEAN

PresenceInit ==
    /\ socket = [s \in Sockets |-> "gone"]
    /\ registered = TRUE /\ cache = "empty" /\ inflight = "absent"
    /\ question = [q \in Questions |-> "none"] /\ answers = "none" /\ unready = FALSE

Demand(what) == demands[what] > 0 /\ demands' = [demands EXCEPT ![what] = @ - 1]

-----------------------------------------------------------------------------
(* RealtimeGateway                                                         *)

Connect(s) ==
    /\ socket[s] = "gone" /\ Demand("connects")
    /\ socket' = [socket EXCEPT ![s] = "verifying"]
    /\ UNCHANGED <<registered, cache, inflight, question, answers, unready>>

\* handleConnection after the verification: the socket joins the customer's room,
\* or is disconnected.
Verify(s) ==
    /\ socket[s] = "verifying"
    /\ \E outcome \in {"joined", "gone"} : socket' = [socket EXCEPT ![s] = outcome]
    /\ UNCHANGED <<registered, cache, inflight, question, answers, demands, unready>>

Disconnect(s) ==
    /\ socket[s] # "gone"
    /\ socket' = [socket EXCEPT ![s] = "gone"]
    /\ UNCHANGED <<registered, cache, inflight, question, answers, demands, unready>>

\* handleLastOnlineRequest drops, without an answer, what comes before the token
\* is verified.
AskLastOnline(s, q) ==
    /\ socket[s] # "gone" /\ question[q] = "none" /\ Demand("questions")
    /\ question' = IF socket[s] = "joined" THEN [question EXCEPT ![q] = "cache"] ELSE question
    /\ UNCHANGED <<socket, registered, cache, inflight, answers, unready>>

\* The answer goes to the room, and so to whoever is connected by now.
Told(Q, answer) ==
    /\ question' = [q \in Questions |-> IF q \in Q THEN "none" ELSE question[q]]
    /\ answers' = IF \E s \in Sockets : socket[s] = "joined" THEN answer ELSE answers

-----------------------------------------------------------------------------
(* getLastOnline                                                           *)

\* A failure of Redis counts as nothing found.
ReadCache(q) ==
    /\ question[q] = "cache"
    /\ \/ cache = "known" /\ Told({q}, "known") /\ UNCHANGED demands
       \/ /\ \/ cache = "empty" /\ UNCHANGED demands
             \/ cache = "known" /\ Demand("errors")
          /\ question' = [question EXCEPT ![q] = "map"]
          /\ UNCHANGED answers
    /\ UNCHANGED <<socket, registered, cache, inflight, unready>>

\* The promise in the map is shared; without one a call is made.  Without an API
\* object the promise is resolved before it is put there, and nothing removes it.
ShareOrCall(q) ==
    /\ question[q] = "map"
    /\ \/ /\ inflight \in UnderWay
          /\ question' = [question EXCEPT ![q] = "promise"]
          /\ UNCHANGED <<inflight, answers, unready>>
       \/ /\ inflight \in Answers
          /\ Told({q}, inflight)
          /\ UNCHANGED <<inflight, unready>>
       \/ /\ inflight = "absent" /\ registered
          /\ inflight' = "asking"
          /\ question' = [question EXCEPT ![q] = "promise"]
          /\ UNCHANGED <<answers, unready>>
       \/ /\ inflight = "absent" /\ ~registered
          /\ inflight' = "nothing"
          /\ unready' = TRUE
          /\ Told({q}, "nothing")
    /\ UNCHANGED <<socket, registered, cache, demands>>

\* Deviation: the promise stays in the map.
SettleAndKeep(answer) ==
    /\ inflight' = answer
    /\ Told({q \in Questions : question[q] = "promise"}, answer)

\* The finally block, and the turn in which all who share the promise get its value.
Settle(answer) ==
    /\ inflight' = "absent"
    /\ Told({q \in Questions : question[q] = "promise"}, answer)

ZaloAnswers ==
    /\ inflight = "asking"
    /\ inflight' = "storing"
    /\ UNCHANGED <<socket, registered, cache, question, answers, demands, unready>>

ZaloFails ==
    /\ inflight = "asking" /\ Demand("errors")
    /\ Settle("nothing")
    /\ UNCHANGED <<socket, registered, cache, unready>>

\* The answer is stored for 180 seconds, if Redis can be reached, and given.
StoreAnswer ==
    /\ inflight = "storing"
    /\ \/ cache' = "known" /\ UNCHANGED demands
       \/ UNCHANGED cache /\ Demand("errors")
    /\ Settle("known")
    /\ UNCHANGED <<socket, registered, unready>>

CacheLapses ==
    /\ cache = "known" /\ Demand("lapses")
    /\ cache' = "empty"
    /\ UNCHANGED <<socket, registered, inflight, question, answers, unready>>

\* The account's API object comes and goes (ZaloSession).
AccountChanges ==
    /\ Demand("changes")
    /\ registered' = ~registered
    /\ UNCHANGED <<socket, cache, inflight, question, answers, unready>>

\* The process is killed and started; the account is registered again later.
PresenceRestart ==
    /\ socket' = [s \in Sockets |-> "gone"]
    /\ registered' = FALSE /\ inflight' = "absent"
    /\ question' = [q \in Questions |-> "none"]
    /\ unready' = FALSE
    /\ UNCHANGED <<cache, answers, demands>>

PresenceNext ==
    \/ \E s \in Sockets :
          \/ Connect(s) \/ Verify(s) \/ Disconnect(s)
          \/ \E q \in Questions : AskLastOnline(s, q)
    \/ \E q \in Questions : ReadCache(q) \/ ShareOrCall(q)
    \/ ZaloAnswers \/ ZaloFails \/ StoreAnswer \/ CacheLapses \/ AccountChanges

PresenceSpec ==
    /\ PresenceInit /\ demands \in PresenceDemands
    /\ [][PresenceNext \/ PresenceRestart]_presenceVars

-----------------------------------------------------------------------------
(* Properties                                                              *)

\* The map holds a promise only while its call is under way, so that no answer
\* outlives the cache, and whoever waits for a promise has one that will be
\* resolved: unless a question came while the account was not registered, after
\* which its "nothing" is the answer for good.
InflightMeansCall ==
    /\ inflight \in Answers => unready /\ inflight = "nothing"
    /\ (\E q \in Questions : question[q] = "promise") => inflight \in UnderWay

=============================================================================
