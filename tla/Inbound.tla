------------------------------ MODULE Inbound ------------------------------
(***************************************************************************)
(* The messaging-inbound queue: MessagingPublisher.publishInbound, the     *)
(* InboundProcessor workers that run MessageHandler.handle, and the rows   *)
(* and Redis keys the handler shares with the rest of the program: the     *)
(* conversation, its participants, the message and the token counts that   *)
(* BotResponseService leaves for the echo of its own replies.              *)
(*                                                                         *)
(* BullMQ is modelled from how src/ uses it: a job's id is the message's,  *)
(* an add with the id of a job the queue still knows is ignored, finished  *)
(* jobs are forgotten oldest first, there is one attempt.  There is no     *)
(* clock: a TTL that may elapse is an action that may happen.              *)
(***************************************************************************)
EXTENDS Naturals, Sequences, FiniteSets

CONSTANTS Workers,         \* slots that run jobs: concurrency 10 in each process
          Messages,        \* messages of the channel, i.e. job ids
          Conversations,
          ConversationOf,  \* ConversationOf[m]: the conversation m belongs to
          OwnMessages,     \* messages with isSelf: echoes of what the account sent
          Texts,           \* texts up to hashText
          TextOf,          \* TextOf[m]: the text of an own message, or None
          KeepCompleted,   \* removeOnComplete (1000)
          KeepFailed,      \* removeOnFail (5000)
          MaxStalls,       \* BullMQ's maxStalledCount (1)
          MaxDeliveries,   \* bound: how often the channel delivers a message
          MaxReplies,      \* bound: how often a generated text is cached
          None             \* no execution, no text

Executions == [job : Messages, n : Nat]

ASSUME InboundAssumption ==
    /\ ConversationOf \in [Messages -> Conversations]
    /\ OwnMessages \subseteq Messages
    /\ TextOf \in [OwnMessages -> Texts \cup {None}]
    /\ KeepCompleted \in Nat /\ KeepFailed \in Nat
    /\ MaxStalls \in Nat /\ MaxDeliveries \in Nat /\ MaxReplies \in Nat
    /\ None \notin Executions /\ None \notin Texts

VARIABLES
    delivered,  \* delivered[m]: how often the channel delivered message m
    waiting,    \* the wait list, next job first
    job,        \* job[m]: state of the job with m's id; "none": not known
    finished,   \* finished[s]: jobs remembered as completed or failed, oldest first
    stalls,     \* stalls[m]: how often the job was found stalled
    started,    \* started[m]: executions begun
    pc,         \* pc[w]: where handle() stands in worker w
    run,        \* run[w]: the execution in worker w
    auto,       \* auto[w]: the local isAutoReply (and tokens) of that execution
    outcome,    \* outcome[w]: whether that execution returns or throws
    known,      \* conversations that have a row
    unread,     \* unread[c]: the conversation's unread counter
    members,    \* members[c]: participants with a row: the account, its peers
    row,        \* row[m]: the message's row, by its isAutoReply and tokens
    pending,    \* pending_tokens:<conversation>:<hash> keys in Redis
    emitted,    \* executions that have emitted message.received
    \* history
    cached,     \* cached[<<c, x>>]: how often a reply x was cached for c
    reruns,     \* reruns[m]: how often the job was put back in the wait list
    unseen,     \* inbound messages stored since their conversation was last read
    overlapped  \* executions whose conversation was read while they ran

queueVars == <<delivered, waiting, job, finished, stalls, started, reruns>>
workerVars == <<pc, run, auto, outcome>>
chatVars == <<known, unread, members, row, unseen, overlapped>>
replyVars == <<pending, cached>>
vars == <<queueVars, workerVars, chatVars, replyVars, emitted>>

Steps == {"idle", "conversation", "participant", "read", "drop", "persist", "emit", "finish"}
Keys == Conversations \X Texts

TypeOK ==
    /\ delivered \in [Messages -> 0 .. MaxDeliveries]
    /\ waiting \in Seq(Messages)
    /\ job \in [Messages -> {"none", "waiting", "active", "completed", "failed"}]
    /\ finished \in [{"completed", "failed"} -> Seq(Messages)]
    /\ stalls \in [Messages -> 0 .. MaxStalls]
    /\ started \in [Messages -> Nat]
    /\ pc \in [Workers -> Steps]
    /\ run \in [Workers -> Executions \cup {None}]
    /\ auto \in [Workers -> BOOLEAN]
    /\ outcome \in [Workers -> {"ok", "error"}]
    /\ known \in SUBSET Conversations
    /\ unread \in [Conversations -> Nat]
    /\ members \in [Conversations -> SUBSET {"account", "peer"}]
    /\ row \in [Messages -> {"none", "plain", "auto"}]
    /\ pending \in SUBSET Keys
    /\ emitted \in SUBSET Executions
    /\ cached \in [Keys -> 0 .. MaxReplies]
    /\ reruns \in [Messages -> Nat]
    /\ unseen \in SUBSET Messages
    /\ overlapped \in SUBSET Executions

Init ==
    /\ delivered = [m \in Messages |-> 0]
    /\ waiting = <<>>
    /\ job = [m \in Messages |-> "none"]
    /\ finished = [s \in {"completed", "failed"} |-> <<>>]
    /\ stalls = [m \in Messages |-> 0]
    /\ started = [m \in Messages |-> 0]
    /\ pc = [w \in Workers |-> "idle"]
    /\ run = [w \in Workers |-> None]
    /\ auto = [w \in Workers |-> FALSE]
    /\ outcome = [w \in Workers |-> "ok"]
    /\ known = {}
    /\ unread = [c \in Conversations |-> 0]
    /\ members = [c \in Conversations |-> {}]
    /\ row = [m \in Messages |-> "none"]
    /\ pending = {}
    /\ emitted = {}
    /\ cached = [k \in Keys |-> 0]
    /\ reruns = [m \in Messages |-> 0]
    /\ unseen = {}
    /\ overlapped = {}

-----------------------------------------------------------------------------
\* The job enters the wait list; any time but the first counts as a re-run.
Enqueue(m) ==
    /\ waiting' = Append(waiting, m)
    /\ job' = [job EXCEPT ![m] = "waiting"]
    /\ reruns' = [reruns EXCEPT ![m] = IF started[m] = 0 THEN 0 ELSE @ + 1]

\* Deviation: add() without a jobId.
AddAnyway(m) ==
    /\ delivered[m] < MaxDeliveries
    /\ delivered' = [delivered EXCEPT ![m] = @ + 1]
    /\ waiting' = Append(waiting, m)
    /\ job' = [job EXCEPT ![m] = "waiting"]
    /\ UNCHANGED <<finished, stalls, started, reruns, workerVars, chatVars, replyVars, emitted>>

\* The channel's listener calls publishInbound: a job the queue still knows,
\* waiting, running or remembered as finished, makes the add a no-op.
Deliver(m) ==
    /\ delivered[m] < MaxDeliveries
    /\ delivered' = [delivered EXCEPT ![m] = @ + 1]
    /\ \/ job[m] = "none" /\ Enqueue(m)
       \/ job[m] # "none" /\ UNCHANGED <<waiting, job, reruns>>
    /\ UNCHANGED <<finished, stalls, started, workerVars, chatVars, replyVars, emitted>>

\* A free slot takes the first waiting job and calls handle().
Fetch(w) ==
    /\ pc[w] = "idle"
    /\ waiting # <<>>
    /\ LET m == Head(waiting) IN
          /\ job' = [job EXCEPT ![m] = "active"]
          /\ started' = [started EXCEPT ![m] = @ + 1]
          /\ run' = [run EXCEPT ![w] = [job |-> m, n |-> started[m] + 1]]
    /\ waiting' = Tail(waiting)
    /\ pc' = [pc EXCEPT ![w] = "conversation"]
    /\ UNCHANGED <<delivered, finished, stalls, reruns, auto, outcome, chatVars, replyVars, emitted>>

Message(w) == run[w].job
Conversation(w) == ConversationOf[run[w].job]

\* Executions of conversation c that have counted their message and not yet
\* stored it.
InFlight(c) == {run[w] : w \in {v \in Workers :
    pc[v] \in {"participant", "read", "drop", "persist"} /\ Conversation(v) = c}}

\* The conversation's messages count as seen from here on.
Read(c) ==
    /\ unread' = [unread EXCEPT ![c] = 0]
    /\ unseen' = {m \in unseen : ConversationOf[m] # c}
    /\ overlapped' = overlapped \cup InFlight(c)

\* Deviation: the counter is set where the row is created, and not incremented
\* where it is updated.
UnreadOnCreate(w) ==
    LET c == Conversation(w) IN
    /\ pc[w] = "conversation"
    /\ known' = known \cup {c}
    /\ \/ Message(w) \in OwnMessages /\ Read(c)
       \/ /\ Message(w) \notin OwnMessages
          /\ unread' = [unread EXCEPT ![c] = IF c \in known THEN @ ELSE 1]
          /\ UNCHANGED <<unseen, overlapped>>
    /\ pc' = [pc EXCEPT ![w] = "participant"]
    /\ UNCHANGED <<queueVars, run, auto, outcome, members, row, replyVars, emitted>>

\* upsertFromInbound, after its lookups: the conversation's row is created or
\* updated; an own message clears the unread counter.
UpsertConversation(w) ==
    LET c == Conversation(w) IN
    /\ pc[w] = "conversation"
    /\ known' = known \cup {c}
    /\ \/ Message(w) \in OwnMessages /\ Read(c)
       \/ /\ Message(w) \notin OwnMessages
          /\ unread' = [unread EXCEPT ![c] = @ + 1]
          /\ UNCHANGED <<unseen, overlapped>>
    /\ pc' = [pc EXCEPT ![w] = "participant"]
    /\ UNCHANGED <<queueVars, run, auto, outcome, members, row, replyVars, emitted>>

Sender(m) == IF m \in OwnMessages THEN "account" ELSE "peer"

\* An own message with a text may be the echo of a generated reply.
MayBeEcho(m) == m \in OwnMessages /\ TextOf[m] # None

UpsertParticipant(w) ==
    /\ pc[w] = "participant"
    /\ members' = [members EXCEPT ![Conversation(w)] = @ \cup {Sender(Message(w))}]
    /\ pc' = [pc EXCEPT ![w] = IF MayBeEcho(Message(w)) THEN "read" ELSE "persist"]
    /\ UNCHANGED <<queueVars, run, auto, outcome, known, unread, row, unseen, overlapped,
                   replyVars, emitted>>

\* The Redis key of a reply's token count.
PendingKey(m) == <<ConversationOf[m], TextOf[m]>>

\* Deviation: the test for a count is !== undefined, and cacheGet returns null.
ReadNullTokens(w) ==
    /\ pc[w] = "read"
    /\ auto' = [auto EXCEPT ![w] = TRUE]
    /\ pc' = [pc EXCEPT ![w] = "drop"]
    /\ UNCHANGED <<queueVars, run, outcome, chatVars, replyVars, emitted>>

\* persistInbound: cacheGet of the pending token count.
ReadPendingTokens(w) ==
    /\ pc[w] = "read"
    /\ LET found == PendingKey(Message(w)) \in pending IN
          /\ auto' = [auto EXCEPT ![w] = found]
          /\ pc' = [pc EXCEPT ![w] = IF found THEN "drop" ELSE "persist"]
    /\ UNCHANGED <<queueVars, run, outcome, chatVars, replyVars, emitted>>

\* persistInbound: DEL of the key it has read; an error of the DEL is swallowed.
DropPendingTokens(w) ==
    /\ pc[w] = "drop"
    /\ \/ pending' = pending \ {PendingKey(Message(w))}
       \/ UNCHANGED pending
    /\ pc' = [pc EXCEPT ![w] = "persist"]
    /\ UNCHANGED <<queueVars, run, auto, outcome, chatVars, cached, emitted>>

\* upsertInbound on (conversationId, messageExternalId): a row that exists
\* gets this execution's tokens and isAutoReply.
PersistMessage(w) ==
    LET m == Message(w) IN
    /\ pc[w] = "persist"
    /\ row' = [row EXCEPT ![m] = IF auto[w] THEN "auto" ELSE "plain"]
    /\ unseen' = IF row[m] = "none" /\ m \notin OwnMessages THEN unseen \cup {m} ELSE unseen
    /\ pc' = [pc EXCEPT ![w] = "emit"]
    /\ UNCHANGED <<queueVars, run, auto, outcome, known, unread, members, overlapped,
                   replyVars, emitted>>

\* handle() emits message.received for RealtimeListener and BotResponseService.
Emit(w) ==
    /\ pc[w] = "emit"
    /\ emitted' = emitted \cup {run[w]}
    /\ pc' = [pc EXCEPT ![w] = "finish"]
    /\ UNCHANGED <<queueVars, run, auto, outcome, chatVars, replyVars>>

\* Deviation: a failed upsert of the message is logged, and the event emitted.
PersistErrorLogged(w) ==
    /\ pc[w] \in {"conversation", "participant", "read", "persist", "emit"}
    /\ pc' = [pc EXCEPT ![w] = IF @ = "persist" THEN "emit" ELSE "finish"]
    /\ outcome' = [outcome EXCEPT ![w] = IF pc[w] = "persist" THEN "ok" ELSE "error"]
    /\ UNCHANGED <<queueVars, run, auto, chatVars, replyVars, emitted>>

\* handle() throws: a query or the bot lookup fails, or the answer to a query
\* that took effect is lost (the next step has not begun).
HandleThrows(w) ==
    /\ pc[w] \in {"conversation", "participant", "read", "persist", "emit"}
    /\ pc' = [pc EXCEPT ![w] = "finish"]
    /\ outcome' = [outcome EXCEPT ![w] = "error"]
    /\ UNCHANGED <<queueVars, run, auto, chatVars, replyVars, emitted>>

-----------------------------------------------------------------------------
\* The execution in worker w is over and the slot is free.
LeavesWorker(w) ==
    /\ pc' = [pc EXCEPT ![w] = "idle"]
    /\ run' = [run EXCEPT ![w] = None]
    /\ auto' = [auto EXCEPT ![w] = FALSE]
    /\ outcome' = [outcome EXCEPT ![w] = "ok"]

\* The queue takes an execution's result only while the job is still its own.
IsCurrent(e) == job[e.job] = "active" /\ started[e.job] = e.n

\* Job m has come to state s, and the queue forgets the oldest job in that
\* state when it remembers more than keep of them.
Settles(m, s, keep) ==
    LET all == Append(finished[s], m) IN
    \/ /\ Len(all) <= keep
       /\ finished' = [finished EXCEPT ![s] = all]
       /\ job' = [job EXCEPT ![m] = s]
       /\ UNCHANGED stalls
    \/ /\ Len(all) > keep
       /\ finished' = [finished EXCEPT ![s] = Tail(all)]
       /\ job' = [job EXCEPT ![m] = s, ![Head(all)] = "none"]
       /\ stalls' = [stalls EXCEPT ![Head(all)] = 0]

\* process() is over: one attempt, so an error fails the job for good.
Finish(w) ==
    /\ pc[w] = "finish"
    /\ \/ /\ IsCurrent(run[w])
          /\ \/ outcome[w] = "ok" /\ Settles(Message(w), "completed", KeepCompleted)
             \/ outcome[w] = "error" /\ Settles(Message(w), "failed", KeepFailed)
       \/ ~IsCurrent(run[w]) /\ UNCHANGED <<finished, job, stalls>>
    /\ LeavesWorker(w)
    /\ UNCHANGED <<delivered, waiting, started, reruns, chatVars, replyVars, emitted>>

\* A process dies in the middle of an execution; the job stays active.
Crash(w) ==
    /\ pc[w] # "idle"
    /\ LeavesWorker(w)
    /\ UNCHANGED <<queueVars, chatVars, replyVars, emitted>>

\* Deviation: the stall limit is off by one.
StallOnceMore(m) ==
    /\ job[m] = "active"
    /\ \/ /\ stalls[m] <= MaxStalls
          /\ stalls' = [stalls EXCEPT ![m] = @ + 1]
          /\ Enqueue(m)
          /\ UNCHANGED finished
       \/ /\ stalls[m] > MaxStalls
          /\ Settles(m, "failed", KeepFailed)
          /\ UNCHANGED <<waiting, reruns>>
    /\ UNCHANGED <<delivered, started, workerVars, chatVars, replyVars, emitted>>

\* Deviation: a stalled job is counted and never put back into the wait list.
StallForgotten(m) ==
    /\ job[m] = "active"
    /\ stalls[m] < MaxStalls
    /\ stalls' = [stalls EXCEPT ![m] = @ + 1]
    /\ UNCHANGED <<delivered, waiting, job, finished, started, reruns, workerVars, chatVars,
                   replyVars, emitted>>

\* The queue finds that an active job's worker no longer renews its hold on
\* it (it died, or was cut off and may still be running), and runs the job
\* again, or fails it when that happened too often.
Stall(m) ==
    /\ job[m] = "active"
    /\ \/ /\ stalls[m] < MaxStalls
          /\ stalls' = [stalls EXCEPT ![m] = @ + 1]
          /\ Enqueue(m)
          /\ UNCHANGED finished
       \/ /\ stalls[m] = MaxStalls
          /\ Settles(m, "failed", KeepFailed)
          /\ UNCHANGED <<waiting, reruns>>
    /\ UNCHANGED <<delivered, started, workerVars, chatVars, replyVars, emitted>>

\* generateReply leaves the token count of reply x under its hash (SET EX 300).
CacheReplyTokens(c, x) ==
    /\ cached[<<c, x>>] < MaxReplies
    /\ c \in known
    /\ cached' = [cached EXCEPT ![<<c, x>>] = @ + 1]
    /\ pending' = pending \cup {<<c, x>>}
    /\ UNCHANGED <<queueVars, workerVars, chatVars, emitted>>

ExpireTokens(k) ==
    /\ k \in pending
    /\ pending' = pending \ {k}
    /\ UNCHANGED <<queueVars, workerVars, chatVars, cached, emitted>>

\* ConversationService.markRead, from the user interface.
MarkRead(c) ==
    /\ c \in known
    /\ Read(c)
    /\ UNCHANGED <<queueVars, workerVars, known, members, row, replyVars, emitted>>

-----------------------------------------------------------------------------
Handle(w) ==
    \/ UpsertConversation(w) \/ UpsertParticipant(w)
    \/ ReadPendingTokens(w) \/ DropPendingTokens(w)
    \/ PersistMessage(w) \/ Emit(w) \/ HandleThrows(w) \/ Finish(w)

Next ==
    \/ \E m \in Messages : Deliver(m) \/ Stall(m)
    \/ \E w \in Workers : Fetch(w) \/ Handle(w) \/ Crash(w)
    \/ \E c \in Conversations : MarkRead(c) \/ \E x \in Texts : CacheReplyTokens(c, x)
    \/ \E k \in Keys : ExpireTokens(k)

Spec == Init /\ [][Next]_vars

\* Workers and the queue's stall check keep going; deliveries, crashes and
\* errors are up to the environment.
Fairness ==
    /\ \A w \in Workers : WF_vars(Fetch(w)) /\ WF_vars(Handle(w))
    /\ \A m \in Messages : WF_vars(Stall(m))

FairSpec == Spec /\ Fairness

-----------------------------------------------------------------------------
Announced(m) == \E e \in emitted : e.job = m

\* When message.received is emitted, what its listeners read is in the
\* database: the conversation, the sender and the message itself.  A job that
\* completed has emitted it (MessageHandler.handle).
StoredBeforeAnnounced ==
    \A m \in Messages :
        /\ Announced(m) =>
              /\ row[m] # "none"
              /\ ConversationOf[m] \in known
              /\ Sender(m) \in members[ConversationOf[m]]
        /\ job[m] = "completed" => Announced(m)

\* A message is announced a second time, and so may be replied to a second
\* time, only if its job stalled or came again after the queue forgot it:
\* however often the channel delivers it, the job id dedups it.
AnnouncedOncePerRun == \A e \in emitted : e.n <= 1 + reruns[e.job]

MessagesIn(c) == {m \in Messages : ConversationOf[m] = c}
Overlapped(m) == \E e \in overlapped : e.job = m

\* The unread counter never hides a message: it is at least the number of
\* inbound messages stored since the conversation was last read, but for those
\* that were being handled at that moment (they were counted and not stored).
UnreadCovers ==
    \A c \in Conversations :
        Cardinality({m \in unseen \cap MessagesIn(c) : ~Overlapped(m)}) <= unread[c]

\* Message m was handled at most once, to the end, and not while its
\* conversation was read.
Undisturbed(m) ==
    /\ reruns[m] = 0
    /\ started[m] = 0 \/ Announced(m)
    /\ ~Overlapped(m)

\* Without re-runs, errors and overlapping reads the counter is exact: nothing
\* is counted twice, and own messages not at all.
UnreadExact ==
    \A c \in Conversations :
        (\A m \in MessagesIn(c) : Undisturbed(m))
            => unread[c] = Cardinality(unseen \cap MessagesIn(c))

\* The counter neither hides nor invents messages, but for those disturbances.
UnreadAgrees == UnreadCovers /\ UnreadExact

\* A message is stored as the bot's own reply only if the bot generated a
\* reply of that text for that conversation.
AutoReplyHasSource ==
    \A m \in OwnMessages : row[m] = "auto" => cached[<<ConversationOf[m], TextOf[m]>>] > 0

\* Every message whose job is accepted is announced, or its job ends up failed.
AnnouncedOrFailed ==
    \A m \in Messages : job[m] = "waiting" ~> Announced(m) \/ job[m] = "failed"

\* A message's row is written once: delivering the message again changes
\* nothing in it.
RedeliveryIsNoOp ==
    [][\A m \in Messages : row[m] # "none" => row'[m] = row[m]]_vars

=============================================================================
