--------------------------- MODULE InboundProofs ---------------------------
(***************************************************************************)
(* Proofs about Inbound for every number of workers, messages,             *)
(* conversations, deliveries and stalls, and every retention limit: type   *)
(* correctness, rows before events, no second event without a re-run, the   *)
(* marks of generated replies, and the unread counter.                      *)
(***************************************************************************)
EXTENDS Inbound, FiniteSetTheorems, TLAPS

Outcomes == {"completed", "failed"}

\* The wait list holds each waiting job at most once and nothing else.
QueueInv ==
    \A i \in 1 .. Len(waiting) :
        /\ job[waiting[i]] = "waiting"
        /\ \A k \in 1 .. Len(waiting) : i # k => waiting[i] # waiting[k]

\* The queue remembers each finished job once, under the state it is in.
FinishedInv ==
    \A s \in Outcomes : \A i \in 1 .. Len(finished[s]) :
        /\ job[finished[s][i]] = s
        /\ \A k \in 1 .. Len(finished[s]) : i # k => finished[s][i] # finished[s][k]

\* Every execution but the first was paid for by a re-run.
CountInv ==
    \A m \in Messages :
        IF job[m] = "waiting" \/ (job[m] = "none" /\ started[m] = 0)
        THEN started[m] = reruns[m]
        ELSE started[m] = reruns[m] + 1

\* The rows that execution has written by the time it stands where it does.
Progress(w) ==
    LET m == Message(w) IN
    /\ pc[w] \in {"participant", "read", "drop", "persist", "emit"} => Conversation(w) \in known
    /\ pc[w] \in {"read", "drop", "persist", "emit"} => Sender(m) \in members[Conversation(w)]
    /\ pc[w] = "emit" => row[m] # "none"
    /\ pc[w] = "finish" /\ outcome[w] = "ok" => run[w] \in emitted

RunsRightly(w) ==
    /\ pc[w] = "idle" <=> run[w] = None
    /\ run[w] # None => run[w].n <= 1 + reruns[run[w].job] /\ Progress(w)

RunInv == \A w \in Workers : RunsRightly(w)

\* An announced message has its rows.
EmittedInv ==
    \A e \in emitted :
        /\ e.n <= 1 + reruns[e.job]
        /\ row[e.job] # "none"
        /\ ConversationOf[e.job] \in known
        /\ Sender(e.job) \in members[ConversationOf[e.job]]

CompletedInv == \A m \in Messages : job[m] = "completed" => Announced(m)

Inv ==
    /\ TypeOK
    /\ QueueInv
    /\ FinishedInv
    /\ CountInv
    /\ RunInv
    /\ EmittedInv
    /\ CompletedInv

-----------------------------------------------------------------------------
\* Nothing was delivered, run or stored at the start.
LEMMA InitInv == Init => Inv
<1> SUFFICES ASSUME Init PROVE Inv
  OBVIOUS
<1> USE InboundAssumption DEF Init
<1>1. TypeOK
  BY DEF TypeOK, Steps, Keys
<1>2. QueueInv /\ FinishedInv /\ CountInv
  BY DEF QueueInv, FinishedInv, CountInv, Outcomes
<1>3. RunInv
  BY DEF RunInv, RunsRightly
<1>4. EmittedInv /\ CompletedInv
  BY DEF EmittedInv, CompletedInv
<1> QED
  BY <1>1, <1>2, <1>3, <1>4 DEF Inv

\* An execution is a message and a number.
LEMMA ExecutionFields ==
    /\ \A e \in Executions : e.job \in Messages /\ e.n \in Nat /\ e # None
    /\ \A m \in Messages, n \in Nat : [job |-> m, n |-> n] \in Executions
BY InboundAssumption DEF Executions

\* A busy worker runs an execution of a message of some conversation.
LEMMA BusyWorker ==
    ASSUME Inv, NEW w \in Workers, pc[w] # "idle"
    PROVE  /\ run[w] \in Executions
           /\ run[w].job \in Messages /\ Message(w) \in Messages
           /\ run[w].n \in Nat
           /\ run[w].n <= 1 + reruns[run[w].job]
           /\ Conversation(w) \in Conversations
           /\ ConversationOf[run[w].job] = Conversation(w)
           /\ Progress(w)
<1>1. run[w] \in Executions /\ run[w] # None
  BY DEF Inv, TypeOK, RunInv, RunsRightly
<1>2. run[w].job \in Messages /\ run[w].n \in Nat
  BY <1>1, ExecutionFields
<1> QED
  BY <1>1, <1>2, InboundAssumption DEF Inv, RunInv, RunsRightly, Message, Conversation

\* A step that leaves the queue alone keeps what is said of the queue alone.
LEMMA QueueUntouched ==
    ASSUME Inv, UNCHANGED queueVars
    PROVE  /\ QueueInv' /\ FinishedInv' /\ CountInv'
           /\ UNCHANGED <<delivered, waiting, job, finished, stalls, started, reruns>>
BY DEF Inv, queueVars, QueueInv, FinishedInv, CountInv

\* A step that only adds rows, and leaves the queue and the workers alone.
LEMMA RowsOnlyGrow ==
    ASSUME Inv, UNCHANGED queueVars, emitted' = emitted,
           known \subseteq known',
           \A c \in Conversations : members[c] \subseteq members'[c],
           \A m \in Messages : row[m] # "none" => row'[m] # "none"
    PROVE  /\ EmittedInv' /\ CompletedInv'
           /\ \A w \in Workers :
                 pc[w] # "idle" /\ pc'[w] = pc[w] /\ run'[w] = run[w] /\ outcome'[w] = outcome[w]
                    => RunsRightly(w)'
<1>1. UNCHANGED <<job, started, reruns>>
  BY DEF queueVars
<1>2. EmittedInv'
  <2> SUFFICES ASSUME NEW e \in emitted
               PROVE  /\ e.n <= 1 + reruns[e.job]
                      /\ row'[e.job] # "none"
                      /\ ConversationOf[e.job] \in known'
                      /\ Sender(e.job) \in members'[ConversationOf[e.job]]
    BY <1>1 DEF EmittedInv, Sender
  <2>1. e.job \in Messages /\ ConversationOf[e.job] \in Conversations
    BY ExecutionFields, InboundAssumption DEF Inv, TypeOK
  <2> QED
    BY <2>1 DEF Inv, EmittedInv
<1>3. CompletedInv'
  BY <1>1 DEF Inv, CompletedInv, Announced
<1>4. ASSUME NEW w \in Workers, pc[w] # "idle", pc'[w] = pc[w], run'[w] = run[w],
             outcome'[w] = outcome[w]
      PROVE  RunsRightly(w)'
  <2>1. /\ run[w] \in Executions /\ run[w] # None /\ Message(w) \in Messages
        /\ Conversation(w) \in Conversations /\ Progress(w)
        /\ run[w].n <= 1 + reruns[run[w].job]
    BY <1>4, BusyWorker, ExecutionFields
  <2>2. Message(w)' = Message(w) /\ Conversation(w)' = Conversation(w)
    BY <1>4 DEF Message, Conversation
  <2>3. Progress(w)'
    BY <1>4, <2>1, <2>2 DEF Progress, Sender
  <2> QED
    BY <1>1, <1>4, <2>1, <2>3 DEF RunsRightly
<1> QED
  BY <1>2, <1>3, <1>4

\* A step of handle() in worker w that adds rows and emits nothing.
LEMMA WorkerMoves ==
    ASSUME Inv, NEW w \in Workers, NEW step \in Steps \ {"idle"}, NEW result,
           pc[w] # "idle",
           pc' = [pc EXCEPT ![w] = step],
           outcome' = [outcome EXCEPT ![w] = result],
           UNCHANGED <<queueVars, run, emitted>>,
           known \subseteq known',
           \A c \in Conversations : members[c] \subseteq members'[c],
           \A m \in Messages : row[m] # "none" => row'[m] # "none",
           Progress(w)'
    PROVE  QueueInv' /\ FinishedInv' /\ CountInv' /\ RunInv' /\ EmittedInv' /\ CompletedInv'
<1>1. QueueInv' /\ FinishedInv' /\ CountInv'
      /\ UNCHANGED <<delivered, waiting, job, finished, stalls, started, reruns>>
  BY QueueUntouched
<1>2. /\ EmittedInv' /\ CompletedInv'
      /\ \A v \in Workers :
            pc[v] # "idle" /\ pc'[v] = pc[v] /\ run'[v] = run[v] /\ outcome'[v] = outcome[v]
               => RunsRightly(v)'
  BY RowsOnlyGrow
<1>3. ASSUME NEW v \in Workers PROVE RunsRightly(v)'
  <2>1. /\ pc'[v] = IF v = w THEN step ELSE pc[v]
        /\ v # w => outcome'[v] = outcome[v]
        /\ run'[v] = run[v]
    BY DEF Inv, TypeOK
  <2>2. RunsRightly(v)
    BY DEF Inv, RunInv
  <2>3. CASE v = w
    BY <1>1, <2>1, <2>2, <2>3 DEF RunsRightly
  <2>4. CASE v # w /\ pc[v] # "idle"
    BY <1>2, <2>1, <2>4
  <2>5. CASE v # w /\ pc[v] = "idle"
    BY <2>1, <2>2, <2>5 DEF RunsRightly
  <2> QED
    BY <2>3, <2>4, <2>5
<1> QED
  BY <1>1, <1>2, <1>3 DEF RunInv

\* upsertConversationFromInbound: the conversation has a row from here on.
LEMMA UpsertConversationInv ==
    ASSUME Inv, NEW w \in Workers, UpsertConversation(w) PROVE Inv'
<1> DEFINE c == Conversation(w)
<1>1. /\ pc[w] = "conversation"
      /\ known' = known \cup {c}
      /\ \/ Message(w) \in OwnMessages /\ Read(c)
         \/ /\ Message(w) \notin OwnMessages
            /\ unread' = [unread EXCEPT ![c] = @ + 1]
            /\ UNCHANGED <<unseen, overlapped>>
      /\ pc' = [pc EXCEPT ![w] = "participant"]
      /\ UNCHANGED <<queueVars, run, auto, outcome, members, row, replyVars, emitted>>
  BY DEF UpsertConversation
<1>2. c \in Conversations /\ run[w] \in Executions
  BY <1>1, BusyWorker
<1>3. /\ pc'[w] = "participant"
      /\ outcome' = [outcome EXCEPT ![w] = outcome[w]]
      /\ Conversation(w)' = c /\ Message(w)' = Message(w)
  BY <1>1 DEF Inv, TypeOK, Conversation, Message
<1>4. /\ unread' \in [Conversations -> Nat]
      /\ unseen' \in SUBSET Messages
      /\ overlapped' \in SUBSET Executions
  <2>1. CASE Read(c)
    <3>1. InFlight(c) \subseteq Executions
      BY BusyWorker DEF InFlight
    <3> QED
      BY <1>2, <2>1, <3>1 DEF Read, Inv, TypeOK
  <2>2. CASE unread' = [unread EXCEPT ![c] = @ + 1] /\ UNCHANGED <<unseen, overlapped>>
    BY <1>2, <2>2 DEF Inv, TypeOK
  <2> QED
    BY <1>1, <2>1, <2>2
<1>5. TypeOK'
  BY <1>1, <1>2, <1>4 DEF Inv, TypeOK, Steps, queueVars, replyVars
<1>6. Progress(w)'
  BY <1>1, <1>3 DEF Progress
<1>7. QueueInv' /\ FinishedInv' /\ CountInv' /\ RunInv' /\ EmittedInv' /\ CompletedInv'
  BY <1>1, <1>3, <1>6, WorkerMoves DEF Steps
<1> QED
  BY <1>5, <1>7 DEF Inv

\* upsertParticipant: the sender has a row from here on.
LEMMA UpsertParticipantInv ==
    ASSUME Inv, NEW w \in Workers, UpsertParticipant(w) PROVE Inv'
<1> DEFINE c == Conversation(w)
           step == IF MayBeEcho(Message(w)) THEN "read" ELSE "persist"
<1>1. /\ pc[w] = "participant"
      /\ members' = [members EXCEPT ![c] = @ \cup {Sender(Message(w))}]
      /\ pc' = [pc EXCEPT ![w] = step]
      /\ UNCHANGED <<queueVars, run, auto, outcome, known, unread, row, unseen, overlapped,
                     replyVars, emitted>>
  BY DEF UpsertParticipant
<1>2. c \in Conversations /\ run[w] \in Executions /\ Progress(w)
  BY <1>1, BusyWorker
<1>3. step \in Steps \ {"idle"} /\ step \in {"read", "persist"}
  BY DEF Steps
<1>4. Sender(Message(w)) \in {"account", "peer"}
  BY DEF Sender
<1> HIDE DEF step
<1>5. /\ pc'[w] = step
      /\ outcome' = [outcome EXCEPT ![w] = outcome[w]]
      /\ Conversation(w)' = c /\ Message(w)' = Message(w)
      /\ Sender(Message(w))' = Sender(Message(w))
      /\ \A d \in Conversations : members[d] \subseteq members'[d]
      /\ Sender(Message(w)) \in members'[c]
  BY <1>1, <1>2 DEF Inv, TypeOK, Conversation, Message, Sender
<1>6. members' \in [Conversations -> SUBSET {"account", "peer"}]
  BY <1>1, <1>2, <1>4 DEF Inv, TypeOK
<1>7. TypeOK'
  BY <1>1, <1>3, <1>6 DEF Inv, TypeOK, queueVars, replyVars
<1>8. Progress(w)'
  BY <1>1, <1>2, <1>3, <1>5 DEF Progress
<1>9. QueueInv' /\ FinishedInv' /\ CountInv' /\ RunInv' /\ EmittedInv' /\ CompletedInv'
  BY <1>1, <1>3, <1>5, <1>8, WorkerMoves
<1> QED
  BY <1>7, <1>9 DEF Inv

\* cacheGet and DEL of the pending token count touch no row.
LEMMA PendingTokensInv ==
    ASSUME Inv, NEW w \in Workers, ReadPendingTokens(w) \/ DropPendingTokens(w) PROVE Inv'
<1> DEFINE found == PendingKey(Message(w)) \in pending
           step == IF pc[w] = "read" /\ found THEN "drop" ELSE "persist"
<1>1. /\ pc[w] \in {"read", "drop"}
      /\ pc' = [pc EXCEPT ![w] = step]
      /\ auto' = [auto EXCEPT ![w] = found] \/ UNCHANGED auto
      /\ pending' \subseteq pending
      /\ UNCHANGED <<queueVars, run, outcome, chatVars, cached, emitted>>
  BY DEF ReadPendingTokens, DropPendingTokens, replyVars
<1>2. step \in Steps \ {"idle"} /\ step \in {"drop", "persist"} /\ found \in BOOLEAN
  BY DEF Steps
<1> HIDE DEF step, found
<1>3. Progress(w)
  BY <1>1, BusyWorker
<1>4. UNCHANGED <<known, unread, members, row, unseen, overlapped>>
  BY <1>1 DEF chatVars
<1>5. TypeOK'
  BY <1>1, <1>2, <1>4 DEF Inv, TypeOK, queueVars
<1>6. /\ pc'[w] = step
      /\ outcome' = [outcome EXCEPT ![w] = outcome[w]]
      /\ Conversation(w)' = Conversation(w) /\ Message(w)' = Message(w)
  BY <1>1 DEF Inv, TypeOK, Conversation, Message
<1>7. Progress(w)'
  BY <1>1, <1>2, <1>3, <1>4, <1>6 DEF Progress, Sender
<1>8. QueueInv' /\ FinishedInv' /\ CountInv' /\ RunInv' /\ EmittedInv' /\ CompletedInv'
  BY <1>1, <1>2, <1>4, <1>6, <1>7, WorkerMoves
<1> QED
  BY <1>5, <1>8 DEF Inv

\* upsertInbound: the message has a row from here on.
LEMMA PersistMessageInv == ASSUME Inv, NEW w \in Workers, PersistMessage(w) PROVE Inv'
<1> DEFINE m == Message(w)
           r == IF auto[w] THEN "auto" ELSE "plain"
<1>1. /\ pc[w] = "persist"
      /\ row' = [row EXCEPT ![m] = r]
      /\ unseen' = IF row[m] = "none" /\ m \notin OwnMessages THEN unseen \cup {m} ELSE unseen
      /\ pc' = [pc EXCEPT ![w] = "emit"]
      /\ UNCHANGED <<queueVars, run, auto, outcome, known, unread, members, overlapped,
                     replyVars, emitted>>
  BY DEF PersistMessage
<1>2. m \in Messages /\ Progress(w)
  BY <1>1, BusyWorker
<1>3. r \in {"plain", "auto"}
  OBVIOUS
<1> HIDE DEF r
<1>4. /\ pc'[w] = "emit"
      /\ outcome' = [outcome EXCEPT ![w] = outcome[w]]
      /\ Conversation(w)' = Conversation(w) /\ Message(w)' = m
      /\ row'[m] # "none"
      /\ \A i \in Messages : row[i] # "none" => row'[i] # "none"
  BY <1>1, <1>2, <1>3 DEF Inv, TypeOK, Conversation, Message
<1>5. TypeOK'
  BY <1>1, <1>2, <1>3 DEF Inv, TypeOK, Steps, queueVars, replyVars
<1>6. Progress(w)'
  BY <1>1, <1>2, <1>4 DEF Progress, Sender
<1>7. QueueInv' /\ FinishedInv' /\ CountInv' /\ RunInv' /\ EmittedInv' /\ CompletedInv'
  BY <1>1, <1>4, <1>6, WorkerMoves DEF Steps
<1> QED
  BY <1>5, <1>7 DEF Inv

\* handle() throws: nothing more is written by this execution.
LEMMA HandleThrowsInv == ASSUME Inv, NEW w \in Workers, HandleThrows(w) PROVE Inv'
<1>1. /\ pc[w] # "idle"
      /\ pc' = [pc EXCEPT ![w] = "finish"]
      /\ outcome' = [outcome EXCEPT ![w] = "error"]
      /\ UNCHANGED <<queueVars, run, auto, known, unread, members, row, unseen, overlapped,
                     replyVars, emitted>>
  BY DEF HandleThrows, chatVars
<1>2. pc'[w] = "finish" /\ outcome'[w] = "error"
  BY <1>1 DEF Inv, TypeOK
<1>3. TypeOK'
  BY <1>1 DEF Inv, TypeOK, Steps, queueVars, replyVars
<1>4. Progress(w)'
  BY <1>2 DEF Progress
<1>5. QueueInv' /\ FinishedInv' /\ CountInv' /\ RunInv' /\ EmittedInv' /\ CompletedInv'
  BY <1>1, <1>4, WorkerMoves DEF Steps
<1> QED
  BY <1>3, <1>5 DEF Inv

\* message.received is emitted once the rows are written.
LEMMA EmitInv == ASSUME Inv, NEW w \in Workers, Emit(w) PROVE Inv'
<1>1. /\ pc[w] = "emit"
      /\ emitted' = emitted \cup {run[w]}
      /\ pc' = [pc EXCEPT ![w] = "finish"]
      /\ UNCHANGED <<queueVars, run, auto, outcome, known, unread, members, row, unseen,
                     overlapped, replyVars>>
  BY DEF Emit, chatVars
<1>2. /\ run[w] \in Executions /\ run[w] # None
      /\ run[w].n <= 1 + reruns[run[w].job] /\ Progress(w)
      /\ Conversation(w) = ConversationOf[run[w].job] /\ Message(w) = run[w].job
  BY <1>1, BusyWorker, ExecutionFields DEF Message
<1>3. QueueInv' /\ FinishedInv' /\ CountInv'
      /\ UNCHANGED <<delivered, waiting, job, finished, stalls, started, reruns>>
  BY <1>1, QueueUntouched
<1>4. TypeOK'
  BY <1>1, <1>2, <1>3 DEF Inv, TypeOK, Steps, replyVars
<1>5. RunInv'
  <2> SUFFICES ASSUME NEW v \in Workers PROVE RunsRightly(v)'
    BY DEF RunInv
  <2>1. RunsRightly(v) /\ pc'[v] = IF v = w THEN "finish" ELSE pc[v]
    BY <1>1 DEF Inv, TypeOK, RunInv
  <2>2. Message(v)' = Message(v) /\ Conversation(v)' = Conversation(v)
    BY <1>1 DEF Message, Conversation
  <2>3. Progress(v) => Progress(v)'
    BY <1>1, <2>1, <2>2 DEF Progress, Sender
  <2> QED
    BY <1>1, <1>3, <2>1, <2>3 DEF RunsRightly
<1>6. EmittedInv'
  BY <1>1, <1>2, <1>3 DEF Inv, EmittedInv, Progress, Sender
<1>7. CompletedInv'
  BY <1>1, <1>3 DEF Inv, CompletedInv, Announced
<1> QED
  BY <1>3, <1>4, <1>5, <1>6, <1>7 DEF Inv

\* A step of the queue that keeps the workers, the rows and the events.
LEMMA QueueMoves ==
    ASSUME Inv, UNCHANGED <<workerVars, chatVars, replyVars, emitted>>,
           reruns' \in [Messages -> Nat],
           \A m \in Messages : reruns[m] <= reruns'[m],
           \A m \in Messages : job'[m] = "completed" => job[m] = "completed"
    PROVE  RunInv' /\ EmittedInv' /\ CompletedInv'
<1>1. UNCHANGED <<pc, run, outcome, known, members, row>>
  BY DEF workerVars, chatVars
<1>2. RunInv'
  <2> SUFFICES ASSUME NEW w \in Workers PROVE RunsRightly(w)'
    BY DEF RunInv
  <2>1. RunsRightly(w)
    BY DEF Inv, RunInv
  <2>2. Message(w)' = Message(w) /\ Conversation(w)' = Conversation(w)
    BY <1>1 DEF Message, Conversation
  <2>3. Progress(w) => Progress(w)'
    BY <1>1, <2>2 DEF Progress, Sender
  <2>4. CASE run[w] = None
    BY <1>1, <2>1, <2>4 DEF RunsRightly
  <2>5. CASE run[w] # None
    <3>1. run[w].job \in Messages /\ run[w].n \in Nat /\ reruns[run[w].job] \in Nat
      BY <2>5, ExecutionFields DEF Inv, TypeOK
    <3> QED
      BY <1>1, <2>1, <2>3, <2>5, <3>1 DEF RunsRightly
  <2> QED
    BY <2>4, <2>5
<1>3. EmittedInv'
  <2> SUFFICES ASSUME NEW e \in emitted
               PROVE  /\ e.n <= 1 + reruns'[e.job]
                      /\ row[e.job] # "none"
                      /\ ConversationOf[e.job] \in known
                      /\ Sender(e.job) \in members[ConversationOf[e.job]]
    BY <1>1 DEF EmittedInv, Sender
  <2>1. e.job \in Messages /\ e.n \in Nat /\ reruns[e.job] \in Nat
    BY ExecutionFields DEF Inv, TypeOK
  <2> QED
    BY <2>1 DEF Inv, EmittedInv
<1>4. CompletedInv'
  BY DEF Inv, CompletedInv, Announced
<1> QED
  BY <1>2, <1>3, <1>4

\* A job that is neither waiting nor finished enters the wait list: it had
\* not run before, or one more execution of it is now paid for.
LEMMA EnqueueInv ==
    ASSUME Inv, NEW m \in Messages, Enqueue(m), job[m] \in {"none", "active"},
           UNCHANGED <<finished, started>>
    PROVE  /\ QueueInv' /\ FinishedInv' /\ CountInv'
           /\ waiting' \in Seq(Messages)
           /\ job' \in [Messages -> {"none", "waiting", "active", "completed", "failed"}]
           /\ reruns' \in [Messages -> Nat]
           /\ \A i \in Messages : reruns[i] <= reruns'[i]
           /\ \A i \in Messages : job'[i] = "completed" => job[i] = "completed"
<1>1. /\ waiting' = Append(waiting, m)
      /\ job' = [job EXCEPT ![m] = "waiting"]
      /\ reruns' = [reruns EXCEPT ![m] = IF started[m] = 0 THEN 0 ELSE @ + 1]
  BY DEF Enqueue
<1>2. \A i \in Messages : /\ job'[i] = IF i = m THEN "waiting" ELSE job[i]
                          /\ reruns[i] \in Nat /\ started[i] \in Nat
  BY <1>1 DEF Inv, TypeOK
<1>3. /\ started[m] = 0 => job[m] = "none" /\ reruns[m] = 0
      /\ started[m] # 0 => started[m] = reruns[m] + 1
  BY <1>2 DEF Inv, CountInv
<1>4. \A i \in Messages : reruns'[i] = IF i # m THEN reruns[i]
                                       ELSE IF started[m] = 0 THEN 0 ELSE reruns[m] + 1
  BY <1>1 DEF Inv, TypeOK
<1>5. QueueInv'
  <2>1. /\ Len(waiting) \in Nat
        /\ Len(waiting') = Len(waiting) + 1
        /\ waiting'[Len(waiting) + 1] = m
        /\ \A i \in 1 .. Len(waiting) : waiting'[i] = waiting[i] /\ waiting[i] \in Messages
    BY <1>1 DEF Inv, TypeOK
  <2>2. \A i \in 1 .. Len(waiting) : job[waiting[i]] = "waiting" /\ waiting[i] # m
    BY DEF Inv, QueueInv
  <2>3. ASSUME NEW i \in 1 .. Len(waiting'), NEW k \in 1 .. Len(waiting'), i # k
        PROVE  waiting'[i] # waiting'[k]
    BY <2>1, <2>2, <2>3 DEF Inv, QueueInv
  <2>4. \A i \in 1 .. Len(waiting') : job'[waiting'[i]] = "waiting"
    BY <1>2, <2>1, <2>2
  <2> QED
    BY <2>3, <2>4 DEF QueueInv
<1>6. FinishedInv'
  <2> SUFFICES ASSUME NEW s \in Outcomes, NEW i \in 1 .. Len(finished[s])
               PROVE  /\ job'[finished[s][i]] = s
                      /\ \A k \in 1 .. Len(finished[s]) : i # k => finished[s][i] # finished[s][k]
    BY DEF FinishedInv
  <2>1. finished[s][i] \in Messages /\ job[finished[s][i]] = s /\ finished[s][i] # m
    <3>1. s \in {"completed", "failed"} /\ finished[s] \in Seq(Messages)
      BY DEF Inv, TypeOK, Outcomes
    <3>2. finished[s][i] \in Messages
      BY <3>1
    <3>3. job[finished[s][i]] = s
      BY DEF Inv, FinishedInv
    <3> QED
      BY <3>1, <3>2, <3>3
  <2> QED
    BY <1>2, <2>1 DEF Inv, FinishedInv
<1>7. CountInv'
  <2> SUFFICES ASSUME NEW i \in Messages
               PROVE  IF job'[i] = "waiting" \/ (job'[i] = "none" /\ started[i] = 0)
                      THEN started[i] = reruns'[i] ELSE started[i] = reruns'[i] + 1
    BY DEF CountInv
  <2>1. CASE i = m
    BY <1>2, <1>3, <1>4, <2>1
  <2>2. CASE i # m
    BY <1>2, <1>4, <2>2 DEF Inv, CountInv
  <2> QED
    BY <2>1, <2>2
<1>8. /\ waiting' \in Seq(Messages)
      /\ job' \in [Messages -> {"none", "waiting", "active", "completed", "failed"}]
      /\ reruns' \in [Messages -> Nat]
  BY <1>1 DEF Inv, TypeOK
<1>9. \A i \in Messages : reruns[i] <= reruns'[i]
  BY <1>2, <1>3, <1>4
<1> QED
  BY <1>2, <1>5, <1>6, <1>7, <1>8, <1>9

\* publishInbound: a job the queue knows is not added again.
LEMMA DeliverInv == ASSUME Inv, NEW m \in Messages, Deliver(m) PROVE Inv'
<1>1. /\ delivered[m] < MaxDeliveries
      /\ delivered' = [delivered EXCEPT ![m] = @ + 1]
      /\ \/ job[m] = "none" /\ Enqueue(m)
         \/ job[m] # "none" /\ UNCHANGED <<waiting, job, reruns>>
      /\ UNCHANGED <<finished, stalls, started, workerVars, chatVars, replyVars, emitted>>
  BY DEF Deliver
<1>2. delivered' \in [Messages -> 0 .. MaxDeliveries]
  <2>1. delivered[m] + 1 \in 0 .. MaxDeliveries
    BY <1>1, InboundAssumption DEF Inv, TypeOK
  <2> QED
    BY <1>1, <2>1 DEF Inv, TypeOK
<1>3. CASE job[m] = "none" /\ Enqueue(m)
  <2>1. /\ QueueInv' /\ FinishedInv' /\ CountInv'
        /\ waiting' \in Seq(Messages)
        /\ job' \in [Messages -> {"none", "waiting", "active", "completed", "failed"}]
        /\ reruns' \in [Messages -> Nat]
        /\ \A i \in Messages : reruns[i] <= reruns'[i]
        /\ \A i \in Messages : job'[i] = "completed" => job[i] = "completed"
    BY <1>1, <1>3, EnqueueInv
  <2>2. RunInv' /\ EmittedInv' /\ CompletedInv'
    BY <1>1, <2>1, QueueMoves
  <2>3. TypeOK'
    BY <1>1, <1>2, <2>1 DEF Inv, TypeOK, workerVars, chatVars, replyVars
  <2> QED
    BY <2>1, <2>2, <2>3 DEF Inv
<1>4. CASE job[m] # "none" /\ UNCHANGED <<waiting, job, reruns>>
  <2>1. QueueInv' /\ FinishedInv' /\ CountInv'
    BY <1>1, <1>4 DEF Inv, QueueInv, FinishedInv, CountInv
  <2>2. RunInv' /\ EmittedInv' /\ CompletedInv'
    <3>1. reruns' \in [Messages -> Nat] /\ \A i \in Messages : reruns[i] <= reruns'[i]
      BY <1>4 DEF Inv, TypeOK
    <3> QED
      BY <1>1, <1>4, <3>1, QueueMoves
  <2>3. TypeOK'
    BY <1>1, <1>2, <1>4 DEF Inv, TypeOK, workerVars, chatVars, replyVars
  <2> QED
    BY <2>1, <2>2, <2>3 DEF Inv
<1> QED
  BY <1>1, <1>3, <1>4

\* The queue settles an active job and forgets at most one finished job.
LEMMA SettlesInv ==
    ASSUME Inv, NEW m \in Messages, NEW s \in Outcomes, NEW keep \in Nat,
           job[m] = "active", Settles(m, s, keep), UNCHANGED <<waiting, started, reruns>>
    PROVE  /\ QueueInv' /\ FinishedInv' /\ CountInv'
           /\ finished' \in [Outcomes -> Seq(Messages)]
           /\ job' \in [Messages -> {"none", "waiting", "active", "completed", "failed"}]
           /\ stalls' \in [Messages -> 0 .. MaxStalls]
           /\ \A i \in Messages : job'[i] = "completed" =>
                 job[i] = "completed" \/ (i = m /\ s = "completed")
<1> DEFINE all == Append(finished[s], m)
<1>1. /\ finished \in [Outcomes -> Seq(Messages)] /\ finished[s] \in Seq(Messages)
      /\ s \in {"completed", "failed"}
  BY DEF Inv, TypeOK, Outcomes
<1>2. /\ all \in Seq(Messages) /\ Len(finished[s]) \in Nat
      /\ Len(all) = Len(finished[s]) + 1 /\ Len(all) \in Nat
      /\ all[Len(all)] = m
      /\ \A i \in 1 .. Len(finished[s]) : all[i] = finished[s][i] /\ finished[s][i] \in Messages
  BY <1>1
<1>3. \A i \in 1 .. Len(finished[s]) : job[finished[s][i]] = s /\ finished[s][i] # m
  BY <1>1 DEF Inv, FinishedInv
<1>4. /\ \A i \in 1 .. Len(all) : all[i] \in Messages /\ (all[i] = m \/ job[all[i]] = s)
      /\ \A i, k \in 1 .. Len(all) : i # k => all[i] # all[k]
  <2>1. ASSUME NEW i \in 1 .. Len(all) PROVE all[i] \in Messages /\ (all[i] = m \/ job[all[i]] = s)
    BY <1>2, <1>3
  <2>2. ASSUME NEW i \in 1 .. Len(all), NEW k \in 1 .. Len(all), i # k PROVE all[i] # all[k]
    BY <1>2, <1>3, <2>2 DEF Inv, FinishedInv
  <2> QED
    BY <2>1, <2>2
<1>5. \/ /\ finished' = [finished EXCEPT ![s] = all]
         /\ job' = [job EXCEPT ![m] = s]
         /\ UNCHANGED stalls
      \/ /\ finished' = [finished EXCEPT ![s] = Tail(all)]
         /\ job' = [job EXCEPT ![m] = s, ![Head(all)] = "none"]
         /\ stalls' = [stalls EXCEPT ![Head(all)] = 0]
  BY DEF Settles
<1> HIDE DEF all
<1>6. /\ Head(all) = all[1] /\ 1 \in 1 .. Len(all) /\ Head(all) \in Messages
      /\ Tail(all) \in Seq(Messages) /\ Len(Tail(all)) = Len(all) - 1
      /\ \A i \in 1 .. Len(Tail(all)) : Tail(all)[i] = all[i + 1] /\ i + 1 \in 1 .. Len(all)
  BY <1>2, <1>4
<1>7. PICK gone \in {TRUE, FALSE} :
        /\ finished' = [finished EXCEPT ![s] = IF gone THEN Tail(all) ELSE all]
        /\ \A i \in Messages :
              job'[i] = IF gone /\ i = Head(all) THEN "none" ELSE IF i = m THEN s ELSE job[i]
        /\ job' \in [Messages -> {"none", "waiting", "active", "completed", "failed"}]
        /\ stalls' \in [Messages -> 0 .. MaxStalls]
  <2>1. CASE /\ finished' = [finished EXCEPT ![s] = all]
             /\ job' = [job EXCEPT ![m] = s]
             /\ UNCHANGED stalls
    <3>1. /\ \A i \in Messages : job'[i] = IF i = m THEN s ELSE job[i]
          /\ job' \in [Messages -> {"none", "waiting", "active", "completed", "failed"}]
          /\ stalls' \in [Messages -> 0 .. MaxStalls]
      BY <1>1, <2>1 DEF Inv, TypeOK
    <3> WITNESS FALSE \in {TRUE, FALSE}
    <3> QED
      BY <2>1, <3>1
  <2>2. CASE /\ finished' = [finished EXCEPT ![s] = Tail(all)]
             /\ job' = [job EXCEPT ![m] = s, ![Head(all)] = "none"]
             /\ stalls' = [stalls EXCEPT ![Head(all)] = 0]
    <3>1. /\ \A i \in Messages :
                job'[i] = IF i = Head(all) THEN "none" ELSE IF i = m THEN s ELSE job[i]
          /\ job' \in [Messages -> {"none", "waiting", "active", "completed", "failed"}]
      BY <1>1, <1>6, <2>2 DEF Inv, TypeOK
    <3>2. stalls' \in [Messages -> 0 .. MaxStalls]
      BY <1>6, <2>2, InboundAssumption DEF Inv, TypeOK
    <3> WITNESS TRUE \in {TRUE, FALSE}
    <3> QED
      BY <2>2, <3>1, <3>2
  <2> QED
    BY <1>5, <2>1, <2>2
<1>8. \A i \in Messages : job'[i] # job[i] => job[i] \in {"active", s} /\ job'[i] \in {"none", s}
  BY <1>1, <1>4, <1>6, <1>7
<1>9. QueueInv'
  <2>1. \A i \in 1 .. Len(waiting) : waiting[i] \in Messages /\ job[waiting[i]] = "waiting"
    BY SMTT(30) DEF Inv, TypeOK, QueueInv
  <2> QED
    BY <1>1, <1>8, <2>1 DEF Inv, QueueInv
<1>10. CountInv'
  <2> SUFFICES ASSUME NEW i \in Messages
               PROVE  IF job'[i] = "waiting" \/ (job'[i] = "none" /\ started[i] = 0)
                      THEN started[i] = reruns[i] ELSE started[i] = reruns[i] + 1
    BY DEF CountInv
  <2>1. started[i] \in Nat /\ reruns[i] \in Nat
    BY DEF Inv, TypeOK
  <2>2. IF job[i] = "waiting" \/ (job[i] = "none" /\ started[i] = 0)
        THEN started[i] = reruns[i] ELSE started[i] = reruns[i] + 1
    BY DEF Inv, CountInv
  <2> QED
    BY <1>1, <1>8, <2>1, <2>2
<1>11. FinishedInv'
  <2> SUFFICES ASSUME NEW t \in Outcomes, NEW i \in 1 .. Len(finished'[t])
               PROVE  /\ job'[finished'[t][i]] = t
                      /\ \A k \in 1 .. Len(finished'[t]) : i # k => finished'[t][i] # finished'[t][k]
    BY DEF FinishedInv
  <2>1. CASE t # s
    <3>1. finished'[t] = finished[t]
      BY <1>1, <1>7, <2>1
    <3>2. finished[t][i] \in Messages /\ job[finished[t][i]] = t /\ t # "active"
      BY <1>1, <3>1 DEF Inv, FinishedInv, Outcomes
    <3>3. job'[finished[t][i]] = t
      BY <1>8, <2>1, <3>2
    <3> QED
      BY <3>1, <3>3 DEF Inv, FinishedInv
  <2>2. CASE t = s /\ ~gone
    <3>1. finished'[t] = all
      BY <1>1, <1>7, <2>2
    <3> QED
      BY <1>4, <1>7, <2>2, <3>1
  <2>3. CASE t = s /\ gone
    <3>1. finished'[t] = Tail(all)
      BY <1>1, <1>7, <2>3
    <3>2. i + 1 \in 1 .. Len(all) /\ i + 1 # 1 /\ Tail(all)[i] = all[i + 1]
      BY <1>2, <1>6, <3>1
    <3>3. all[i + 1] # Head(all)
      BY <1>4, <1>6, <3>2
    <3>4. job'[all[i + 1]] = t
      BY <1>4, <1>7, <2>3, <3>2, <3>3
    <3>5. ASSUME NEW k \in 1 .. Len(finished'[t]), i # k PROVE finished'[t][i] # finished'[t][k]
      BY <1>2, <1>4, <1>6, <3>1, <3>5
    <3> QED
      BY <3>1, <3>2, <3>4, <3>5
  <2> QED
    BY <2>1, <2>2, <2>3
<1>12. finished' \in [Outcomes -> Seq(Messages)]
  BY <1>1, <1>2, <1>6, <1>7
<1>13. \A i \in Messages : job'[i] = "completed" =>
          job[i] = "completed" \/ (i = m /\ s = "completed")
  BY <1>1, <1>4, <1>6, <1>7
<1> QED
  BY <1>7, <1>9, <1>10, <1>11, <1>12, <1>13

\* A slot takes the first waiting job, whose execution has been paid for.
LEMMA FetchInv == ASSUME Inv, NEW w \in Workers, Fetch(w) PROVE Inv'
<1> DEFINE m == Head(waiting)
           e == [job |-> m, n |-> started[m] + 1]
<1>1. /\ pc[w] = "idle" /\ waiting # <<>>
      /\ job' = [job EXCEPT ![m] = "active"]
      /\ started' = [started EXCEPT ![m] = @ + 1]
      /\ run' = [run EXCEPT ![w] = e]
      /\ waiting' = Tail(waiting)
      /\ pc' = [pc EXCEPT ![w] = "conversation"]
      /\ UNCHANGED <<delivered, finished, stalls, reruns, auto, outcome, known, unread, members,
                     row, unseen, overlapped, replyVars, emitted>>
  BY DEF Fetch, chatVars
<1>2. /\ Len(waiting) \in Nat /\ Len(waiting) > 0
      /\ m = waiting[1] /\ m \in Messages
      /\ Len(waiting') = Len(waiting) - 1
      /\ \A i \in 1 .. Len(waiting') : waiting'[i] = waiting[i + 1] /\ waiting[i + 1] \in Messages
      /\ waiting' \in Seq(Messages)
  BY <1>1 DEF Inv, TypeOK
<1>3. /\ job[m] = "waiting"
      /\ \A i \in 2 .. Len(waiting) : waiting[i] # m /\ job[waiting[i]] = "waiting"
  BY <1>2 DEF Inv, QueueInv
<1>4. started[m] \in Nat /\ reruns[m] \in Nat /\ started[m] = reruns[m]
  BY <1>2, <1>3 DEF Inv, TypeOK, CountInv
<1>5. e \in Executions /\ e.job = m /\ e.n = started[m] + 1 /\ e # None
  BY <1>2, <1>4, ExecutionFields
<1>6. /\ \A i \in Messages : job'[i] = IF i = m THEN "active" ELSE job[i]
      /\ \A i \in Messages : started'[i] = IF i = m THEN started[i] + 1 ELSE started[i]
      /\ \A v \in Workers : run'[v] = IF v = w THEN e ELSE run[v]
      /\ \A v \in Workers : pc'[v] = IF v = w THEN "conversation" ELSE pc[v]
  BY <1>1, <1>2 DEF Inv, TypeOK
<1> HIDE DEF e, m
<1>7. TypeOK'
  <2>1. started' \in [Messages -> Nat] /\ waiting' \in Seq(Messages)
    BY <1>1, <1>2, <1>4 DEF Inv, TypeOK
  <2>2. /\ job' \in [Messages -> {"none", "waiting", "active", "completed", "failed"}]
        /\ run' \in [Workers -> Executions \cup {None}]
        /\ pc' \in [Workers -> Steps]
    BY <1>1, <1>2, <1>5 DEF Inv, TypeOK, Steps
  <2> QED
    BY <1>1, <2>1, <2>2 DEF Inv, TypeOK, replyVars
<1>8. QueueInv'
  <2>1. ASSUME NEW i \in 1 .. Len(waiting') PROVE job'[waiting'[i]] = "waiting"
    BY <1>2, <1>3, <1>6
  <2>2. ASSUME NEW i \in 1 .. Len(waiting'), NEW k \in 1 .. Len(waiting'), i # k
        PROVE  waiting'[i] # waiting'[k]
    BY <1>2, <2>2 DEF Inv, QueueInv
  <2> QED
    BY <2>1, <2>2 DEF QueueInv
<1>9. FinishedInv'
  <2> SUFFICES ASSUME NEW s \in Outcomes, NEW i \in 1 .. Len(finished[s])
               PROVE  job'[finished[s][i]] = s
    BY <1>1 DEF Inv, FinishedInv
  <2>1. s \in {"completed", "failed"} /\ finished[s] \in Seq(Messages)
    BY DEF Inv, TypeOK, Outcomes
  <2>2. finished[s][i] \in Messages /\ job[finished[s][i]] = s
    BY <2>1 DEF Inv, FinishedInv
  <2> QED
    BY <1>3, <1>6, <2>1, <2>2
<1>10. CountInv'
  BY <1>1, <1>4, <1>6 DEF Inv, CountInv
<1>11. RunInv'
  <2> SUFFICES ASSUME NEW v \in Workers PROVE RunsRightly(v)'
    BY DEF RunInv
  <2>1. CASE v = w
    BY <1>1, <1>4, <1>5, <1>6, <2>1 DEF RunsRightly, Progress
  <2>2. CASE v # w
    <3>1. RunsRightly(v) /\ pc'[v] = pc[v] /\ run'[v] = run[v]
      BY <1>6, <2>2 DEF Inv, RunInv
    <3>2. Message(v)' = Message(v) /\ Conversation(v)' = Conversation(v)
      BY <3>1 DEF Message, Conversation
    <3>3. Progress(v) => Progress(v)'
      BY <1>1, <3>1, <3>2 DEF Progress, Sender
    <3> QED
      BY <1>1, <3>1, <3>3 DEF RunsRightly
  <2> QED
    BY <2>1, <2>2
<1>12. EmittedInv'
  BY <1>1 DEF Inv, EmittedInv, Sender
<1>13. CompletedInv'
  BY <1>1, <1>6 DEF Inv, CompletedInv, Announced
<1> QED
  BY <1>7, <1>8, <1>9, <1>10, <1>11, <1>12, <1>13 DEF Inv

\* The slot of worker w is empty and the others are untouched.
LEMMA SlotFreed ==
    ASSUME Inv, NEW w \in Workers, LeavesWorker(w),
           UNCHANGED <<reruns, chatVars, replyVars, emitted>>
    PROVE  /\ pc' \in [Workers -> Steps]
           /\ run' \in [Workers -> Executions \cup {None}]
           /\ auto' \in [Workers -> BOOLEAN]
           /\ outcome' \in [Workers -> {"ok", "error"}]
           /\ RunInv' /\ EmittedInv'
<1>1. /\ pc' = [pc EXCEPT ![w] = "idle"]
      /\ run' = [run EXCEPT ![w] = None]
      /\ auto' = [auto EXCEPT ![w] = FALSE]
      /\ outcome' = [outcome EXCEPT ![w] = "ok"]
      /\ UNCHANGED <<reruns, known, members, row, emitted>>
  BY DEF LeavesWorker, chatVars
<1>2. /\ pc' \in [Workers -> Steps]
      /\ run' \in [Workers -> Executions \cup {None}]
      /\ auto' \in [Workers -> BOOLEAN]
      /\ outcome' \in [Workers -> {"ok", "error"}]
      /\ pc'[w] = "idle" /\ run'[w] = None
      /\ \A v \in Workers : v # w =>
            pc'[v] = pc[v] /\ run'[v] = run[v] /\ outcome'[v] = outcome[v]
  BY <1>1 DEF Inv, TypeOK, Steps
<1>3. RunInv'
  <2> SUFFICES ASSUME NEW v \in Workers PROVE RunsRightly(v)'
    BY DEF RunInv
  <2>1. CASE v = w
    BY <1>2, <2>1 DEF RunsRightly
  <2>2. CASE v # w
    <3>1. RunsRightly(v) /\ pc'[v] = pc[v] /\ run'[v] = run[v] /\ outcome'[v] = outcome[v]
      BY <1>2, <2>2 DEF Inv, RunInv
    <3>2. Message(v)' = Message(v) /\ Conversation(v)' = Conversation(v)
      BY <3>1 DEF Message, Conversation
    <3>3. Progress(v) => Progress(v)'
      BY <1>1, <3>1, <3>2 DEF Progress, Sender
    <3> QED
      BY <1>1, <3>1, <3>3 DEF RunsRightly
  <2> QED
    BY <2>1, <2>2
<1>4. EmittedInv'
  BY <1>1 DEF Inv, EmittedInv, Sender
<1> QED
  BY <1>2, <1>3, <1>4

\* A process dies: queue, rows and events are untouched.
LEMMA CrashInv == ASSUME Inv, NEW w \in Workers, Crash(w) PROVE Inv'
<1>1. LeavesWorker(w) /\ UNCHANGED <<queueVars, chatVars, replyVars, emitted>>
  BY DEF Crash
<1>2. QueueInv' /\ FinishedInv' /\ CountInv'
      /\ UNCHANGED <<delivered, waiting, job, finished, stalls, started, reruns>>
  BY <1>1, QueueUntouched
<1>3. /\ pc' \in [Workers -> Steps]
      /\ run' \in [Workers -> Executions \cup {None}]
      /\ auto' \in [Workers -> BOOLEAN]
      /\ outcome' \in [Workers -> {"ok", "error"}]
      /\ RunInv' /\ EmittedInv'
  BY <1>1, <1>2, SlotFreed
<1>4. TypeOK'
  BY <1>1, <1>2, <1>3 DEF Inv, TypeOK, chatVars, replyVars
<1>5. CompletedInv'
  BY <1>1, <1>2 DEF Inv, CompletedInv, Announced
<1> QED
  BY <1>2, <1>3, <1>4, <1>5 DEF Inv

\* process() is over: a job completes only if its execution announced the
\* message.
LEMMA FinishInv == ASSUME Inv, NEW w \in Workers, Finish(w) PROVE Inv'
<1> DEFINE m == Message(w)
<1>1. /\ pc[w] = "finish"
      /\ \/ /\ IsCurrent(run[w])
            /\ \/ outcome[w] = "ok" /\ Settles(m, "completed", KeepCompleted)
               \/ outcome[w] = "error" /\ Settles(m, "failed", KeepFailed)
         \/ ~IsCurrent(run[w]) /\ UNCHANGED <<finished, job, stalls>>
      /\ LeavesWorker(w)
      /\ UNCHANGED <<delivered, waiting, started, reruns, chatVars, replyVars, emitted>>
  BY DEF Finish
<1>2. m \in Messages /\ m = run[w].job /\ Progress(w)
  BY <1>1, BusyWorker DEF Message
<1>3. /\ pc' \in [Workers -> Steps]
      /\ run' \in [Workers -> Executions \cup {None}]
      /\ auto' \in [Workers -> BOOLEAN]
      /\ outcome' \in [Workers -> {"ok", "error"}]
      /\ RunInv' /\ EmittedInv'
  BY <1>1, SlotFreed
<1>4. CASE ~IsCurrent(run[w]) /\ UNCHANGED <<finished, job, stalls>>
  <2>1. UNCHANGED queueVars
    BY <1>1, <1>4 DEF queueVars
  <2>2. QueueInv' /\ FinishedInv' /\ CountInv'
        /\ UNCHANGED <<delivered, waiting, job, finished, stalls, started, reruns>>
    BY <2>1, QueueUntouched
  <2>3. TypeOK'
    BY <1>1, <1>3, <2>2 DEF Inv, TypeOK, chatVars, replyVars
  <2>4. CompletedInv'
    BY <1>1, <2>2 DEF Inv, CompletedInv, Announced
  <2> QED
    BY <1>3, <2>2, <2>3, <2>4 DEF Inv
<1>5. CASE IsCurrent(run[w])
  <2>1. job[m] = "active"
    BY <1>2, <1>5 DEF IsCurrent
  <2>2. outcome[w] = "ok" => Announced(m)
    BY <1>1, <1>2 DEF Progress, Announced
  <2>3. PICK s \in Outcomes, keep \in Nat :
          Settles(m, s, keep) /\ (s = "completed" => outcome[w] = "ok")
    BY <1>1, <1>5, InboundAssumption DEF Outcomes
  <2> HIDE DEF m
  <2>4. /\ QueueInv' /\ FinishedInv' /\ CountInv'
        /\ finished' \in [Outcomes -> Seq(Messages)]
        /\ job' \in [Messages -> {"none", "waiting", "active", "completed", "failed"}]
        /\ stalls' \in [Messages -> 0 .. MaxStalls]
        /\ \A i \in Messages : job'[i] = "completed" =>
              job[i] = "completed" \/ (i = m /\ s = "completed")
    BY <1>1, <1>2, <2>1, <2>3, SettlesInv
  <2>5. TypeOK'
    BY <1>1, <1>3, <2>4 DEF Inv, TypeOK, Outcomes, chatVars, replyVars
  <2>6. CompletedInv'
    BY <1>1, <2>2, <2>3, <2>4 DEF Inv, CompletedInv, Announced
  <2> QED
    BY <1>3, <2>4, <2>5, <2>6 DEF Inv
<1> QED
  BY <1>1, <1>4, <1>5

\* A stalled job runs again, which counts as a re-run, or fails.
LEMMA StallInv == ASSUME Inv, NEW m \in Messages, Stall(m) PROVE Inv'
<1>1. /\ job[m] = "active"
      /\ \/ /\ stalls[m] < MaxStalls
            /\ stalls' = [stalls EXCEPT ![m] = @ + 1]
            /\ Enqueue(m)
            /\ UNCHANGED finished
         \/ /\ stalls[m] = MaxStalls
            /\ Settles(m, "failed", KeepFailed)
            /\ UNCHANGED <<waiting, reruns>>
      /\ UNCHANGED <<delivered, started, workerVars, chatVars, replyVars, emitted>>
  BY DEF Stall
<1>2. CASE /\ stalls[m] < MaxStalls
           /\ stalls' = [stalls EXCEPT ![m] = @ + 1]
           /\ Enqueue(m)
           /\ UNCHANGED finished
  <2>1. /\ QueueInv' /\ FinishedInv' /\ CountInv'
        /\ waiting' \in Seq(Messages)
        /\ job' \in [Messages -> {"none", "waiting", "active", "completed", "failed"}]
        /\ reruns' \in [Messages -> Nat]
        /\ \A i \in Messages : reruns[i] <= reruns'[i]
        /\ \A i \in Messages : job'[i] = "completed" => job[i] = "completed"
    BY <1>1, <1>2, EnqueueInv
  <2>2. RunInv' /\ EmittedInv' /\ CompletedInv'
    BY <1>1, <2>1, QueueMoves
  <2>3. stalls' \in [Messages -> 0 .. MaxStalls]
    <3>1. stalls[m] + 1 \in 0 .. MaxStalls
      BY <1>2, InboundAssumption DEF Inv, TypeOK
    <3> QED
      BY <1>2, <3>1 DEF Inv, TypeOK
  <2>4. TypeOK'
    BY <1>1, <1>2, <2>1, <2>3 DEF Inv, TypeOK, workerVars, chatVars, replyVars
  <2> QED
    BY <2>1, <2>2, <2>4 DEF Inv
<1>3. CASE Settles(m, "failed", KeepFailed) /\ UNCHANGED <<waiting, reruns>>
  <2>1. "failed" \in Outcomes /\ KeepFailed \in Nat
    BY InboundAssumption DEF Outcomes
  <2>2. /\ QueueInv' /\ FinishedInv' /\ CountInv'
        /\ finished' \in [Outcomes -> Seq(Messages)]
        /\ job' \in [Messages -> {"none", "waiting", "active", "completed", "failed"}]
        /\ stalls' \in [Messages -> 0 .. MaxStalls]
        /\ \A i \in Messages : job'[i] = "completed" => job[i] = "completed"
    BY <1>1, <1>3, <2>1, SettlesInv
  <2>3. reruns' \in [Messages -> Nat] /\ \A i \in Messages : reruns[i] <= reruns'[i]
    BY <1>3 DEF Inv, TypeOK
  <2>4. RunInv' /\ EmittedInv' /\ CompletedInv'
    BY <1>1, <2>2, <2>3, QueueMoves
  <2>5. TypeOK'
    BY <1>1, <1>3, <2>2 DEF Inv, TypeOK, Outcomes, workerVars, chatVars, replyVars
  <2> QED
    BY <2>2, <2>4, <2>5 DEF Inv
<1> QED
  BY <1>1, <1>2, <1>3

\* The reply cache and markRead touch neither the queue nor the rows.
LEMMA EnvironmentInv ==
    ASSUME Inv,
           \/ \E c \in Conversations : MarkRead(c) \/ \E x \in Texts : CacheReplyTokens(c, x)
           \/ \E k \in Keys : ExpireTokens(k)
    PROVE  Inv'
<1> DEFINE Harmless ==
      /\ UNCHANGED <<queueVars, workerVars, known, members, row, emitted>>
      /\ unread' \in [Conversations -> Nat]
      /\ unseen' \in SUBSET Messages
      /\ overlapped' \in SUBSET Executions
      /\ pending' \in SUBSET Keys
      /\ cached' \in [Keys -> 0 .. MaxReplies]
<1>1. ASSUME NEW c \in Conversations, MarkRead(c) PROVE Harmless
  <2>1. InFlight(c) \subseteq Executions
    BY BusyWorker DEF InFlight
  <2> QED
    BY <1>1, <2>1 DEF MarkRead, Read, Inv, TypeOK, replyVars
<1>2. ASSUME NEW c \in Conversations, NEW x \in Texts, CacheReplyTokens(c, x) PROVE Harmless
  <2>1. <<c, x>> \in Keys
    BY DEF Keys
  <2>2. cached[<<c, x>>] + 1 \in 0 .. MaxReplies
    <3> DEFINE times == cached[<<c, x>>]
    <3>1. times \in 0 .. MaxReplies
      BY <2>1 DEF Inv, TypeOK
    <3>2. times < MaxReplies
      BY <1>2 DEF CacheReplyTokens
    <3> HIDE DEF times
    <3>3. times + 1 \in 0 .. MaxReplies
      BY <3>1, <3>2, InboundAssumption
    <3> QED
      BY <3>3 DEF times
  <2> QED
    BY <1>2, <2>1, <2>2 DEF CacheReplyTokens, Inv, TypeOK, chatVars
<1>3. ASSUME NEW k \in Keys, ExpireTokens(k) PROVE Harmless
  BY <1>3 DEF ExpireTokens, Inv, TypeOK, chatVars
<1>4. Harmless
  BY <1>1, <1>2, <1>3
<1>5. QueueInv' /\ FinishedInv' /\ CountInv'
      /\ UNCHANGED <<delivered, waiting, job, finished, stalls, started, reruns>>
  BY <1>4, QueueUntouched
<1>6. TypeOK'
  BY <1>4, <1>5 DEF Inv, TypeOK, workerVars
<1>7. EmittedInv' /\ CompletedInv'
  BY <1>4, <1>5 DEF Inv, EmittedInv, CompletedInv, Announced, Sender
<1>8. RunInv'
  <2> SUFFICES ASSUME NEW v \in Workers PROVE RunsRightly(v)'
    BY DEF RunInv
  <2>1. RunsRightly(v) /\ UNCHANGED <<pc, run, outcome>>
    BY <1>4 DEF Inv, RunInv, workerVars
  <2>2. Message(v)' = Message(v) /\ Conversation(v)' = Conversation(v)
    BY <2>1 DEF Message, Conversation
  <2>3. Progress(v) => Progress(v)'
    BY <1>4, <2>1, <2>2 DEF Progress, Sender
  <2> QED
    BY <1>5, <2>1, <2>3 DEF RunsRightly
<1> QED
  BY <1>5, <1>6, <1>7, <1>8 DEF Inv

-----------------------------------------------------------------------------
\* Every step keeps the invariant.
LEMMA NextInv == ASSUME Inv, [Next]_vars PROVE Inv'
<1>1. ASSUME NEW m \in Messages, Deliver(m) \/ Stall(m) PROVE Inv'
  BY <1>1, DeliverInv, StallInv
<1>2. ASSUME NEW w \in Workers, Fetch(w) \/ Handle(w) \/ Crash(w) PROVE Inv'
  BY <1>2, FetchInv, UpsertConversationInv, UpsertParticipantInv, PendingTokensInv,
     PersistMessageInv, EmitInv, HandleThrowsInv, FinishInv, CrashInv DEF Handle
<1>3. CASE UNCHANGED vars
  BY <1>3 DEF vars, queueVars, workerVars, chatVars, replyVars, Inv, TypeOK, QueueInv,
     FinishedInv, CountInv, RunInv, RunsRightly, Progress, Message, Conversation, EmittedInv,
     CompletedInv, Announced, Sender
<1> QED
  BY <1>1, <1>2, <1>3, EnvironmentInv DEF Next

\* Inv is an invariant of the inbound queue.
LEMMA Invariance == Spec => []Inv
<1>1. Init => Inv
  BY InitInv
<1>2. Inv /\ [Next]_vars => Inv'
  BY NextInv
<1> QED
  BY <1>1, <1>2, PTL DEF Spec

\* Every variable of the inbound queue keeps its type.
THEOREM TypeCorrect == Spec => []TypeOK
BY Invariance, PTL DEF Inv

\* Whatever crashes, stalls, errors and redeliveries there are, the listeners
\* of message.received find the rows it speaks of, and a completed job has
\* emitted it.
THEOREM RowsBeforeEvents == Spec => []StoredBeforeAnnounced
<1>1. Inv => StoredBeforeAnnounced
  BY DEF Inv, EmittedInv, CompletedInv, StoredBeforeAnnounced, Announced
<1> QED
  BY <1>1, Invariance, PTL

\* However often the channel delivers a message, it is announced again only
\* after a stall or after the queue forgot its job.
THEOREM NoSecondEventWithoutRerun == Spec => []AnnouncedOncePerRun
<1>1. Inv => AnnouncedOncePerRun
  BY DEF Inv, EmittedInv, AnnouncedOncePerRun
<1> QED
  BY <1>1, Invariance, PTL

-----------------------------------------------------------------------------
(* The echoes of generated replies                                         *)

\* A token count in Redis, one that a worker has read and one in a row each go back
\* to a reply that was generated for that conversation.
HasSource(m) == MayBeEcho(m) /\ cached[PendingKey(m)] > 0

EchoInv ==
    /\ \A k \in pending : cached[k] > 0
    /\ \A w \in Workers :
          /\ auto[w] => pc[w] # "idle" /\ HasSource(Message(w))
          /\ pc[w] \in {"read", "drop"} => MayBeEcho(Message(w))
    /\ \A m \in Messages : row[m] = "auto" => HasSource(m)

-----------------------------------------------------------------------------
(* The unread counter                                                      *)

\* Steps of handle() before it ends, and those at which the message is counted
\* and not yet stored.
Counting == {"participant", "read", "drop", "persist"}
Handling == Counting \cup {"conversation", "emit"}

\* Each execution is in one worker, and announces the message once; the first
\* one of a message finds no row of it.
ExecutionInv ==
    /\ \A w \in Workers : run[w] # None =>
          /\ run[w].n \in 1 .. started[run[w].job]
          /\ \A v \in Workers : run[v] = run[w] => v = w
          /\ pc[w] \in Handling => run[w] \notin emitted
          /\ pc[w] \in Counting \cup {"conversation"} /\ started[run[w].job] = 1 =>
                row[run[w].job] = "none"
    /\ \A e \in emitted : e.n \in 1 .. started[e.job]
    /\ \A m \in Messages : started[m] = 0 => row[m] = "none"
    /\ \A m \in unseen : m \notin OwnMessages /\ row[m] # "none"

\* What the counter is about: messages stored since the last read, and those that
\* are counted and not yet stored, but for the ones that were overlapped.
Counts(m) ==
    /\ m \notin OwnMessages /\ ~Overlapped(m)
    /\ \/ m \in unseen
       \/ row[m] = "none" /\ \E w \in Workers : pc[w] \in Counting /\ Message(w) = m

Counted(c) == {m \in MessagesIn(c) : Counts(m)}

\* Nothing has disturbed the message so far.
Sound(m) ==
    /\ reruns[m] = 0 /\ ~Overlapped(m)
    /\ \/ started[m] = 0 \/ Announced(m)
       \/ \E w \in Workers : pc[w] \in Handling /\ Message(w) = m

Clean(c) == \A m \in MessagesIn(c) : Sound(m)

UnreadInv ==
    \A c \in Conversations :
        /\ IsFiniteSet(Counted(c)) /\ Cardinality(Counted(c)) <= unread[c]
        /\ Clean(c) => unread[c] = Cardinality(Counted(c))

-----------------------------------------------------------------------------
(* Proof of AutoReplyHasSource                                             *)

\* The key of an echo is one of Redis's, and what was cached stays on record.
LEMMA SourceStays ==
    ASSUME Inv, NEW m, HasSource(m),
           \A k \in Keys : cached[k] \in Nat => cached'[k] \in Nat /\ cached'[k] >= cached[k]
    PROVE  HasSource(m)'
<1>1. m \in Messages /\ TextOf[m] \in Texts /\ ConversationOf[m] \in Conversations
  BY InboundAssumption DEF HasSource, MayBeEcho
<1>2. PendingKey(m) \in Keys
  BY <1>1 DEF PendingKey, Keys
<1>3. cached[PendingKey(m)] \in Nat
  BY <1>2, InboundAssumption DEF Inv, TypeOK
<1> QED
  BY <1>2, <1>3 DEF HasSource, MayBeEcho, PendingKey

\* A step that leaves the rows and the counts alone, where every worker goes on, but
\* not to the reading of a count, or becomes free.
LEMMA EchoUntouched ==
    ASSUME Inv, EchoInv, UNCHANGED <<row, replyVars>>,
           \A w \in Workers :
              \/ auto'[w] = FALSE /\ pc'[w] \notin {"read", "drop"}
              \/ /\ auto'[w] = auto[w] /\ run'[w] = run[w] /\ pc'[w] # "idle"
                 /\ pc'[w] \in {"read", "drop"} => pc[w] \in {"read", "drop"}
              \/ auto'[w] = auto[w] /\ run'[w] = run[w] /\ pc'[w] = pc[w]
    PROVE  EchoInv'
<1>1. UNCHANGED <<pending, cached>>
  BY DEF replyVars
<1>2. \A m : HasSource(m) => HasSource(m)'
  BY <1>1 DEF HasSource, MayBeEcho, PendingKey
<1>3. \A w \in Workers : run'[w] = run[w] => Message(w)' = Message(w)
  BY DEF Message
<1>4. \A m : MayBeEcho(m)' = MayBeEcho(m)
  BY DEF MayBeEcho
<1> QED
  BY <1>1, <1>2, <1>3, <1>4 DEF EchoInv

\* persistInbound marks a row only with a count that it has read.
LEMMA EchoOfWorker ==
    ASSUME Inv, Inv', EchoInv, NEW w \in Workers, Handle(w)
    PROVE  EchoInv'
<1>1. CASE UpsertConversation(w)
  BY <1>1, EchoUntouched DEF UpsertConversation, Inv, TypeOK
<1>2. CASE UpsertParticipant(w)
  <2>1. /\ \A v \in Workers : v # w => pc'[v] = pc[v]
        /\ pc'[w] = IF MayBeEcho(Message(w)) THEN "read" ELSE "persist"
        /\ UNCHANGED <<run, auto, row, pending, cached>>
    BY <1>2 DEF UpsertParticipant, Inv, TypeOK, replyVars
  <2>2. \A m : HasSource(m)' = HasSource(m) /\ MayBeEcho(m)' = MayBeEcho(m)
    BY <2>1 DEF HasSource, MayBeEcho, PendingKey
  <2>3. \A v \in Workers : Message(v)' = Message(v)
    BY <2>1 DEF Message
  <2> QED
    BY <2>1, <2>2, <2>3 DEF EchoInv
<1>3. CASE ReadPendingTokens(w)
  <2> DEFINE m == Message(w)
  <2>1. /\ pc[w] = "read" /\ pc'[w] \in {"drop", "persist"}
        /\ \A v \in Workers : v # w => pc'[v] = pc[v] /\ auto'[v] = auto[v]
        /\ auto'[w] = (PendingKey(m) \in pending)
        /\ UNCHANGED <<run, row, pending, cached>>
    BY <1>3 DEF ReadPendingTokens, Inv, TypeOK, replyVars, chatVars
  <2>2. \A x : HasSource(x)' = HasSource(x) /\ MayBeEcho(x)' = MayBeEcho(x)
    BY <2>1 DEF HasSource, MayBeEcho, PendingKey
  <2>3. \A v \in Workers : Message(v)' = Message(v)
    BY <2>1 DEF Message
  <2>4. MayBeEcho(m) /\ (auto'[w] => HasSource(m))
    BY <2>1 DEF EchoInv, HasSource
  <2> QED
    BY <2>1, <2>2, <2>3, <2>4 DEF EchoInv
<1>4. CASE DropPendingTokens(w)
  <2>1. /\ pc[w] = "drop" /\ pc'[w] = "persist" /\ pending' \subseteq pending
        /\ \A v \in Workers : v # w => pc'[v] = pc[v]
        /\ UNCHANGED <<run, auto, row, cached>>
    BY <1>4 DEF DropPendingTokens, Inv, TypeOK, chatVars
  <2>2. \A x : HasSource(x)' = HasSource(x) /\ MayBeEcho(x)' = MayBeEcho(x)
    BY <2>1 DEF HasSource, MayBeEcho, PendingKey
  <2>3. \A v \in Workers : Message(v)' = Message(v)
    BY <2>1 DEF Message
  <2> QED
    BY <2>1, <2>2, <2>3 DEF EchoInv
<1>5. CASE PersistMessage(w)
  <2> DEFINE m == Message(w)
  <2>1. /\ pc[w] = "persist" /\ pc'[w] = "emit"
        /\ \A v \in Workers : v # w => pc'[v] = pc[v]
        /\ row' = [row EXCEPT ![m] = IF auto[w] THEN "auto" ELSE "plain"]
        /\ UNCHANGED <<run, auto, pending, cached>>
    BY <1>5 DEF PersistMessage, Inv, TypeOK, replyVars
  <2>4. m \in Messages
    BY <2>1, BusyWorker
  <2> HIDE DEF m
  <2>5. \A x \in Messages : row'[x] = "auto" => row[x] = "auto" \/ (x = m /\ auto[w])
    BY <2>1, <2>4 DEF Inv, TypeOK
  <2>2. \A x : HasSource(x)' = HasSource(x) /\ MayBeEcho(x)' = MayBeEcho(x)
    BY <2>1 DEF HasSource, MayBeEcho, PendingKey
  <2>3. \A v \in Workers : Message(v)' = Message(v)
    BY <2>1 DEF Message
  <2> QED
    BY <2>1, <2>2, <2>3, <2>5 DEF EchoInv, m
<1>6. CASE Emit(w)
  BY <1>6, EchoUntouched DEF Emit, Inv, TypeOK, chatVars
<1>7. CASE HandleThrows(w)
  BY <1>7, EchoUntouched DEF HandleThrows, Inv, TypeOK, chatVars
<1>8. CASE Finish(w)
  BY <1>8, EchoUntouched DEF Finish, LeavesWorker, Inv, TypeOK, chatVars
<1> QED
  BY <1>1, <1>2, <1>3, <1>4, <1>5, <1>6, <1>7, <1>8 DEF Handle

\* Every step keeps the origin of the counts.
LEMMA EchoStep == ASSUME Inv, Inv', EchoInv, [Next]_vars PROVE EchoInv'
<1>1. ASSUME NEW m \in Messages, Deliver(m) \/ Stall(m) PROVE EchoInv'
  <2>1. UNCHANGED <<pc, run, auto, row, replyVars>>
    BY <1>1 DEF Deliver, Stall, workerVars, chatVars
  <2> QED
    BY <2>1, EchoUntouched
<1>2. ASSUME NEW w \in Workers, Fetch(w) PROVE EchoInv'
  <2>1. auto[w] = FALSE
    BY <1>2 DEF Fetch, EchoInv, Inv, TypeOK
  <2>2. /\ UNCHANGED <<row, replyVars, auto>> /\ pc'[w] \notin {"read", "drop"}
        /\ \A v \in Workers \ {w} : run'[v] = run[v] /\ pc'[v] = pc[v]
    BY <1>2 DEF Fetch, Inv, TypeOK, chatVars
  <2>3. \A v \in Workers :
           \/ auto'[v] = FALSE /\ pc'[v] \notin {"read", "drop"}
           \/ auto'[v] = auto[v] /\ run'[v] = run[v] /\ pc'[v] = pc[v]
    BY <2>1, <2>2
  <2> QED
    BY <2>2, <2>3, EchoUntouched
<1>3. ASSUME NEW w \in Workers, Crash(w) PROVE EchoInv'
  BY <1>3, EchoUntouched DEF Crash, LeavesWorker, Inv, TypeOK, chatVars
<1>4. ASSUME NEW c \in Conversations, MarkRead(c) PROVE EchoInv'
  BY <1>4, EchoUntouched DEF MarkRead, workerVars
<1>5. ASSUME NEW c \in Conversations, NEW x \in Texts, CacheReplyTokens(c, x) PROVE EchoInv'
  <2>1. <<c, x>> \in Keys
    BY DEF Keys
  <2>2. /\ \A k \in Keys : cached[k] \in Nat
        /\ \A k \in Keys : cached'[k] = IF k = <<c, x>> THEN cached[k] + 1 ELSE cached[k]
    <3>1. cached \in [Keys -> 0 .. MaxReplies] /\ MaxReplies \in Nat
      BY InboundAssumption DEF Inv, TypeOK
    <3>2. cached' = [cached EXCEPT ![<<c, x>>] = @ + 1]
      BY <1>5 DEF CacheReplyTokens
    <3> DEFINE key == <<c, x>>
    <3> HIDE DEF key
    <3>3. \A k \in Keys : cached'[k] = IF k = key THEN cached[k] + 1 ELSE cached[k]
      BY <3>1, <3>2 DEF key
    <3> QED
      BY <3>1, <3>3 DEF key
  <2>3. /\ pending' = pending \cup {<<c, x>>} /\ pending \subseteq Keys
        /\ UNCHANGED <<pc, run, auto, row>>
    BY <1>5 DEF CacheReplyTokens, workerVars, chatVars, Inv, TypeOK
  <2>4. \A m : HasSource(m) => HasSource(m)'
    BY <2>2, SourceStays
  <2>5. \A v \in Workers : Message(v)' = Message(v)
    BY <2>3 DEF Message
  <2>6. \A m : MayBeEcho(m)' = MayBeEcho(m)
    BY DEF MayBeEcho
  <2>7. \A k \in pending' : cached'[k] > 0
    BY <2>1, <2>2, <2>3 DEF EchoInv
  <2> QED
    BY <2>3, <2>4, <2>5, <2>6, <2>7 DEF EchoInv
<1>6. ASSUME NEW k \in Keys, ExpireTokens(k) PROVE EchoInv'
  <2>1. UNCHANGED <<pc, run, auto, row, cached>> /\ pending' \subseteq pending
    BY <1>6 DEF ExpireTokens, workerVars, chatVars
  <2> QED
    BY <2>1 DEF EchoInv, HasSource, MayBeEcho, PendingKey, Message
<1>7. CASE UNCHANGED vars
  BY <1>7, EchoUntouched DEF vars, workerVars, chatVars
<1> QED
  BY <1>1, <1>2, <1>3, <1>4, <1>5, <1>6, <1>7, EchoOfWorker DEF Next

\* BotResponseService and persistInbound: a message is stored as the bot's own only if
\* the bot generated a reply of that text for that conversation, whatever expires,
\* crashes or is handled again.
THEOREM MarkedRepliesWereGenerated == Spec => []AutoReplyHasSource
<1>1. Init => EchoInv
  BY DEF Init, EchoInv
<1>2. Inv /\ Inv' /\ EchoInv /\ [Next]_vars => EchoInv'
  BY EchoStep
<1>3. EchoInv => AutoReplyHasSource
  <2> SUFFICES ASSUME EchoInv, NEW m \in OwnMessages, row[m] = "auto"
               PROVE  cached[<<ConversationOf[m], TextOf[m]>>] > 0
    BY DEF AutoReplyHasSource
  <2> QED
    BY InboundAssumption DEF EchoInv, HasSource, PendingKey
<1> QED
  BY <1>1, <1>2, <1>3, Invariance, PTL DEF Spec

-----------------------------------------------------------------------------
(* Proof of UnreadAgrees: the executions                                   *)

\* An execution is known by its message and its number.
LEMMA SameExecution ==
    ASSUME NEW e \in Executions, NEW f \in Executions, e.job = f.job, e.n = f.n
    PROVE  e = f
BY DEF Executions

\* The executions go on or end, and rows and events stay as they are.
LEMMA ExecutionUntouched ==
    ASSUME Inv, Inv', ExecutionInv, UNCHANGED <<started, row, emitted>>, unseen' \subseteq unseen,
           \A w \in Workers :
              \/ run'[w] = None
              \/ /\ run'[w] = run[w]
                 /\ pc'[w] \in Handling => pc[w] \in Handling
                 /\ pc'[w] \in Counting \cup {"conversation"} => pc[w] \in Counting \cup {"conversation"}
    PROVE  ExecutionInv'
<1>1. ASSUME NEW w \in Workers, run'[w] # None
      PROVE  /\ run'[w].n \in 1 .. started[run'[w].job]
             /\ \A v \in Workers : run'[v] = run'[w] => v = w
             /\ pc'[w] \in Handling => run'[w] \notin emitted
             /\ pc'[w] \in Counting \cup {"conversation"} /\ started[run'[w].job] = 1 =>
                   row[run'[w].job] = "none"
  BY <1>1 DEF ExecutionInv
<1> QED
  BY <1>1 DEF ExecutionInv

\* A new execution has the next number, and no row or event comes of it yet.
LEMMA ExecutionFetched ==
    ASSUME Inv, Inv', ExecutionInv, NEW w \in Workers, Fetch(w) PROVE ExecutionInv'
<1> DEFINE m == Head(waiting)
           e == [job |-> m, n |-> started[m] + 1]
<1>1. /\ pc[w] = "idle" /\ waiting # <<>>
      /\ started' = [started EXCEPT ![m] = @ + 1]
      /\ run' = [run EXCEPT ![w] = e]
      /\ pc' = [pc EXCEPT ![w] = "conversation"]
      /\ UNCHANGED <<row, emitted, unseen>>
  BY DEF Fetch, chatVars
<1>2. m \in Messages /\ started[m] \in Nat
  BY <1>1, SMTT(30) DEF Inv, TypeOK
<1>3. e \in Executions /\ e # None /\ e.job = m /\ e.n = started[m] + 1
  BY <1>2, ExecutionFields
<1> HIDE DEF e, m
<1>4. /\ \A x \in Messages : started'[x] = IF x = m THEN started[x] + 1 ELSE started[x]
      /\ \A x \in Messages : started[x] \in Nat
      /\ \A v \in Workers : run'[v] = IF v = w THEN e ELSE run[v]
      /\ \A v \in Workers : pc'[v] = IF v = w THEN "conversation" ELSE pc[v]
  BY <1>1, <1>2 DEF Inv, TypeOK
<1>5. ASSUME NEW f \in Executions, f.n \in 1 .. started[f.job]
      PROVE  f # e /\ f.n \in 1 .. started'[f.job]
  BY <1>2, <1>3, <1>4, <1>5, ExecutionFields
<1>6. \A v \in Workers : run[v] # None => run[v] \in Executions
  BY DEF Inv, TypeOK
<1>7. emitted \subseteq Executions /\ e \notin emitted
  BY <1>5 DEF Inv, TypeOK, ExecutionInv
<1>8. ASSUME NEW v \in Workers, run'[v] # None
      PROVE  /\ run'[v].n \in 1 .. started'[run'[v].job]
             /\ \A u \in Workers : run'[u] = run'[v] => u = v
             /\ pc'[v] \in Handling => run'[v] \notin emitted
             /\ pc'[v] \in Counting \cup {"conversation"} /\ started'[run'[v].job] = 1 =>
                   row[run'[v].job] = "none"
  <2>1. CASE v = w
    <3>1. \A u \in Workers : u # w => run[u] # e
      BY <1>3, <1>5, <1>6 DEF ExecutionInv
    <3>2. started'[m] = 1 => row[m] = "none"
      BY <1>2, <1>4 DEF ExecutionInv
    <3> QED
      BY <1>2, <1>3, <1>4, <1>7, <2>1, <3>1, <3>2
  <2>2. CASE v # w
    <3>1. run'[v] = run[v] /\ pc'[v] = pc[v] /\ run[v] \in Executions
      BY <1>4, <1>6, <1>8, <2>2
    <3>2. run[v].n \in 1 .. started[run[v].job] /\ run[v].job \in Messages
      BY <1>8, <3>1, ExecutionFields DEF ExecutionInv
    <3>3. run[v] # e /\ run[v].n \in 1 .. started'[run[v].job]
      BY <1>5, <3>1, <3>2
    <3>4. started'[run[v].job] = 1 => started[run[v].job] = 1
      BY <1>4, <3>2
    <3> QED
      BY <1>4, <1>8, <2>2, <3>1, <3>3, <3>4 DEF ExecutionInv
  <2> QED
    BY <2>1, <2>2
<1>9. ASSUME NEW f \in emitted PROVE f.n \in 1 .. started'[f.job]
  BY <1>5, <1>7 DEF ExecutionInv
<1>10. \A x \in Messages : started'[x] = 0 => row[x] = "none"
  BY <1>4 DEF ExecutionInv
<1>11. \A x \in unseen : x \notin OwnMessages /\ row[x] # "none"
  BY DEF ExecutionInv
<1> QED
  BY <1>1, <1>8, <1>9, <1>10, <1>11 DEF ExecutionInv

\* The first execution of a message is alone with it.
LEMMA FirstIsAlone ==
    ASSUME Inv, ExecutionInv, NEW w \in Workers, run[w] # None, started[run[w].job] = 1,
           NEW e \in Executions, e.job = run[w].job, e.n \in 1 .. started[e.job]
    PROVE  e = run[w]
<1>1. run[w] \in Executions /\ run[w].n \in 1 .. started[run[w].job]
  BY DEF Inv, TypeOK, ExecutionInv
<1> QED
  BY <1>1, SameExecution, ExecutionFields

\* The row comes with the execution that writes it.
LEMMA ExecutionPersists ==
    ASSUME Inv, Inv', ExecutionInv, NEW w \in Workers, PersistMessage(w) PROVE ExecutionInv'
<1> DEFINE m == Message(w)
<1>1. /\ pc[w] = "persist" /\ pc'[w] = "emit"
      /\ \A v \in Workers : v # w => pc'[v] = pc[v]
      /\ row' = [row EXCEPT ![m] = IF auto[w] THEN "auto" ELSE "plain"]
      /\ unseen' = IF row[m] = "none" /\ m \notin OwnMessages THEN unseen \cup {m} ELSE unseen
      /\ UNCHANGED <<run, started, emitted>>
  BY DEF PersistMessage, Inv, TypeOK, queueVars
<1>2. /\ m \in Messages /\ m = run[w].job /\ run[w] # None /\ run[w] \in Executions
  BY <1>1, BusyWorker, ExecutionFields DEF Message
<1> HIDE DEF m
<1>3. /\ \A x \in Messages : x # m => row'[x] = row[x]
      /\ row'[m] # "none"
  BY <1>1, <1>2 DEF Inv, TypeOK
<1>4. run[w].n \in 1 .. started[m] /\ started[m] \in Nat /\ started[m] # 0
  BY <1>2 DEF ExecutionInv, Inv, TypeOK
<1>5. ASSUME NEW v \in Workers, run[v] # None, pc'[v] \in Counting \cup {"conversation"},
             started[run[v].job] = 1
      PROVE  row'[run[v].job] = "none"
  <2>1. v # w
    BY <1>1, <1>5 DEF Counting
  <2>2. run[v] \in Executions /\ run[v].job \in Messages /\ run[v].n \in 1 .. started[run[v].job]
    BY <1>5, ExecutionFields DEF Inv, TypeOK, ExecutionInv
  <2>3. run[v].job # m
    BY <1>2, <1>5, <2>1, <2>2, FirstIsAlone DEF ExecutionInv
  <2> QED
    BY <1>1, <1>3, <1>5, <2>1, <2>2, <2>3 DEF ExecutionInv
<1>6. ASSUME NEW v \in Workers, run[v] # None
      PROVE  /\ run[v].n \in 1 .. started[run[v].job]
             /\ \A u \in Workers : run[u] = run[v] => u = v
             /\ pc'[v] \in Handling => run[v] \notin emitted
  BY <1>1, <1>6 DEF ExecutionInv, Handling, Counting
<1>7. \A x \in Messages : started[x] = 0 => row'[x] = "none"
  BY <1>3, <1>4 DEF ExecutionInv
<1>8. \A x \in unseen' : x \notin OwnMessages /\ row'[x] # "none"
  BY <1>1, <1>3 DEF ExecutionInv, Inv, TypeOK
<1> QED
  BY <1>1, <1>5, <1>6, <1>7, <1>8 DEF ExecutionInv

\* An execution emits and is through.
LEMMA ExecutionEmits ==
    ASSUME Inv, Inv', ExecutionInv, NEW w \in Workers, Emit(w) PROVE ExecutionInv'
<1>1. /\ pc[w] = "emit" /\ pc'[w] = "finish"
      /\ \A v \in Workers : v # w => pc'[v] = pc[v]
      /\ emitted' = emitted \cup {run[w]}
      /\ UNCHANGED <<run, started, row, unseen>>
  BY DEF Emit, Inv, TypeOK, queueVars, chatVars
<1>2. run[w] # None
  BY <1>1, BusyWorker, ExecutionFields
<1>3. "finish" \notin Handling /\ "finish" \notin Counting \cup {"conversation"}
  BY DEF Handling, Counting
<1>4. ASSUME NEW v \in Workers, run[v] # None
      PROVE  /\ run[v].n \in 1 .. started[run[v].job]
             /\ \A u \in Workers : run[u] = run[v] => u = v
             /\ pc'[v] \in Handling => run[v] \notin emitted'
             /\ pc'[v] \in Counting \cup {"conversation"} /\ started[run[v].job] = 1 =>
                   row[run[v].job] = "none"
  <2>1. /\ run[v].n \in 1 .. started[run[v].job]
        /\ \A u \in Workers : run[u] = run[v] => u = v
        /\ pc[v] \in Handling => run[v] \notin emitted
        /\ pc[v] \in Counting \cup {"conversation"} /\ started[run[v].job] = 1 =>
              row[run[v].job] = "none"
    BY <1>4 DEF ExecutionInv
  <2>2. v # w => run[v] # run[w]
    BY <2>1
  <2> QED
    BY <1>1, <1>3, <2>1, <2>2
<1>5. \A e \in emitted' : e.n \in 1 .. started[e.job]
  BY <1>1, <1>2 DEF ExecutionInv
<1> QED
  BY <1>1, <1>4, <1>5 DEF ExecutionInv

\* Every step keeps the executions apart.
LEMMA ExecutionStep == ASSUME Inv, Inv', ExecutionInv, [Next]_vars PROVE ExecutionInv'
<1> USE DEF Handling, Counting
<1>1. ASSUME NEW m \in Messages, Deliver(m) \/ Stall(m) PROVE ExecutionInv'
  <2>1. UNCHANGED <<pc, run, started, row, emitted, unseen>>
    BY <1>1 DEF Deliver, Stall, workerVars, chatVars
  <2> QED
    BY <2>1, ExecutionUntouched
<1>2. ASSUME NEW w \in Workers, UpsertConversation(w) PROVE ExecutionInv'
  <2>1. /\ pc[w] = "conversation" /\ pc'[w] = "participant"
        /\ \A v \in Workers : v # w => pc'[v] = pc[v]
        /\ UNCHANGED <<run, started, row, emitted>>
    BY <1>2 DEF UpsertConversation, queueVars, Inv, TypeOK
  <2>2. unseen' \subseteq unseen
    BY <1>2 DEF UpsertConversation, Read
  <2> QED
    BY <2>1, <2>2, ExecutionUntouched
<1>3. ASSUME NEW w \in Workers, UpsertParticipant(w) \/ ReadPendingTokens(w) \/ DropPendingTokens(w)
      PROVE  ExecutionInv'
  <2>1. /\ pc[w] \in Counting /\ pc'[w] \in Counting
        /\ \A v \in Workers : v # w => pc'[v] = pc[v]
        /\ UNCHANGED <<run, started, row, emitted, unseen>>
    BY <1>3 DEF UpsertParticipant, ReadPendingTokens, DropPendingTokens, queueVars, chatVars,
       Inv, TypeOK
  <2> QED
    BY <2>1, ExecutionUntouched
<1>4. ASSUME NEW w \in Workers, HandleThrows(w) \/ Finish(w) \/ Crash(w) PROVE ExecutionInv'
  <2>1. /\ pc'[w] \in {"finish", "idle"} /\ (run'[w] = run[w] \/ run'[w] = None)
        /\ \A v \in Workers : v # w => pc'[v] = pc[v] /\ run'[v] = run[v]
        /\ UNCHANGED <<started, row, emitted, unseen>>
    BY <1>4 DEF HandleThrows, Finish, Crash, LeavesWorker, queueVars, chatVars, Inv, TypeOK
  <2> QED
    BY <2>1, ExecutionUntouched
<1>5. ASSUME NEW c \in Conversations, MarkRead(c) PROVE ExecutionInv'
  <2>1. UNCHANGED <<pc, run, started, row, emitted>> /\ unseen' \subseteq unseen
    BY <1>5 DEF MarkRead, Read, workerVars, queueVars
  <2> QED
    BY <2>1, ExecutionUntouched
<1>6. ASSUME \/ \E c \in Conversations, x \in Texts : CacheReplyTokens(c, x)
             \/ \E k \in Keys : ExpireTokens(k)
             \/ UNCHANGED vars
      PROVE  ExecutionInv'
  <2>1. UNCHANGED <<pc, run, started, row, emitted, unseen>>
    BY <1>6 DEF CacheReplyTokens, ExpireTokens, vars, workerVars, queueVars, chatVars
  <2> QED
    BY <2>1, ExecutionUntouched
<1> QED
  BY <1>1, <1>2, <1>3, <1>4, <1>5, <1>6, ExecutionFetched, ExecutionPersists, ExecutionEmits
     DEF Next, Handle

-----------------------------------------------------------------------------
(* Proof of UnreadAgrees: the counter                                      *)

\* Neither the counter nor what it is about changes.
LEMMA UnreadUntouched ==
    ASSUME UnreadInv, unread' = unread,
           \A m \in Messages : Counts(m)' <=> Counts(m),
           \A m \in Messages : Sound(m)' => Sound(m)
    PROVE  UnreadInv'
<1> SUFFICES ASSUME NEW c \in Conversations
             PROVE  /\ IsFiniteSet(Counted(c)') /\ Cardinality(Counted(c)') <= unread[c]
                    /\ Clean(c)' => unread[c] = Cardinality(Counted(c)')
  BY DEF UnreadInv
<1>1. MessagesIn(c)' = MessagesIn(c) /\ MessagesIn(c) \subseteq Messages
  BY DEF MessagesIn
<1>2. Counted(c)' = Counted(c)
  BY <1>1 DEF Counted
<1>3. Clean(c)' => Clean(c)
  BY <1>1 DEF Clean
<1> QED
  BY <1>2, <1>3 DEF UnreadInv

\* The messages count as before if those that are being counted stay the same.
LEMMA CountsAsBefore ==
    ASSUME UNCHANGED <<row, unseen, overlapped>>,
           \A w \in Workers : pc'[w] \in Counting <=> pc[w] \in Counting,
           \A w \in Workers : pc[w] \in Counting => run'[w] = run[w],
           NEW m
    PROVE  Counts(m)' <=> Counts(m)
<1>1. Overlapped(m)' <=> Overlapped(m)
  BY DEF Overlapped
<1>2. \A w \in Workers : pc[w] \in Counting => Message(w)' = Message(w)
  BY DEF Message
<1> QED
  BY <1>1, <1>2 DEF Counts

\* No step repairs what is disturbed.
LEMMA SoundBefore ==
    ASSUME Inv, emitted' = emitted, overlapped \subseteq overlapped',
           NEW m \in Messages, started[m] = 0 \/ started'[m] = started[m],
           reruns'[m] = 0 => reruns[m] = 0,
           \A w \in Workers :
              pc'[w] \in Handling => pc[w] \in Handling /\ run'[w] = run[w],
           Sound(m)'
    PROVE  Sound(m)
<1>1. Overlapped(m) => Overlapped(m)'
  BY DEF Overlapped
<1>2. Announced(m)' <=> Announced(m)
  BY DEF Announced
<1>3. \A w \in Workers : pc'[w] \in Handling => Message(w)' = Message(w)
  BY DEF Message
<1> QED
  BY <1>1, <1>2, <1>3 DEF Sound

\* A conversation that is read has nothing unread, and the others are left alone.
LEMMA UnreadReset ==
    ASSUME Inv, UnreadInv, NEW c \in Conversations, Read(c),
           UNCHANGED <<row, run, started, reruns, emitted>>,
           \A w \in Workers : pc[w] \in Counting => pc'[w] \in Counting,
           \A w \in Workers : pc'[w] \in Counting =>
              pc[w] \in Counting \/ (Message(w) \in OwnMessages /\ Conversation(w) = c),
           \A w \in Workers : pc'[w] \in Handling => pc[w] \in Handling
    PROVE  UnreadInv'
<1>1. /\ unread' = [unread EXCEPT ![c] = 0]
      /\ unseen' = {m \in unseen : ConversationOf[m] # c}
      /\ overlapped' = overlapped \cup InFlight(c)
  BY DEF Read
<1>2. InFlight(c) = {run[w] : w \in {v \in Workers : pc[v] \in Counting /\ Conversation(v) = c}}
  BY DEF InFlight, Counting
<1>3. \A w \in Workers : Message(w)' = Message(w) /\ Conversation(w)' = Conversation(w)
  BY DEF Message, Conversation
<1>4. Counted(c)' = {}
  <2> SUFFICES ASSUME NEW m \in MessagesIn(c), Counts(m)' PROVE FALSE
    BY DEF Counted, MessagesIn
  <2>1. ConversationOf[m] = c
    BY DEF MessagesIn
  <2>2. m \notin unseen'
    BY <1>1, <2>1
  <2>3. PICK w \in Workers : pc'[w] \in Counting /\ Message(w) = m
    BY <1>3, <2>2 DEF Counts
  <2>4. pc[w] \in Counting
    BY <2>3 DEF Counts
  <2>5. run[w] \in overlapped'
    BY <1>1, <1>2, <2>1, <2>3, <2>4 DEF Message, Conversation
  <2> QED
    BY <2>3, <2>5 DEF Counts, Overlapped, Message
<1>5. ASSUME NEW d \in Conversations, d # c, NEW m \in MessagesIn(d)
      PROVE  /\ Counts(m)' <=> Counts(m)
             /\ Sound(m)' => Sound(m)
  <2>1. m \in Messages /\ ConversationOf[m] # c
    BY <1>5 DEF MessagesIn
  <2>2. Overlapped(m)' <=> Overlapped(m)
    BY <1>1, <1>2, <2>1 DEF Overlapped, Conversation
  <2>3. m \in unseen' <=> m \in unseen
    BY <1>1, <2>1
  <2>4. \A w \in Workers : Message(w) = m => (pc'[w] \in Counting <=> pc[w] \in Counting)
    BY <2>1 DEF Message, Conversation
  <2>5. Counts(m)' <=> Counts(m)
    BY <1>3, <2>2, <2>3, <2>4 DEF Counts
  <2>6. Sound(m)' => Sound(m)
    BY <1>1, <2>1, SoundBefore
  <2> QED
    BY <2>5, <2>6
<1> SUFFICES ASSUME NEW d \in Conversations
             PROVE  /\ IsFiniteSet(Counted(d)') /\ Cardinality(Counted(d)') <= unread'[d]
                    /\ Clean(d)' => unread'[d] = Cardinality(Counted(d)')
  BY DEF UnreadInv
<1>6. CASE d = c
  <2>1. unread'[c] = 0
    BY <1>1 DEF Inv, TypeOK
  <2>2. IsFiniteSet(Counted(c)') /\ Cardinality(Counted(c)') = 0
    BY <1>4, FS_EmptySet
  <2> QED
    BY <1>6, <2>1, <2>2
<1>7. CASE d # c
  <2>1. MessagesIn(d)' = MessagesIn(d)
    BY DEF MessagesIn
  <2>2. Counted(d)' = Counted(d)
    BY <1>5, <1>7, <2>1 DEF Counted
  <2>3. Clean(d)' => Clean(d)
    BY <1>5, <1>7, <2>1 DEF Clean
  <2>4. unread'[d] = unread[d]
    BY <1>1, <1>7 DEF Inv, TypeOK
  <2> QED
    BY <2>2, <2>3, <2>4 DEF UnreadInv
<1> QED
  BY <1>6, <1>7

\* The first time that a message of a peer is counted, it is one more; every other
\* time the counter grows and it need not.
LEMMA UnreadCountsOne ==
    ASSUME Inv, Inv', ExecutionInv, UnreadInv, NEW w \in Workers, UpsertConversation(w),
           Message(w) \notin OwnMessages
    PROVE  UnreadInv'
<1>0. PICK c, m : c = Conversation(w) /\ m = Message(w)
  OBVIOUS
<1>1. /\ pc[w] = "conversation" /\ pc'[w] = "participant"
      /\ \A v \in Workers : v # w => pc'[v] = pc[v]
      /\ unread' = [unread EXCEPT ![c] = @ + 1]
      /\ UNCHANGED <<run, row, started, reruns, emitted, unseen, overlapped>>
  BY <1>0 DEF UpsertConversation, Inv, TypeOK, queueVars
<1>2. /\ c \in Conversations /\ m \in Messages /\ ConversationOf[m] = c
      /\ m = run[w].job /\ run[w] # None /\ run[w] \in Executions
  BY <1>0, <1>1, BusyWorker, ExecutionFields DEF Message
<1>3. \A v \in Workers : Message(v)' = Message(v)
  BY <1>1 DEF Message
<1>4. \A x : Overlapped(x)' <=> Overlapped(x)
  BY <1>1 DEF Overlapped
<1>5. \A x \in Messages : x # m => (Counts(x)' <=> Counts(x))
  BY <1>0, <1>1, <1>3, <1>4 DEF Counts
<1>6. \A x \in Messages : Sound(x)' => Sound(x)
  BY <1>1, SoundBefore DEF Handling, Counting
<1>7. Counts(m) => Counts(m)'
  BY <1>0, <1>1, <1>3, <1>4 DEF Counts, Counting
<1>8. Sound(m) => ~Counts(m) /\ Counts(m)'
  <2> SUFFICES ASSUME Sound(m) PROVE ~Counts(m) /\ Counts(m)'
    OBVIOUS
  <2>1. run[w].n \in 1 .. started[m] /\ reruns[m] = 0
    BY <1>2 DEF ExecutionInv, Sound
  <2>2. started[m] = 1
    <3>1. started[m] \in Nat /\ (started[m] = reruns[m] \/ started[m] = reruns[m] + 1)
      BY <1>2 DEF Inv, TypeOK, CountInv
    <3> QED
      BY <2>1, <3>1
  <2>3. row[m] = "none"
    BY <1>1, <1>2, <2>2 DEF ExecutionInv
  <2>4. ASSUME NEW v \in Workers, pc[v] \in Counting, Message(v) = m PROVE FALSE
    <3>1. pc[v] # "idle" /\ v # w
      BY <1>1, <2>4 DEF Counting
    <3>2. run[v] \in Executions /\ run[v] # None /\ run[v].job = m
      BY <2>4, <3>1, BusyWorker, ExecutionFields DEF Message
    <3>3. run[v].n \in 1 .. started[run[v].job]
      BY <3>2 DEF ExecutionInv
    <3> QED
      BY <1>2, <2>2, <3>1, <3>2, <3>3, FirstIsAlone DEF ExecutionInv
  <2>5. ~Overlapped(m) /\ m \notin OwnMessages
    BY <1>0 DEF Sound
  <2> QED
    BY <1>0, <1>1, <1>3, <1>4, <2>3, <2>4, <2>5 DEF Counts, ExecutionInv, Counting
<1> SUFFICES ASSUME NEW d \in Conversations
             PROVE  /\ IsFiniteSet(Counted(d)') /\ Cardinality(Counted(d)') <= unread'[d]
                    /\ Clean(d)' => unread'[d] = Cardinality(Counted(d)')
  BY DEF UnreadInv
<1>9. MessagesIn(d)' = MessagesIn(d) /\ MessagesIn(d) \subseteq Messages
  BY DEF MessagesIn
<1>10. Clean(d)' => Clean(d)
  BY <1>6, <1>9 DEF Clean
<1>11. CASE d # c
  <2>1. m \notin MessagesIn(d)
    BY <1>2, <1>11 DEF MessagesIn
  <2>2. Counted(d)' = Counted(d)
    BY <1>5, <1>9, <2>1 DEF Counted
  <2>3. unread'[d] = unread[d]
    BY <1>1, <1>11 DEF Inv, TypeOK
  <2> QED
    BY <1>10, <2>2, <2>3 DEF UnreadInv
<1>12. CASE d = c
  <2>1. m \in MessagesIn(d)
    BY <1>2, <1>12 DEF MessagesIn
  <2>2. Counted(d)' = IF Counts(m)' THEN Counted(d) \cup {m} ELSE Counted(d)
    BY <1>5, <1>7, <1>9, <2>1 DEF Counted
  <2>3. unread'[d] = unread[d] + 1 /\ unread[d] \in Nat
    BY <1>1, <1>12 DEF Inv, TypeOK
  <2>4. IsFiniteSet(Counted(d)) /\ Cardinality(Counted(d)) <= unread[d]
    BY DEF UnreadInv
  <2>5. /\ IsFiniteSet(Counted(d) \cup {m}) /\ Cardinality(Counted(d)) \in Nat
        /\ Cardinality(Counted(d) \cup {m}) =
             IF m \in Counted(d) THEN Cardinality(Counted(d)) ELSE Cardinality(Counted(d)) + 1
    BY <2>4, FS_AddElement, FS_CardinalityType
  <2>6. IsFiniteSet(Counted(d)') /\ Cardinality(Counted(d)') <= unread'[d]
    BY <2>2, <2>3, <2>4, <2>5
  <2>7. ASSUME Clean(d)' PROVE unread'[d] = Cardinality(Counted(d)')
    <3>1. Clean(d) /\ Sound(m)
      BY <1>10, <2>1, <2>7 DEF Clean
    <3>2. m \notin Counted(d) /\ Counts(m)'
      BY <1>8, <3>1 DEF Counted
    <3>3. unread[d] = Cardinality(Counted(d))
      BY <3>1 DEF UnreadInv
    <3> QED
      BY <2>2, <2>3, <2>5, <3>2, <3>3
  <2> QED
    BY <2>6, <2>7
<1> QED
  BY <1>11, <1>12

\* Storing a message turns one that is being counted into one that is unseen.
LEMMA UnreadPersists ==
    ASSUME Inv, Inv', ExecutionInv, UnreadInv, NEW w \in Workers, PersistMessage(w)
    PROVE  UnreadInv'
<1> DEFINE m == Message(w)
<1>1. /\ pc[w] = "persist" /\ pc'[w] = "emit"
      /\ \A v \in Workers : v # w => pc'[v] = pc[v]
      /\ row' = [row EXCEPT ![m] = IF auto[w] THEN "auto" ELSE "plain"]
      /\ unseen' = IF row[m] = "none" /\ m \notin OwnMessages THEN unseen \cup {m} ELSE unseen
      /\ UNCHANGED <<run, started, reruns, emitted, unread, overlapped>>
  BY DEF PersistMessage, Inv, TypeOK, queueVars
<1>2. m \in Messages
  BY <1>1, BusyWorker
<1> HIDE DEF m
<1>3. row'[m] # "none" /\ \A x \in Messages : x # m => row'[x] = row[x]
  BY <1>1, <1>2 DEF Inv, TypeOK
<1>4. \A v \in Workers : Message(v)' = Message(v)
  BY <1>1 DEF Message
<1>5. \A x : Overlapped(x)' <=> Overlapped(x)
  BY <1>1 DEF Overlapped
<1>6. ASSUME NEW x \in Messages PROVE Counts(x)' <=> Counts(x)
  <2>1. CASE x = m
    <3>1. pc[w] \in Counting
      BY <1>1 DEF Counting
    <3>2. Message(w) = m
      BY DEF m
    <3> QED
      BY <1>1, <1>3, <1>5, <2>1, <3>1, <3>2 DEF Counts
  <2>2. CASE x # m
    <3>1. row'[x] = row[x] /\ (x \in unseen' <=> x \in unseen)
      BY <1>1, <1>3, <2>2
    <3>2. \A v \in Workers : Message(v) = x => pc'[v] = pc[v]
      BY <1>1, <2>2 DEF m
    <3> QED
      BY <1>4, <1>5, <3>1, <3>2 DEF Counts
  <2> QED
    BY <2>1, <2>2
<1>7. \A x \in Messages : Sound(x)' => Sound(x)
  BY <1>1, SoundBefore DEF Handling, Counting
<1> QED
  BY <1>1, <1>6, <1>7, UnreadUntouched

\* A message is announced by the execution that handled it.
LEMMA UnreadEmits ==
    ASSUME Inv, Inv', ExecutionInv, UnreadInv, NEW w \in Workers, Emit(w) PROVE UnreadInv'
<1>1. /\ pc[w] = "emit" /\ pc'[w] = "finish"
      /\ \A v \in Workers : v # w => pc'[v] = pc[v]
      /\ emitted' = emitted \cup {run[w]}
      /\ UNCHANGED <<run, started, reruns, row, unseen, unread, overlapped>>
  BY DEF Emit, Inv, TypeOK, queueVars, chatVars
<1>2. \A m \in Messages : Counts(m)' <=> Counts(m)
  BY <1>1, CountsAsBefore DEF Counting
<1>3. ASSUME NEW m \in Messages, Sound(m)' PROVE Sound(m)
  <2>1. Announced(m)' => Announced(m) \/ Message(w) = m
    BY <1>1 DEF Announced, Message
  <2>2. \A v \in Workers : Message(v)' = Message(v)
    BY <1>1 DEF Message
  <2>3. \A v \in Workers : pc'[v] \in Handling => pc[v] \in Handling
    BY <1>1 DEF Handling, Counting
  <2>4. pc[w] \in Handling
    BY <1>1 DEF Handling
  <2>5. Overlapped(m)' <=> Overlapped(m)
    BY <1>1 DEF Overlapped
  <2> QED
    BY <1>1, <1>3, <2>1, <2>2, <2>3, <2>4, <2>5 DEF Sound
<1> QED
  BY <1>1, <1>2, <1>3, UnreadUntouched

\* An execution that ends early leaves at most one message counted too much, and that
\* message is disturbed.
LEMMA UnreadAbandoned ==
    ASSUME Inv, Inv', ExecutionInv, UnreadInv, NEW w \in Workers, pc[w] # "idle",
           pc'[w] \in {"finish", "idle"},
           \A v \in Workers : v # w => pc'[v] = pc[v] /\ run'[v] = run[v],
           UNCHANGED <<row, unseen, overlapped, unread, started, reruns, emitted>>
    PROVE  UnreadInv'
<1>0. PICK m : m = Message(w)
  OBVIOUS
<1>1. /\ m \in Messages /\ m = run[w].job /\ run[w] # None /\ run[w] \in Executions
  BY <1>0, BusyWorker, ExecutionFields DEF Message
<1>2. \A v \in Workers : v # w => Message(v)' = Message(v)
  BY DEF Message
<1>3. pc'[w] \notin Handling /\ pc'[w] \notin Counting
  BY DEF Handling, Counting
<1>4. \A x : (Overlapped(x)' <=> Overlapped(x)) /\ (Announced(x)' <=> Announced(x))
  BY DEF Overlapped, Announced
<1>5. \A x \in Messages : (Counts(x)' => Counts(x)) /\ (x # m => (Counts(x)' <=> Counts(x)))
  BY <1>0, <1>2, <1>3, <1>4 DEF Counts
<1>6. ASSUME NEW x \in Messages, Sound(x)' PROVE Sound(x)
  BY <1>2, <1>3, <1>4, <1>6 DEF Sound
<1>7. ASSUME pc[w] \in Handling, Sound(m)' PROVE FALSE
  <2>1. run[w].n \in 1 .. started[m] /\ reruns[m] = 0
    BY <1>1, <1>7 DEF ExecutionInv, Sound
  <2>2. started[m] = 1
    <3>1. started[m] \in Nat /\ (started[m] = reruns[m] \/ started[m] = reruns[m] + 1)
      BY <1>1 DEF Inv, TypeOK, CountInv
    <3> QED
      BY <2>1, <3>1
  <2>3. ~Announced(m)
    <3> SUFFICES ASSUME NEW e \in emitted, e.job = m PROVE FALSE
      BY DEF Announced
    <3>1. e \in Executions /\ e.n \in 1 .. started[e.job]
      BY DEF Inv, TypeOK, ExecutionInv
    <3>2. e = run[w]
      BY <1>1, <2>2, <3>1, FirstIsAlone
    <3> QED
      BY <1>1, <1>7, <3>2 DEF ExecutionInv
  <2>4. ASSUME NEW v \in Workers, pc'[v] \in Handling, Message(v)' = m PROVE FALSE
    <3>1. v # w /\ pc[v] # "idle" /\ Message(v) = m
      BY <1>2, <1>3, <2>4 DEF Handling, Counting
    <3>2. run[v] \in Executions /\ run[v] # None /\ run[v].job = m
      BY <3>1, BusyWorker, ExecutionFields DEF Message
    <3>3. run[v].n \in 1 .. started[run[v].job]
      BY <3>2 DEF ExecutionInv
    <3> QED
      BY <1>1, <2>2, <3>1, <3>2, <3>3, FirstIsAlone DEF ExecutionInv
  <2> QED
    BY <1>4, <1>7, <2>2, <2>3, <2>4 DEF Sound
<1>8. pc[w] \notin Handling => ~(pc[w] \in Counting)
  BY DEF Handling
<1>9. pc[w] \notin Handling => (Counts(m)' <=> Counts(m))
  BY <1>0, <1>2, <1>3, <1>4, <1>8 DEF Counts
<1> SUFFICES ASSUME NEW d \in Conversations
             PROVE  /\ IsFiniteSet(Counted(d)') /\ Cardinality(Counted(d)') <= unread[d]
                    /\ Clean(d)' => unread[d] = Cardinality(Counted(d)')
  BY DEF UnreadInv
<1>10. MessagesIn(d)' = MessagesIn(d) /\ MessagesIn(d) \subseteq Messages
  BY DEF MessagesIn
<1>11. IsFiniteSet(Counted(d)') /\ Cardinality(Counted(d)') <= unread[d]
  <2>1. Counted(d)' \in SUBSET Counted(d)
    BY <1>5, <1>10 DEF Counted
  <2>2. IsFiniteSet(Counted(d)) /\ Cardinality(Counted(d)) <= unread[d] /\ unread[d] \in Nat
    BY DEF UnreadInv, Inv, TypeOK
  <2>3. IsFiniteSet(Counted(d)') /\ Cardinality(Counted(d)') <= Cardinality(Counted(d))
    BY <2>1, <2>2, FS_Subset
  <2> QED
    BY <2>2, <2>3, FS_CardinalityType
<1>12. ASSUME Clean(d)' PROVE unread[d] = Cardinality(Counted(d)')
  <2>1. Clean(d)
    BY <1>6, <1>10, <1>12 DEF Clean
  <2>2. pc[w] \in Handling => m \notin MessagesIn(d)
    BY <1>7, <1>10, <1>12 DEF Clean
  <2>3. Counted(d)' = Counted(d)
    BY <1>5, <1>9, <1>10, <2>2 DEF Counted
  <2> QED
    BY <2>1, <2>3 DEF UnreadInv
<1> QED
  BY <1>11, <1>12

\* Every step keeps the counter right.
LEMMA UnreadStep ==
    ASSUME Inv, Inv', ExecutionInv, UnreadInv, [Next]_vars PROVE UnreadInv'
<1>1. ASSUME NEW m \in Messages, Deliver(m) \/ Stall(m) PROVE UnreadInv'
  <2>1. /\ UNCHANGED <<pc, run, started, row, emitted, unseen, overlapped, unread>>
        /\ (Enqueue(m) /\ job[m] # "waiting") \/ reruns' = reruns
    BY <1>1 DEF Deliver, Stall, workerVars, chatVars
  <2>2. \A x \in Messages : reruns'[x] = 0 => reruns[x] = 0
    BY <2>1, SMTT(30) DEF Enqueue, Inv, TypeOK, CountInv
  <2>3. \A x \in Messages : Counts(x)' <=> Counts(x)
    BY <2>1, CountsAsBefore
  <2>4. \A x \in Messages : Sound(x)' => Sound(x)
    BY <2>1, <2>2, SoundBefore
  <2> QED
    BY <2>1, <2>3, <2>4, UnreadUntouched
<1>2. ASSUME NEW w \in Workers, Fetch(w) PROVE UnreadInv'
  <2>1. /\ pc[w] = "idle" /\ pc'[w] = "conversation"
        /\ \A v \in Workers : v # w => pc'[v] = pc[v] /\ run'[v] = run[v]
        /\ UNCHANGED <<reruns, row, emitted, unseen, overlapped, unread>>
    BY <1>2 DEF Fetch, chatVars, Inv, TypeOK
  <2>2. \A x \in Messages : Counts(x)' <=> Counts(x)
    BY <2>1, CountsAsBefore DEF Counting
  <2>3. ASSUME NEW x \in Messages, Sound(x)' PROVE Sound(x)
    <3>0. PICK m : m = Head(waiting)
      OBVIOUS
    <3>1. /\ waiting # <<>> /\ started' = [started EXCEPT ![m] = @ + 1]
          /\ run' = [run EXCEPT ![w] = [job |-> m, n |-> started[m] + 1]]
      BY <1>2, <3>0 DEF Fetch
    <3>2. m = waiting[1] /\ m \in Messages /\ 1 \in 1 .. Len(waiting)
      BY <3>0, <3>1 DEF Inv, TypeOK
    <3>3. started[m] = reruns[m]
      BY <3>2 DEF Inv, QueueInv, CountInv
    <3>4. Message(w)' = m
      BY <3>1 DEF Message, Inv, TypeOK
    <3>5. (Overlapped(x)' <=> Overlapped(x)) /\ (Announced(x)' <=> Announced(x))
      BY <2>1 DEF Overlapped, Announced
    <3>6. \A v \in Workers : v # w => Message(v)' = Message(v)
      BY <2>1 DEF Message
    <3>7. CASE x = m
      BY <2>1, <2>3, <3>3, <3>5, <3>7 DEF Sound
    <3>8. CASE x # m
      <4>1. started'[x] = started[x]
        BY <3>1, <3>2, <3>8 DEF Inv, TypeOK
      <4> QED
        BY <2>1, <2>3, <3>4, <3>5, <3>6, <3>8, <4>1 DEF Sound
    <3> QED
      BY <3>7, <3>8
  <2> QED
    BY <2>1, <2>2, <2>3, UnreadUntouched
<1>3. ASSUME NEW w \in Workers, UpsertConversation(w) PROVE UnreadInv'
  <2>1. CASE Message(w) \notin OwnMessages
    BY <1>3, <2>1, UnreadCountsOne
  <2>2. CASE Message(w) \in OwnMessages
    <3>1. /\ pc[w] = "conversation" /\ pc'[w] = "participant"
          /\ \A v \in Workers : v # w => pc'[v] = pc[v]
          /\ Read(Conversation(w))
          /\ UNCHANGED <<row, run, started, reruns, emitted>>
      BY <1>3, <2>2 DEF UpsertConversation, queueVars, Inv, TypeOK
    <3>2. Conversation(w) \in Conversations
      BY <3>1, BusyWorker
    <3> QED
      BY <2>2, <3>1, <3>2, UnreadReset DEF Handling, Counting
  <2> QED
    BY <2>1, <2>2
<1>4. ASSUME NEW w \in Workers, UpsertParticipant(w) \/ ReadPendingTokens(w) \/ DropPendingTokens(w)
      PROVE  UnreadInv'
  <2>1. /\ pc[w] \in Counting /\ pc'[w] \in Counting
        /\ \A v \in Workers : v # w => pc'[v] = pc[v]
        /\ UNCHANGED <<run, started, reruns, row, emitted, unseen, overlapped, unread>>
    BY <1>4 DEF UpsertParticipant, ReadPendingTokens, DropPendingTokens, queueVars, chatVars,
       Inv, TypeOK, Counting
  <2>2. \A x \in Messages : Counts(x)' <=> Counts(x)
    BY <2>1, CountsAsBefore
  <2>3. \A x \in Messages : Sound(x)' => Sound(x)
    BY <2>1, SoundBefore DEF Handling
  <2> QED
    BY <2>1, <2>2, <2>3, UnreadUntouched
<1>5. ASSUME NEW w \in Workers, HandleThrows(w) \/ Finish(w) \/ Crash(w) PROVE UnreadInv'
  <2>1. /\ pc[w] # "idle" /\ pc'[w] \in {"finish", "idle"}
        /\ \A v \in Workers : v # w => pc'[v] = pc[v] /\ run'[v] = run[v]
        /\ UNCHANGED <<row, unseen, overlapped, unread, started, reruns, emitted>>
    BY <1>5 DEF HandleThrows, Finish, Crash, LeavesWorker, queueVars, chatVars, Inv, TypeOK
  <2> QED
    BY <2>1, UnreadAbandoned
<1>6. ASSUME NEW c \in Conversations, MarkRead(c) PROVE UnreadInv'
  <2>1. Read(c) /\ UNCHANGED <<pc, run, started, reruns, row, emitted>>
    BY <1>6 DEF MarkRead, workerVars, queueVars
  <2> QED
    BY <2>1, UnreadReset
<1>7. ASSUME \/ \E c \in Conversations, x \in Texts : CacheReplyTokens(c, x)
             \/ \E k \in Keys : ExpireTokens(k)
             \/ UNCHANGED vars
      PROVE  UnreadInv'
  <2>1. UNCHANGED <<pc, run, started, reruns, row, emitted, unseen, overlapped, unread>>
    BY <1>7 DEF CacheReplyTokens, ExpireTokens, vars, workerVars, queueVars, chatVars
  <2>2. \A x \in Messages : Counts(x)' <=> Counts(x)
    BY <2>1, CountsAsBefore
  <2>3. \A x \in Messages : Sound(x)' => Sound(x)
    BY <2>1, SoundBefore
  <2> QED
    BY <2>1, <2>2, <2>3, UnreadUntouched
<1> QED
  BY <1>1, <1>2, <1>3, <1>4, <1>5, <1>6, <1>7, UnreadPersists, UnreadEmits DEF Next, Handle

\* What is stored and not seen is counted, and nothing else once all is handled.
LEMMA UnreadIsCounted == ASSUME Inv, ExecutionInv, UnreadInv PROVE UnreadAgrees
<1>1. ASSUME NEW c \in Conversations
      PROVE  Cardinality({m \in unseen \cap MessagesIn(c) : ~Overlapped(m)}) <= unread[c]
  <2> DEFINE S == {m \in unseen \cap MessagesIn(c) : ~Overlapped(m)}
  <2>1. S \in SUBSET Counted(c)
    BY DEF Counted, Counts, ExecutionInv
  <2>2. IsFiniteSet(Counted(c)) /\ Cardinality(Counted(c)) <= unread[c] /\ unread[c] \in Nat
    BY DEF UnreadInv, Inv, TypeOK
  <2>3. IsFiniteSet(S) /\ Cardinality(S) <= Cardinality(Counted(c))
    BY <2>1, <2>2, FS_Subset
  <2> HIDE DEF S
  <2>4. Cardinality(S) <= unread[c]
    BY <2>2, <2>3, FS_CardinalityType
  <2> QED
    BY <2>4 DEF S
<1>2. ASSUME NEW c \in Conversations, \A m \in MessagesIn(c) : Undisturbed(m)
      PROVE  unread[c] = Cardinality(unseen \cap MessagesIn(c))
  <2>1. Clean(c)
    BY <1>2 DEF Clean, Sound, Undisturbed
  <2>2. ASSUME NEW m \in MessagesIn(c), NEW w \in Workers, pc[w] \in Counting, Message(w) = m
        PROVE  FALSE
    <3>1. m \in Messages /\ Undisturbed(m)
      BY <1>2 DEF MessagesIn
    <3>2. pc[w] # "idle" /\ pc[w] \in Handling
      BY <2>2 DEF Handling, Counting
    <3>3. run[w] \in Executions /\ run[w] # None /\ run[w].job = m
      BY <2>2, <3>2, BusyWorker, ExecutionFields DEF Message
    <3>4. run[w].n \in 1 .. started[m] /\ run[w] \notin emitted
      BY <3>2, <3>3 DEF ExecutionInv
    <3>5. started[m] = 1
      <4>1. started[m] \in Nat /\ (started[m] = reruns[m] \/ started[m] = reruns[m] + 1)
        BY <3>1 DEF Inv, TypeOK, CountInv
      <4> QED
        BY <3>1, <3>4, <4>1 DEF Undisturbed
    <3>6. PICK e \in emitted : e.job = m
      BY <3>1, <3>5 DEF Undisturbed, Announced
    <3>7. e \in Executions /\ e.n \in 1 .. started[e.job]
      BY DEF Inv, TypeOK, ExecutionInv
    <3> QED
      BY <3>3, <3>4, <3>5, <3>6, <3>7, FirstIsAlone
  <2>3. Counted(c) = unseen \cap MessagesIn(c)
    BY <1>2, <2>2 DEF Counted, Counts, ExecutionInv, Undisturbed
  <2> QED
    BY <2>1, <2>3 DEF UnreadInv
<1> QED
  BY <1>1, <1>2 DEF UnreadAgrees, UnreadCovers, UnreadExact

\* Neither workers nor messages at the start.
LEMMA UnreadBegins == ASSUME Init PROVE ExecutionInv /\ UnreadInv
<1>1. ExecutionInv
  BY DEF Init, ExecutionInv
<1>2. ASSUME NEW c \in Conversations PROVE Counted(c) = {} /\ unread[c] = 0
  BY DEF Init, Counted, Counts, Counting
<1> QED
  BY <1>1, <1>2, FS_EmptySet DEF UnreadInv

\* Executions stay apart and the counter is right, for any number of workers.
LEMMA UnreadInvariance == Spec => [](ExecutionInv /\ UnreadInv)
<1>1. Init => ExecutionInv /\ UnreadInv
  BY UnreadBegins
<1>2. /\ Inv /\ Inv' /\ ExecutionInv /\ UnreadInv /\ [Next]_vars
      => ExecutionInv' /\ UnreadInv'
  BY ExecutionStep, UnreadStep
<1> QED
  BY <1>1, <1>2, Invariance, PTL DEF Spec

\* upsertFromInbound, markRead and persistInbound: the unread counter hides no message
\* and, undisturbed, invents none, for any number of workers, messages and re-runs.
THEOREM UnreadIsRight == Spec => []UnreadAgrees
<1>1. Inv /\ ExecutionInv /\ UnreadInv => UnreadAgrees
  BY UnreadIsCounted
<1> QED
  BY <1>1, Invariance, UnreadInvariance, PTL

=============================================================================
