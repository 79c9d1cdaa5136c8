--------------------------- MODULE OutboundProofs ---------------------------
(***************************************************************************)
(* Proofs about Outbound for every number of workers, conversations, jobs, *)
(* attempts and stalls: type correctness, exclusion under the Redis lock,  *)
(* no resend without a fault, and that Outbound implements                 *)
(* OutboundDelivery.  All follow from one inductive invariant, Inv.        *)
(***************************************************************************)
EXTENDS Outbound, TLAPS

\* The wait list holds each waiting job at most once and nothing else.
QueueInv ==
    \A i \in 1 .. Len(waiting) :
        /\ state[waiting[i]] = "waiting"
        /\ \A k \in 1 .. Len(waiting) : i # k => waiting[i] # waiting[k]

\* Exactly the published jobs have a state and a conversation.
PublishedInv ==
    \A j \in Jobs :
        IF j <= lastId THEN state[j] # "none" /\ thread[j] \in Threads
                       ELSE state[j] = "none" /\ started[j] = 0

\* Every execution that began ended in a failed attempt, a stall or the job's
\* completion, or is the one the queue still counts on.
BudgetInv ==
    \A j \in Jobs :
        /\ started[j] <= Budget
        /\ state[j] \in {"none", "waiting", "delayed"} =>
              /\ started[j] = attempts[j] + stalls[j]
              /\ attempts[j] < Attempts
              /\ stalls[j] <= MaxStalls
        /\ state[j] = "active" =>
              /\ started[j] = attempts[j] + stalls[j] + 1
              /\ attempts[j] < Attempts
              /\ stalls[j] <= MaxStalls

\* No two workers run the same execution, and an execution of a job that
\* never stalled is the one the queue counts on.
RunsRightly(w) ==
    /\ pc[w] = "idle" <=> run[w] = None
    /\ run[w] # None =>
          /\ run[w].job <= lastId
          /\ run[w].n \in 1 .. started[run[w].job]
          /\ stalls[run[w].job] = 0 => IsCurrent(run[w])
          /\ \A v \in Workers : v # w => run[v] # run[w]

RunInv == \A w \in Workers : RunsRightly(w)

\* A worker whose lock has not lapsed owns the key.
OwnerInv ==
    \A w \in Workers :
        InCriticalSection(w) /\ w \notin overran => lock[LockKey(w)] = run[w]

\* What an execution's progress says of whether its message was accepted.
SendInv ==
    \A w \in Workers :
        /\ pc[w] \in {"acquire", "send"} => run[w] \notin accepted
        /\ pc[w] = "await" => run[w] \in accepted
        /\ pc[w] \in {"release", "finish"} /\ outcome[w] = "ok" => run[w] \in accepted
        /\ pc[w] \in {"release", "finish"} /\ outcome[w] = "error" =>
              (run[w] \in accepted => run[w] \in faulted)

\* An accepted message whose answer arrived is the job's last execution.
AcceptedInv ==
    \A e \in accepted :
        /\ e.job <= lastId
        /\ e.n \in 1 .. started[e.job]
        /\ e \notin faulted /\ stalls[e.job] = 0 =>
              /\ e.n = started[e.job]
              /\ state[e.job] \in {"active", "completed"}

\* A completed job was sent.
CompletedInv ==
    \A j \in Jobs : state[j] = "completed" => \E e \in accepted : e.job = j

Inv ==
    /\ TypeOK
    /\ QueueInv
    /\ PublishedInv
    /\ BudgetInv
    /\ RunInv
    /\ OwnerInv
    /\ SendInv
    /\ AcceptedInv
    /\ CompletedInv

-----------------------------------------------------------------------------
\* The queue is empty and every worker idle at the start.
LEMMA InitInv == Init => Inv
<1> SUFFICES ASSUME Init PROVE Inv
  OBVIOUS
<1> USE OutboundAssumption DEF Init, Jobs
<1>1. TypeOK
  BY DEF TypeOK, States, Steps
<1>2. QueueInv /\ PublishedInv /\ BudgetInv
  BY DEF QueueInv, PublishedInv, BudgetInv, Budget
<1>3. RunInv /\ OwnerInv /\ SendInv
  BY DEF RunInv, RunsRightly, OwnerInv, SendInv, InCriticalSection
<1>4. AcceptedInv /\ CompletedInv
  BY DEF AcceptedInv, CompletedInv
<1> QED
  BY <1>1, <1>2, <1>3, <1>4 DEF Inv

\* An execution is a job and a number, and nothing else.
LEMMA ExecutionFields ==
    /\ \A e \in Executions : e.job \in Jobs /\ e.n \in Nat /\ e # None
    /\ \A d, e \in Executions : d.job = e.job /\ d.n = e.n => d = e
    /\ \A j \in Jobs, n \in Nat : [job |-> j, n |-> n] \in Executions
BY OutboundAssumption DEF Executions

\* A busy worker runs an execution of a published job, which has a lock key.
LEMMA BusyWorker ==
    ASSUME Inv, NEW w \in Workers, pc[w] # "idle"
    PROVE  /\ run[w] \in Executions
           /\ run[w].job \in Jobs
           /\ run[w].n \in Nat
           /\ run[w].job <= lastId
           /\ run[w].n \in 1 .. started[run[w].job]
           /\ LockKey(w) \in Threads
<1>1. run[w] \in Executions
  BY DEF Inv, TypeOK, RunInv, RunsRightly
<1>2. run[w].job \in Jobs /\ run[w].n \in Nat /\ run[w] # None
  BY <1>1, ExecutionFields
<1>3. run[w].job <= lastId /\ run[w].n \in 1 .. started[run[w].job]
  BY <1>2 DEF Inv, RunInv, RunsRightly
<1>4. LockKey(w) \in Threads
  BY <1>2, <1>3 DEF LockKey, Inv, PublishedInv
<1> QED
  BY <1>1, <1>2, <1>3, <1>4

\* MessagingPublisher.publishOutbound keeps the invariant: the new job is in
\* nobody's hands.
LEMMA PublishInv == ASSUME Inv, NEW t \in Threads, Publish(t) PROVE Inv'
<1> DEFINE j == lastId + 1
<1>1. j \in Jobs /\ j \in Nat /\ lastId \in Nat /\ Jobs \subseteq Nat
  BY OutboundAssumption DEF Publish, Inv, TypeOK, Jobs
<1>2. /\ lastId' = j
      /\ state' = [state EXCEPT ![j] = "waiting"]
      /\ thread' = [thread EXCEPT ![j] = t]
      /\ waiting' = Append(waiting, j)
      /\ UNCHANGED <<attempts, stalls, started, lock, pc, run, outcome, accepted, faulted, overran>>
  BY DEF Publish, workerVars, history
<1>3. state[j] = "none" /\ started[j] = 0 /\ lastId < j
  BY <1>1 DEF Inv, PublishedInv
<1>4. \A i \in Jobs : i # j => state'[i] = state[i] /\ thread'[i] = thread[i]
  BY <1>2 DEF Inv, TypeOK
<1>5. state'[j] = "waiting" /\ thread'[j] = t
  BY <1>1, <1>2 DEF Inv, TypeOK
<1>6. \A i \in Jobs : i <= lastId' <=> i <= lastId \/ i = j
  BY <1>1, <1>2
<1> HIDE DEF j
<1>7. TypeOK'
  BY <1>1, <1>2 DEF Inv, TypeOK, States, Jobs
<1>8. QueueInv'
  <2>1. /\ Len(waiting) \in Nat
        /\ Len(waiting') = Len(waiting) + 1
        /\ waiting'[Len(waiting) + 1] = j
        /\ \A i \in 1 .. Len(waiting) : waiting'[i] = waiting[i] /\ waiting[i] \in Jobs
    BY <1>1, <1>2 DEF Inv, TypeOK
  <2>2. \A i \in 1 .. Len(waiting) : state[waiting[i]] = "waiting" /\ waiting[i] # j
    BY <1>3 DEF Inv, QueueInv
  <2>3. \A i \in 1 .. Len(waiting) : state'[waiting[i]] = "waiting"
    BY <1>4, <2>1, <2>2
  <2>4. ASSUME NEW i \in 1 .. Len(waiting'), NEW k \in 1 .. Len(waiting'), i # k
        PROVE  waiting'[i] # waiting'[k]
    BY <2>1, <2>2, <2>4 DEF Inv, QueueInv
  <2>5. \A i \in 1 .. Len(waiting') : state'[waiting'[i]] = "waiting"
    BY <1>5, <2>1, <2>3
  <2> QED
    BY <2>4, <2>5 DEF QueueInv
<1>9. PublishedInv'
  BY <1>2, <1>4, <1>5, <1>6 DEF Inv, PublishedInv
<1>10. BudgetInv'
  BY <1>1, <1>2, <1>3, <1>4, <1>5 DEF Inv, BudgetInv
<1>11. RunInv'
  <2> SUFFICES ASSUME NEW w \in Workers PROVE RunsRightly(w)'
    BY DEF RunInv
  <2>1. RunsRightly(w)
    BY DEF Inv, RunInv
  <2>2. CASE pc[w] = "idle"
    BY <1>2, <2>1, <2>2 DEF RunsRightly
  <2>3. CASE pc[w] # "idle"
    <3>1. run[w].job \in Jobs /\ run[w].job # j
      BY <1>1, <1>3, <2>3, BusyWorker
    <3> QED
      BY <1>2, <1>4, <1>6, <2>1, <2>3, <3>1 DEF RunsRightly, IsCurrent
  <2> QED
    BY <2>2, <2>3
<1>12. OwnerInv'
  BY <1>1, <1>2, <1>3, <1>4, BusyWorker DEF Inv, OwnerInv, InCriticalSection, LockKey
<1>13. SendInv'
  BY <1>2 DEF Inv, SendInv
<1>14. AcceptedInv'
  BY <1>1, <1>2, <1>3, <1>4, <1>6, ExecutionFields DEF Inv, TypeOK, AcceptedInv
<1>15. CompletedInv'
  BY <1>2, <1>4, <1>5 DEF Inv, CompletedInv
<1> QED
  BY <1>7, <1>8, <1>9, <1>10, <1>11, <1>12, <1>13, <1>14, <1>15 DEF Inv

\* A step that leaves the queue alone keeps what is said of the queue alone.
LEMMA QueueUntouched ==
    ASSUME Inv, UNCHANGED jobVars
    PROVE  /\ QueueInv' /\ PublishedInv' /\ BudgetInv'
           /\ UNCHANGED <<lastId, thread, waiting, state, attempts, stalls, started>>
BY DEF Inv, jobVars, QueueInv, PublishedInv, BudgetInv

\* A step that moves a busy worker on in its execution keeps RunInv.
LEMMA SameExecution ==
    ASSUME Inv, UNCHANGED <<jobVars, run>>,
           \A v \in Workers : pc'[v] = "idle" <=> pc[v] = "idle"
    PROVE  RunInv'
<1> SUFFICES ASSUME NEW v \in Workers PROVE RunsRightly(v)'
  BY DEF RunInv
<1>1. RunsRightly(v)
  BY DEF Inv, RunInv
<1> QED
  BY <1>1 DEF RunsRightly, IsCurrent, jobVars

\* RedisService.acquireLock: the key was free, so its new owner is the only one.
LEMMA AcquireLockInv == ASSUME Inv, NEW w \in Workers, AcquireLock(w) PROVE Inv'
<1>1. /\ pc[w] = "acquire"
      /\ lock[LockKey(w)] = None
      /\ lock' = [lock EXCEPT ![LockKey(w)] = run[w]]
      /\ pc' = [pc EXCEPT ![w] = "send"]
      /\ UNCHANGED <<jobVars, run, outcome, accepted, faulted, overran>>
  BY DEF AcquireLock, history
<1>2. run[w] \in Executions /\ LockKey(w) \in Threads
  BY <1>1, BusyWorker
<1>3. QueueInv' /\ PublishedInv' /\ BudgetInv'
      /\ UNCHANGED <<lastId, thread, waiting, state, attempts, stalls, started>>
  BY <1>1, QueueUntouched
<1>4. \A v \in Workers : pc'[v] = IF v = w THEN "send" ELSE pc[v]
  BY <1>1 DEF Inv, TypeOK
<1>5. TypeOK'
  BY <1>1, <1>2, <1>3 DEF Inv, TypeOK, Steps
<1>6. RunInv'
  BY <1>1, <1>4, SameExecution
<1>7. OwnerInv'
  <2> SUFFICES ASSUME NEW v \in Workers, InCriticalSection(v)', v \notin overran
               PROVE  lock'[LockKey(v)'] = run'[v]
    BY <1>1 DEF OwnerInv
  <2>1. LockKey(v)' = LockKey(v) /\ run'[v] = run[v]
    BY <1>1, <1>3 DEF LockKey
  <2>2. CASE v = w
    BY <1>1, <1>2, <2>1, <2>2 DEF Inv, TypeOK
  <2>3. CASE v # w
    <3>1. InCriticalSection(v) /\ pc[v] # "idle"
      BY <1>4, <2>3 DEF InCriticalSection
    <3>2. lock[LockKey(v)] = run[v] /\ run[v] \in Executions
      BY <3>1, BusyWorker DEF Inv, OwnerInv
    <3>3. LockKey(v) # LockKey(w)
      BY <1>1, <3>2, ExecutionFields
    <3> QED
      BY <1>1, <2>1, <3>1, <3>2, <3>3, BusyWorker DEF Inv, TypeOK
  <2> QED
    BY <2>2, <2>3
<1>8. SendInv'
  BY <1>1, <1>4 DEF Inv, SendInv
<1>9. AcceptedInv' /\ CompletedInv'
  BY <1>1, <1>3 DEF Inv, AcceptedInv, CompletedInv
<1> QED
  BY <1>3, <1>5, <1>6, <1>7, <1>8, <1>9 DEF Inv

\* redis.acquireLock is rejected: nothing was sent, and a key that was set
\* nevertheless was nobody's.
LEMMA AcquireFailsInv == ASSUME Inv, NEW w \in Workers, AcquireFails(w) PROVE Inv'
<1>1. /\ pc[w] = "acquire"
      /\ \/ lock' = lock
         \/ lock[LockKey(w)] = None /\ lock' = [lock EXCEPT ![LockKey(w)] = run[w]]
      /\ pc' = [pc EXCEPT ![w] = "finish"]
      /\ outcome' = [outcome EXCEPT ![w] = "error"]
      /\ UNCHANGED <<jobVars, run, accepted, faulted, overran>>
  BY DEF AcquireFails, history
<1>2. run[w] \in Executions /\ LockKey(w) \in Threads
  BY <1>1, BusyWorker
<1>3. QueueInv' /\ PublishedInv' /\ BudgetInv'
      /\ UNCHANGED <<lastId, thread, waiting, state, attempts, stalls, started>>
  BY <1>1, QueueUntouched
<1>4. \A v \in Workers : /\ pc'[v] = IF v = w THEN "finish" ELSE pc[v]
                         /\ outcome'[v] = IF v = w THEN "error" ELSE outcome[v]
  BY <1>1 DEF Inv, TypeOK
<1>5. TypeOK'
  BY <1>1, <1>2, <1>3 DEF Inv, TypeOK, Steps
<1>6. RunInv'
  BY <1>1, <1>4, SameExecution
<1>7. OwnerInv'
  <2> SUFFICES ASSUME NEW v \in Workers, InCriticalSection(v)', v \notin overran
               PROVE  lock'[LockKey(v)'] = run'[v]
    BY <1>1 DEF OwnerInv
  <2>1. v # w /\ InCriticalSection(v) /\ pc[v] # "idle"
    BY <1>4 DEF InCriticalSection
  <2>2. LockKey(v)' = LockKey(v) /\ run'[v] = run[v]
    BY <1>1, <1>3 DEF LockKey
  <2>3. /\ lock[LockKey(v)] = run[v] /\ run[v] # None
        /\ LockKey(v) \in Threads
    BY <2>1, BusyWorker, ExecutionFields DEF Inv, OwnerInv
  <2> QED
    BY <1>1, <1>2, <2>2, <2>3 DEF Inv, TypeOK
<1>8. SendInv'
  BY <1>1, <1>4 DEF Inv, SendInv
<1>9. AcceptedInv' /\ CompletedInv'
  BY <1>1, <1>3 DEF Inv, AcceptedInv, CompletedInv
<1> QED
  BY <1>3, <1>5, <1>6, <1>7, <1>8, <1>9 DEF Inv

\* A step of worker w that leaves the queue, the lock and the execution alone
\* and does not enter the send section keeps all but SendInv and AcceptedInv.
LEMMA WorkerMoves ==
    ASSUME Inv, NEW w \in Workers, NEW step \in Steps \ {"idle"},
           pc[w] # "idle",
           pc' = [pc EXCEPT ![w] = step],
           step \in {"send", "await", "release"} => InCriticalSection(w),
           UNCHANGED <<jobVars, lock, run, overran>>,
           outcome' \in [Workers -> {"ok", "error"}],
           accepted' \in SUBSET Executions,
           faulted' \in SUBSET Executions,
           accepted \subseteq accepted'
    PROVE  /\ TypeOK' /\ QueueInv' /\ PublishedInv' /\ BudgetInv' /\ RunInv' /\ OwnerInv'
           /\ CompletedInv'
           /\ \A v \in Workers : pc'[v] = IF v = w THEN step ELSE pc[v]
<1>1. \A v \in Workers : pc'[v] = IF v = w THEN step ELSE pc[v]
  BY DEF Inv, TypeOK
<1>2. QueueInv' /\ PublishedInv' /\ BudgetInv'
      /\ UNCHANGED <<lastId, thread, waiting, state, attempts, stalls, started>>
  BY QueueUntouched
<1>3. TypeOK'
  BY <1>2 DEF Inv, TypeOK
<1>4. RunInv'
  BY <1>1, SameExecution
<1>5. OwnerInv'
  BY <1>1, <1>2 DEF Inv, OwnerInv, InCriticalSection, LockKey
<1>6. CompletedInv'
  BY <1>2 DEF Inv, CompletedInv
<1> QED
  BY <1>1, <1>2, <1>3, <1>4, <1>5, <1>6

\* LockedError: nothing was sent.
LEMMA LockedInv == ASSUME Inv, NEW w \in Workers, Locked(w) PROVE Inv'
<1>1. /\ pc[w] = "acquire"
      /\ pc' = [pc EXCEPT ![w] = "finish"]
      /\ outcome' = [outcome EXCEPT ![w] = "error"]
      /\ UNCHANGED <<jobVars, lock, run, accepted, faulted, overran>>
  BY DEF Locked, history
<1>2. /\ outcome' \in [Workers -> {"ok", "error"}]
      /\ accepted' \in SUBSET Executions /\ faulted' \in SUBSET Executions
      /\ \A v \in Workers : outcome'[v] = IF v = w THEN "error" ELSE outcome[v]
  BY <1>1 DEF Inv, TypeOK
<1>3. /\ TypeOK' /\ QueueInv' /\ PublishedInv' /\ BudgetInv' /\ RunInv' /\ OwnerInv'
      /\ CompletedInv'
      /\ \A v \in Workers : pc'[v] = IF v = w THEN "finish" ELSE pc[v]
  BY <1>1, <1>2, WorkerMoves DEF Steps
<1>4. SendInv'
  BY <1>1, <1>2, <1>3 DEF Inv, SendInv
<1>5. AcceptedInv'
  BY <1>1 DEF Inv, AcceptedInv, jobVars
<1> QED
  BY <1>3, <1>4, <1>5 DEF Inv

\* The channel accepts the message of an execution no other worker runs.
LEMMA ChannelAcceptsInv == ASSUME Inv, NEW w \in Workers, ChannelAccepts(w) PROVE Inv'
<1>1. /\ pc[w] = "send"
      /\ accepted' = accepted \cup {run[w]}
      /\ pc' = [pc EXCEPT ![w] = "await"]
      /\ UNCHANGED <<jobVars, lock, run, outcome, faulted, overran>>
  BY DEF ChannelAccepts
<1>2. run[w] \in Executions /\ run[w].job \in Jobs /\ run[w].n \in Nat
  BY <1>1, BusyWorker
<1>3. /\ outcome' \in [Workers -> {"ok", "error"}]
      /\ accepted' \in SUBSET Executions /\ faulted' \in SUBSET Executions
  BY <1>1, <1>2 DEF Inv, TypeOK
<1>4. /\ TypeOK' /\ QueueInv' /\ PublishedInv' /\ BudgetInv' /\ RunInv' /\ OwnerInv'
      /\ CompletedInv'
      /\ \A v \in Workers : pc'[v] = IF v = w THEN "await" ELSE pc[v]
  BY <1>1, <1>3, WorkerMoves DEF Steps, InCriticalSection
<1>5. RunsRightly(w) /\ run[w] # None
  BY <1>1 DEF Inv, RunInv, RunsRightly
<1>6. SendInv'
  <2> SUFFICES ASSUME NEW v \in Workers
               PROVE  /\ pc'[v] \in {"acquire", "send"} => run[v] \notin accepted'
                      /\ pc'[v] = "await" => run[v] \in accepted'
                      /\ pc'[v] \in {"release", "finish"} /\ outcome[v] = "ok" => run[v] \in accepted'
                      /\ pc'[v] \in {"release", "finish"} /\ outcome[v] = "error" =>
                            (run[v] \in accepted' => run[v] \in faulted)
    BY <1>1 DEF SendInv
  <2>1. v # w => run[v] # run[w]
    BY <1>5 DEF RunsRightly
  <2> QED
    BY <1>1, <1>4, <2>1 DEF Inv, SendInv
<1>7. AcceptedInv'
  <2>1. /\ run[w].job <= lastId
        /\ run[w].n \in 1 .. started[run[w].job]
        /\ stalls[run[w].job] = 0 =>
              run[w].n = started[run[w].job] /\ state[run[w].job] = "active"
    BY <1>5 DEF RunsRightly, IsCurrent
  <2> QED
    BY <1>1, <2>1 DEF Inv, AcceptedInv, jobVars
<1> QED
  BY <1>4, <1>6, <1>7 DEF Inv

\* adapter.send() returns: the channel has accepted the message.
LEMMA SendReturnsInv == ASSUME Inv, NEW w \in Workers, SendReturns(w) PROVE Inv'
<1>1. /\ pc[w] = "await"
      /\ pc' = [pc EXCEPT ![w] = "release"]
      /\ outcome' = [outcome EXCEPT ![w] = "ok"]
      /\ UNCHANGED <<jobVars, lock, run, accepted, faulted, overran>>
  BY DEF SendReturns, history
<1>2. /\ outcome' \in [Workers -> {"ok", "error"}]
      /\ accepted' \in SUBSET Executions /\ faulted' \in SUBSET Executions
      /\ \A v \in Workers : outcome'[v] = IF v = w THEN "ok" ELSE outcome[v]
  BY <1>1 DEF Inv, TypeOK
<1>3. /\ TypeOK' /\ QueueInv' /\ PublishedInv' /\ BudgetInv' /\ RunInv' /\ OwnerInv'
      /\ CompletedInv'
      /\ \A v \in Workers : pc'[v] = IF v = w THEN "release" ELSE pc[v]
  BY <1>1, <1>2, WorkerMoves DEF Steps, InCriticalSection
<1>4. SendInv'
  BY <1>1, <1>2, <1>3 DEF Inv, SendInv
<1>5. AcceptedInv'
  BY <1>1 DEF Inv, AcceptedInv, jobVars
<1> QED
  BY <1>3, <1>4, <1>5 DEF Inv

\* adapter.send() throws: if the message was accepted, its answer is lost.
LEMMA SendThrowsInv == ASSUME Inv, NEW w \in Workers, SendThrows(w) PROVE Inv'
<1>1. /\ pc[w] \in {"send", "await"}
      /\ pc' = [pc EXCEPT ![w] = "release"]
      /\ outcome' = [outcome EXCEPT ![w] = "error"]
      /\ faulted' = IF pc[w] = "await" THEN faulted \cup {run[w]} ELSE faulted
      /\ UNCHANGED <<jobVars, lock, run, accepted, overran>>
  BY DEF SendThrows
<1>2. run[w] \in Executions
  BY <1>1, BusyWorker
<1>3. /\ outcome' \in [Workers -> {"ok", "error"}]
      /\ accepted' \in SUBSET Executions /\ faulted' \in SUBSET Executions
      /\ \A v \in Workers : outcome'[v] = IF v = w THEN "error" ELSE outcome[v]
  BY <1>1, <1>2 DEF Inv, TypeOK
<1>4. /\ TypeOK' /\ QueueInv' /\ PublishedInv' /\ BudgetInv' /\ RunInv' /\ OwnerInv'
      /\ CompletedInv'
      /\ \A v \in Workers : pc'[v] = IF v = w THEN "release" ELSE pc[v]
  BY <1>1, <1>3, WorkerMoves DEF Steps, InCriticalSection
<1>5. SendInv'
  BY <1>1, <1>3, <1>4 DEF Inv, SendInv
<1>6. AcceptedInv'
  BY <1>1 DEF Inv, AcceptedInv, jobVars
<1> QED
  BY <1>4, <1>5, <1>6 DEF Inv

\* RELEASE_LOCK_LUA: a worker deletes no key but its own, so every other
\* owner keeps it.
LEMMA ReleaseLockInv == ASSUME Inv, NEW w \in Workers, ReleaseLock(w) PROVE Inv'
<1>1. /\ pc[w] = "release"
      /\ lock' = [lock EXCEPT ![LockKey(w)] = IF @ = run[w] THEN None ELSE @]
      /\ pc' = [pc EXCEPT ![w] = "finish"]
      /\ UNCHANGED <<jobVars, run, outcome, accepted, faulted, overran>>
  BY DEF ReleaseLock, history
<1>2. QueueInv' /\ PublishedInv' /\ BudgetInv'
      /\ UNCHANGED <<lastId, thread, waiting, state, attempts, stalls, started>>
  BY <1>1, QueueUntouched
<1>3. \A v \in Workers : pc'[v] = IF v = w THEN "finish" ELSE pc[v]
  BY <1>1 DEF Inv, TypeOK
<1>4. LockKey(w) \in Threads
  BY <1>1, BusyWorker
<1>5. TypeOK'
  BY <1>1, <1>2, <1>4 DEF Inv, TypeOK, Steps
<1>6. RunInv'
  BY <1>1, <1>3, SameExecution
<1>7. OwnerInv'
  <2> SUFFICES ASSUME NEW v \in Workers, InCriticalSection(v)', v \notin overran
               PROVE  lock'[LockKey(v)'] = run'[v]
    BY <1>1 DEF OwnerInv
  <2>1. v # w /\ InCriticalSection(v) /\ pc[v] # "idle"
    BY <1>3 DEF InCriticalSection
  <2>2. LockKey(v)' = LockKey(v) /\ run'[v] = run[v]
    BY <1>1, <1>2 DEF LockKey
  <2>3. run[v] # run[w] /\ lock[LockKey(v)] = run[v] /\ LockKey(v) \in Threads
    BY <1>1, <2>1, BusyWorker DEF Inv, RunInv, RunsRightly, OwnerInv
  <2> QED
    BY <1>1, <1>4, <2>2, <2>3 DEF Inv, TypeOK
<1>8. SendInv'
  BY <1>1, <1>3 DEF Inv, SendInv
<1>9. AcceptedInv' /\ CompletedInv'
  BY <1>1, <1>2 DEF Inv, AcceptedInv, CompletedInv
<1> QED
  BY <1>2, <1>5, <1>6, <1>7, <1>8, <1>9 DEF Inv

\* redis.releaseLock is rejected, whether or not the script ran: the attempt
\* fails, and if the message was accepted the execution met a fault.
LEMMA ReleaseFailsInv == ASSUME Inv, NEW w \in Workers, ReleaseFails(w) PROVE Inv'
<1>1. /\ pc[w] = "release"
      /\ \/ lock' = lock
         \/ lock' = [lock EXCEPT ![LockKey(w)] = IF @ = run[w] THEN None ELSE @]
      /\ pc' = [pc EXCEPT ![w] = "finish"]
      /\ outcome' = [outcome EXCEPT ![w] = "error"]
      /\ faulted' = faulted \cup ({run[w]} \cap accepted)
      /\ UNCHANGED <<jobVars, run, accepted, overran>>
  BY DEF ReleaseFails
<1>2. QueueInv' /\ PublishedInv' /\ BudgetInv'
      /\ UNCHANGED <<lastId, thread, waiting, state, attempts, stalls, started>>
  BY <1>1, QueueUntouched
<1>3. \A v \in Workers : /\ pc'[v] = IF v = w THEN "finish" ELSE pc[v]
                         /\ outcome'[v] = IF v = w THEN "error" ELSE outcome[v]
  BY <1>1 DEF Inv, TypeOK
<1>4. LockKey(w) \in Threads
  BY <1>1, BusyWorker
<1>5. TypeOK'
  BY <1>1, <1>2, <1>4 DEF Inv, TypeOK, Steps
<1>6. RunInv'
  BY <1>1, <1>3, SameExecution
<1>7. OwnerInv'
  <2> SUFFICES ASSUME NEW v \in Workers, InCriticalSection(v)', v \notin overran
               PROVE  lock'[LockKey(v)'] = run'[v]
    BY <1>1 DEF OwnerInv
  <2>1. v # w /\ InCriticalSection(v) /\ pc[v] # "idle"
    BY <1>3 DEF InCriticalSection
  <2>2. LockKey(v)' = LockKey(v) /\ run'[v] = run[v]
    BY <1>1, <1>2 DEF LockKey
  <2>3. run[v] # run[w] /\ lock[LockKey(v)] = run[v] /\ LockKey(v) \in Threads
    BY <1>1, <2>1, BusyWorker DEF Inv, RunInv, RunsRightly, OwnerInv
  <2> QED
    BY <1>1, <1>4, <2>2, <2>3 DEF Inv, TypeOK
<1>8. SendInv'
  BY <1>1, <1>3 DEF Inv, SendInv
<1>9. AcceptedInv' /\ CompletedInv'
  BY <1>1, <1>2 DEF Inv, AcceptedInv, CompletedInv
<1> QED
  BY <1>2, <1>5, <1>6, <1>7, <1>8, <1>9 DEF Inv

\* What a busy worker's slot holds does not change when the slot of another does.
LEMMA OtherWorkers ==
    ASSUME Inv, NEW w \in Workers, NEW v \in Workers, v # w,
           pc'[v] = pc[v], run'[v] = run[v],
           UNCHANGED <<thread, lock>>, v \in overran' <=> v \in overran
    PROVE  InCriticalSection(v)' /\ v \notin overran' => lock'[LockKey(v)'] = run'[v]
BY DEF Inv, OwnerInv, InCriticalSection, LockKey

\* A slot takes the first waiting job: no execution of it is under way that
\* the queue still counts on, and none of it was accepted without a fault.
LEMMA FetchInv == ASSUME Inv, NEW w \in Workers, Fetch(w) PROVE Inv'
<1> DEFINE j == Head(waiting)
           e == [job |-> j, n |-> started[j] + 1]
<1>1. /\ pc[w] = "idle" /\ waiting # <<>>
      /\ state' = [state EXCEPT ![j] = "active"]
      /\ started' = [started EXCEPT ![j] = @ + 1]
      /\ run' = [run EXCEPT ![w] = e]
      /\ waiting' = Tail(waiting)
      /\ pc' = [pc EXCEPT ![w] = "acquire"]
      /\ UNCHANGED <<lastId, thread, attempts, stalls, lock, outcome, accepted, faulted, overran>>
  BY DEF Fetch, history
<1>2. /\ Len(waiting) \in Nat /\ Len(waiting) > 0
      /\ j = waiting[1] /\ j \in Jobs
      /\ Len(waiting') = Len(waiting) - 1
      /\ \A i \in 1 .. Len(waiting') : waiting'[i] = waiting[i + 1] /\ waiting[i + 1] \in Jobs
      /\ waiting' \in Seq(Jobs)
  BY <1>1 DEF Inv, TypeOK
<1>3. /\ state[j] = "waiting"
      /\ \A i \in 2 .. Len(waiting) : waiting[i] # j /\ state[waiting[i]] = "waiting"
  BY <1>2 DEF Inv, QueueInv
<1>4. j <= lastId /\ lastId \in Nat /\ j \in Nat /\ started[j] \in Nat
  <2>1. lastId \in Nat /\ Jobs \subseteq Nat
    BY OutboundAssumption DEF Inv, TypeOK, Jobs
  <2>2. started[j] \in Nat
    BY <1>2 DEF Inv, TypeOK
  <2>3. j <= lastId
    BY <1>2, <1>3 DEF Inv, PublishedInv
  <2> QED
    BY <1>2, <2>1, <2>2, <2>3
<1>5. e \in Executions /\ e.job = j /\ e.n = started[j] + 1 /\ e # None
  BY <1>2, <1>4, ExecutionFields
<1>6. /\ \A i \in Jobs : state'[i] = IF i = j THEN "active" ELSE state[i]
      /\ \A i \in Jobs : started'[i] = IF i = j THEN started[i] + 1 ELSE started[i]
      /\ \A v \in Workers : run'[v] = IF v = w THEN e ELSE run[v]
      /\ \A v \in Workers : pc'[v] = IF v = w THEN "acquire" ELSE pc[v]
  BY <1>1, <1>2 DEF Inv, TypeOK
<1> HIDE DEF e, j
<1>7. TypeOK'
  BY <1>1, <1>2, <1>4, <1>5 DEF Inv, TypeOK, States, Steps
<1>8. QueueInv'
  <2>1. ASSUME NEW i \in 1 .. Len(waiting') PROVE state'[waiting'[i]] = "waiting"
    BY <1>2, <1>3, <1>6
  <2>2. ASSUME NEW i \in 1 .. Len(waiting'), NEW k \in 1 .. Len(waiting'), i # k
        PROVE  waiting'[i] # waiting'[k]
    BY <1>2, <2>2 DEF Inv, QueueInv
  <2> QED
    BY <2>1, <2>2 DEF QueueInv
<1>9. PublishedInv'
  BY <1>1, <1>4, <1>6 DEF Inv, PublishedInv
<1>10. BudgetInv'
  <2> SUFFICES ASSUME NEW i \in Jobs PROVE
        /\ started'[i] <= Budget
        /\ state'[i] \in {"none", "waiting", "delayed"} =>
              /\ started'[i] = attempts[i] + stalls[i]
              /\ attempts[i] < Attempts
              /\ stalls[i] <= MaxStalls
        /\ state'[i] = "active" =>
              /\ started'[i] = attempts[i] + stalls[i] + 1
              /\ attempts[i] < Attempts
              /\ stalls[i] <= MaxStalls
    BY <1>1 DEF BudgetInv
  <2>1. CASE i = j
    BY <1>2, <1>3, <1>6, <2>1, OutboundAssumption DEF Inv, TypeOK, BudgetInv, Budget
  <2>2. CASE i # j
    BY <1>6, <2>2 DEF Inv, BudgetInv
  <2> QED
    BY <2>1, <2>2
<1>11. \A v \in Workers : run[v] # None =>
          run[v] \in Executions /\ run[v].job \in Jobs /\ run[v].n \in Nat
          /\ run[v].n <= started[run[v].job]
          /\ (stalls[run[v].job] = 0 => run[v].job # j)
  <2> SUFFICES ASSUME NEW v \in Workers, run[v] # None
               PROVE  /\ run[v] \in Executions /\ run[v].job \in Jobs /\ run[v].n \in Nat
                      /\ run[v].n <= started[run[v].job]
                      /\ (stalls[run[v].job] = 0 => run[v].job # j)
    OBVIOUS
  <2>1. RunsRightly(v) /\ pc[v] # "idle"
    BY DEF Inv, RunInv, RunsRightly
  <2>2. run[v] \in Executions /\ run[v].job \in Jobs /\ run[v].n \in Nat
        /\ run[v].n \in 1 .. started[run[v].job]
    BY <2>1, BusyWorker
  <2>3. stalls[run[v].job] = 0 => state[run[v].job] = "active"
    BY <2>1 DEF RunsRightly, IsCurrent
  <2> QED
    BY <1>3, <2>2, <2>3 DEF Inv, TypeOK
<1>12. RunInv'
  <2> SUFFICES ASSUME NEW v \in Workers PROVE RunsRightly(v)'
    BY DEF RunInv
  <2>1. \A u \in Workers : run[u] # e
    BY <1>4, <1>5, <1>11
  <2>2. CASE v = w
    BY <1>1, <1>2, <1>4, <1>5, <1>6, <2>1, <2>2 DEF RunsRightly, IsCurrent
  <2>3. CASE v # w /\ run[v] # None
    <3>1. RunsRightly(v)
      BY DEF Inv, RunInv
    <3>2. run'[v] = run[v] /\ pc'[v] = pc[v]
      BY <1>6, <2>3
    <3>3. run[v].n \in 1 .. started'[run[v].job]
      BY <1>4, <1>6, <1>11, <2>3, <3>1 DEF RunsRightly
    <3>4. stalls[run[v].job] = 0 => IsCurrent(run[v])'
      BY <1>1, <1>6, <1>11, <2>3, <3>1, <3>2 DEF RunsRightly, IsCurrent
    <3>5. \A u \in Workers : u # v => run'[u] # run'[v]
      BY <1>6, <2>1, <2>3, <3>1 DEF RunsRightly
    <3> QED
      BY <1>1, <2>3, <3>1, <3>2, <3>3, <3>4, <3>5 DEF RunsRightly
  <2>4. CASE v # w /\ run[v] = None
    BY <1>6, <2>4 DEF Inv, RunInv, RunsRightly
  <2> QED
    BY <2>2, <2>3, <2>4
<1>13. OwnerInv'
  BY <1>1, <1>6, OtherWorkers DEF OwnerInv, InCriticalSection
<1>14. SendInv'
  <2>1. e \notin accepted
    BY <1>4, <1>5 DEF Inv, AcceptedInv
  <2> QED
    BY <1>1, <1>6, <2>1 DEF Inv, SendInv
<1>15. AcceptedInv'
  <2> SUFFICES ASSUME NEW d \in accepted
               PROVE  /\ d.job <= lastId
                      /\ d.n \in 1 .. started'[d.job]
                      /\ d \notin faulted /\ stalls[d.job] = 0 =>
                            /\ d.n = started'[d.job]
                            /\ state'[d.job] \in {"active", "completed"}
    BY <1>1 DEF AcceptedInv
  <2>1. d \in Executions /\ d.job \in Jobs /\ d.n \in Nat
    BY ExecutionFields DEF Inv, TypeOK
  <2>2. /\ d.job <= lastId
        /\ d.n \in 1 .. started[d.job]
        /\ d \notin faulted /\ stalls[d.job] = 0 =>
              /\ d.n = started[d.job]
              /\ state[d.job] \in {"active", "completed"}
    BY DEF Inv, AcceptedInv
  <2> QED
    BY <1>3, <1>4, <1>6, <2>1, <2>2
<1>16. CompletedInv'
  BY <1>1, <1>6 DEF Inv, CompletedInv
<1> QED
  BY <1>7, <1>8, <1>9, <1>10, <1>12, <1>13, <1>14, <1>15, <1>16 DEF Inv

\* The slot of worker w is empty after LeavesWorker, and what the other
\* workers hold stays true of them.
LEMMA SlotFreed ==
    ASSUME Inv, NEW w \in Workers, LeavesWorker(w), UNCHANGED <<thread, lock>>
    PROVE  /\ pc' \in [Workers -> Steps]
           /\ run' \in [Workers -> Executions \cup {None}]
           /\ outcome' \in [Workers -> {"ok", "error"}]
           /\ overran' \in SUBSET Workers
           /\ UNCHANGED <<accepted, faulted>>
           /\ pc'[w] = "idle" /\ run'[w] = None
           /\ \A v \in Workers : v # w => pc'[v] = pc[v] /\ run'[v] = run[v]
           /\ OwnerInv' /\ SendInv'
<1>1. /\ pc' = [pc EXCEPT ![w] = "idle"]
      /\ run' = [run EXCEPT ![w] = None]
      /\ outcome' = [outcome EXCEPT ![w] = "ok"]
      /\ overran' = overran \ {w}
      /\ UNCHANGED <<accepted, faulted>>
  BY DEF LeavesWorker
<1>2. /\ pc' \in [Workers -> Steps]
      /\ run' \in [Workers -> Executions \cup {None}]
      /\ outcome' \in [Workers -> {"ok", "error"}]
      /\ overran' \in SUBSET Workers
      /\ pc'[w] = "idle" /\ run'[w] = None
      /\ \A v \in Workers : v # w =>
            pc'[v] = pc[v] /\ run'[v] = run[v] /\ outcome'[v] = outcome[v]
  BY <1>1 DEF Inv, TypeOK, Steps
<1>3. OwnerInv'
  BY <1>1, <1>2, OtherWorkers DEF OwnerInv, InCriticalSection
<1>4. SendInv'
  BY <1>1, <1>2 DEF Inv, SendInv
<1> QED
  BY <1>1, <1>2, <1>3, <1>4

\* A process dies: the job, the lock and what was accepted are untouched.
LEMMA CrashInv == ASSUME Inv, NEW w \in Workers, Crash(w) PROVE Inv'
<1>1. LeavesWorker(w) /\ UNCHANGED jobVars /\ UNCHANGED lock
  BY DEF Crash
<1>2. QueueInv' /\ PublishedInv' /\ BudgetInv'
      /\ UNCHANGED <<lastId, thread, waiting, state, attempts, stalls, started>>
  BY <1>1, QueueUntouched
<1>3. /\ pc' \in [Workers -> Steps]
      /\ run' \in [Workers -> Executions \cup {None}]
      /\ outcome' \in [Workers -> {"ok", "error"}]
      /\ overran' \in SUBSET Workers
      /\ UNCHANGED <<accepted, faulted>>
      /\ pc'[w] = "idle" /\ run'[w] = None
      /\ \A v \in Workers : v # w => pc'[v] = pc[v] /\ run'[v] = run[v]
      /\ OwnerInv' /\ SendInv'
  BY <1>1, <1>2, SlotFreed
<1>4. TypeOK'
  BY <1>1, <1>2, <1>3 DEF Inv, TypeOK
<1>5. RunInv'
  <2> SUFFICES ASSUME NEW v \in Workers PROVE RunsRightly(v)'
    BY DEF RunInv
  <2>1. RunsRightly(v)
    BY DEF Inv, RunInv
  <2> QED
    BY <1>2, <1>3, <2>1 DEF RunsRightly, IsCurrent
<1>6. AcceptedInv' /\ CompletedInv'
  BY <1>2, <1>3 DEF Inv, AcceptedInv, CompletedInv
<1> QED
  BY <1>2, <1>3, <1>4, <1>5, <1>6 DEF Inv

\* The TTL elapses: only the worker whose key it was loses its claim.
LEMMA ExpireLockInv == ASSUME Inv, NEW t \in Threads, ExpireLock(t) PROVE Inv'
<1>1. /\ lock[t] # None
      /\ lock' = [lock EXCEPT ![t] = None]
      /\ overran' = overran \cup {w \in Workers : run[w] = lock[t]}
      /\ UNCHANGED <<jobVars, pc, run, outcome, accepted, faulted>>
  BY DEF ExpireLock, workerVars
<1>2. QueueInv' /\ PublishedInv' /\ BudgetInv'
      /\ UNCHANGED <<lastId, thread, waiting, state, attempts, stalls, started>>
  BY <1>1, QueueUntouched
<1>3. TypeOK'
  BY <1>1, <1>2 DEF Inv, TypeOK
<1>4. RunInv'
  BY <1>1, SameExecution
<1>5. OwnerInv'
  <2> SUFFICES ASSUME NEW v \in Workers, InCriticalSection(v), v \notin overran'
               PROVE  lock'[LockKey(v)] = run[v]
    BY <1>1, <1>2 DEF OwnerInv, InCriticalSection, LockKey
  <2>1. lock[LockKey(v)] = run[v] /\ run[v] # lock[t]
    BY <1>1 DEF Inv, OwnerInv
  <2> QED
    BY <1>1, <2>1 DEF Inv, TypeOK
<1>6. SendInv' /\ AcceptedInv' /\ CompletedInv'
  BY <1>1, <1>2 DEF Inv, SendInv, AcceptedInv, CompletedInv
<1> QED
  BY <1>2, <1>3, <1>4, <1>5, <1>6 DEF Inv

\* A job that is not active is run by no worker and has no accepted message
\* without a fault, unless it completed or stalled.
LEMMA QuietJob ==
    ASSUME Inv, NEW j \in Jobs, stalls[j] = 0
    PROVE  /\ \A v \in Workers : run[v] # None /\ run[v].job = j => state[j] = "active"
           /\ \A d \in accepted : d.job = j /\ d \notin faulted =>
                 d.n = started[j] /\ state[j] \in {"active", "completed"}
BY DEF Inv, RunInv, RunsRightly, IsCurrent, AcceptedInv

\* The backoff is over: a delayed job goes back to the wait list it had left.
LEMMA PromoteInv == ASSUME Inv, NEW j \in Jobs, Promote(j) PROVE Inv'
<1>1. /\ state[j] = "delayed"
      /\ state' = [state EXCEPT ![j] = "waiting"]
      /\ waiting' = Append(waiting, j)
      /\ UNCHANGED <<lastId, thread, attempts, stalls, started, lock, pc, run, outcome,
                     accepted, faulted, overran>>
  BY DEF Promote, workerVars, history
<1>2. \A i \in Jobs : state'[i] = IF i = j THEN "waiting" ELSE state[i]
  BY <1>1 DEF Inv, TypeOK
<1>3. TypeOK'
  BY <1>1 DEF Inv, TypeOK, States
<1>4. QueueInv'
  <2>1. /\ Len(waiting) \in Nat
        /\ Len(waiting') = Len(waiting) + 1
        /\ waiting'[Len(waiting) + 1] = j
        /\ \A i \in 1 .. Len(waiting) : waiting'[i] = waiting[i] /\ waiting[i] \in Jobs
    BY <1>1 DEF Inv, TypeOK
  <2>2. \A i \in 1 .. Len(waiting) : state[waiting[i]] = "waiting" /\ waiting[i] # j
    BY <1>1 DEF Inv, QueueInv
  <2>3. ASSUME NEW i \in 1 .. Len(waiting'), NEW k \in 1 .. Len(waiting'), i # k
        PROVE  waiting'[i] # waiting'[k]
    BY <2>1, <2>2, <2>3 DEF Inv, QueueInv
  <2>4. \A i \in 1 .. Len(waiting') : state'[waiting'[i]] = "waiting"
    BY <1>2, <2>1, <2>2
  <2> QED
    BY <2>3, <2>4 DEF QueueInv
<1>5. PublishedInv'
  BY <1>1, <1>2 DEF Inv, PublishedInv
<1>6. BudgetInv'
  BY <1>1, <1>2 DEF Inv, BudgetInv
<1>7. RunInv'
  <2> SUFFICES ASSUME NEW v \in Workers PROVE RunsRightly(v)'
    BY DEF RunInv
  <2>1. RunsRightly(v)
    BY DEF Inv, RunInv
  <2>2. CASE run[v] = None
    BY <1>1, <2>1, <2>2 DEF RunsRightly
  <2>3. CASE run[v] # None
    <3>1. run[v].job \in Jobs /\ (stalls[run[v].job] = 0 => run[v].job # j)
      BY <1>1, <2>1, <2>3, BusyWorker, QuietJob DEF RunsRightly
    <3> QED
      BY <1>1, <1>2, <2>1, <2>3, <3>1 DEF RunsRightly, IsCurrent
  <2> QED
    BY <2>2, <2>3
<1>8. OwnerInv' /\ SendInv'
  BY <1>1 DEF Inv, OwnerInv, SendInv, InCriticalSection, LockKey
<1>9. AcceptedInv'
  <2> SUFFICES ASSUME NEW d \in accepted, d \notin faulted, stalls[d.job] = 0
               PROVE  d.n = started[d.job] /\ state'[d.job] \in {"active", "completed"}
    BY <1>1 DEF Inv, AcceptedInv
  <2>1. d.job \in Jobs
    BY ExecutionFields DEF Inv, TypeOK
  <2> QED
    BY <1>1, <1>2, <2>1, QuietJob
<1>10. CompletedInv'
  BY <1>1, <1>2 DEF Inv, CompletedInv
<1> QED
  BY <1>3, <1>4, <1>5, <1>6, <1>7, <1>8, <1>9, <1>10 DEF Inv

\* A stalled job goes back to the head of the wait list or fails; from then on
\* a second execution and a second copy of it are accounted for.
LEMMA StallInv == ASSUME Inv, NEW j \in Jobs, Stall(j) PROVE Inv'
<1>1. /\ state[j] = "active"
      /\ stalls' = [stalls EXCEPT ![j] = @ + 1]
      /\ \/ /\ stalls[j] < MaxStalls
            /\ state' = [state EXCEPT ![j] = "waiting"]
            /\ waiting' = <<j>> \o waiting
         \/ /\ stalls[j] = MaxStalls
            /\ state' = [state EXCEPT ![j] = "failed"]
            /\ UNCHANGED waiting
      /\ UNCHANGED <<lastId, thread, attempts, started, lock, pc, run, outcome,
                     accepted, faulted, overran>>
  BY DEF Stall, workerVars, history
<1>2. /\ \A i \in Jobs : i # j => state'[i] = state[i] /\ stalls'[i] = stalls[i]
      /\ stalls[j] \in Nat /\ stalls'[j] = stalls[j] + 1
      /\ state'[j] \in {"waiting", "failed"}
      /\ state'[j] = "waiting" => stalls[j] < MaxStalls
  BY <1>1, OutboundAssumption DEF Inv, TypeOK
<1>3. TypeOK'
  <2>1. waiting' \in Seq(Jobs) /\ state' \in [Jobs -> States]
    <3>1. waiting \in Seq(Jobs) /\ state \in [Jobs -> States]
      BY DEF Inv, TypeOK
    <3>2. <<j>> \o waiting \in Seq(Jobs)
      BY <3>1
    <3>3. state' \in [Jobs -> States]
      BY <1>1, <3>1 DEF States
    <3> QED
      BY <1>1, <3>1, <3>2, <3>3
  <2>2. stalls[j] + 1 \in 0 .. MaxStalls + 1
    BY <1>1, <1>2, OutboundAssumption
  <2>3. stalls' \in [Jobs -> 0 .. MaxStalls + 1]
    BY <1>1, <2>2 DEF Inv, TypeOK
  <2> QED
    BY <1>1, <2>1, <2>3 DEF Inv, TypeOK
<1>4. QueueInv'
  <2>1. \A i \in 1 .. Len(waiting) :
           waiting[i] \in Jobs /\ state[waiting[i]] = "waiting" /\ waiting[i] # j
    BY <1>1 DEF Inv, TypeOK, QueueInv
  <2>2. CASE state' = [state EXCEPT ![j] = "waiting"] /\ waiting' = <<j>> \o waiting
    <3>1. /\ Len(waiting) \in Nat
          /\ Len(waiting') = Len(waiting) + 1
          /\ waiting'[1] = j
          /\ \A i \in 2 .. Len(waiting') :
                i - 1 \in 1 .. Len(waiting) /\ waiting'[i] = waiting[i - 1]
      BY <2>2 DEF Inv, TypeOK
    <3>2. state'[j] = "waiting"
      BY <2>2 DEF Inv, TypeOK
    <3>3. ASSUME NEW i \in 1 .. Len(waiting'), NEW k \in 1 .. Len(waiting'), i # k
          PROVE  waiting'[i] # waiting'[k]
      BY <2>1, <3>1, <3>3 DEF Inv, QueueInv
    <3>4. \A i \in 1 .. Len(waiting') : state'[waiting'[i]] = "waiting"
      BY <1>2, <2>1, <3>1, <3>2
    <3> QED
      BY <3>3, <3>4 DEF QueueInv
  <2>3. CASE UNCHANGED waiting
    BY <1>2, <2>1, <2>3 DEF Inv, QueueInv
  <2> QED
    BY <1>1, <2>2, <2>3
<1>5. PublishedInv'
  BY <1>1, <1>2 DEF Inv, PublishedInv
<1>6. BudgetInv'
  <2>1. /\ attempts[j] \in Nat /\ started[j] = attempts[j] + stalls[j] + 1
        /\ attempts[j] < Attempts /\ stalls[j] <= MaxStalls /\ started[j] <= Budget
    BY <1>1, OutboundAssumption DEF Inv, TypeOK, BudgetInv
  <2>2. state'[j] = "waiting" =>
           started[j] = attempts[j] + stalls'[j] /\ stalls'[j] <= MaxStalls
    BY <1>2, <2>1, OutboundAssumption
  <2> QED
    BY <1>1, <1>2, <2>1, <2>2 DEF Inv, BudgetInv
<1>7. RunInv'
  <2> SUFFICES ASSUME NEW v \in Workers PROVE RunsRightly(v)'
    BY DEF RunInv
  <2>1. RunsRightly(v)
    BY DEF Inv, RunInv
  <2>2. CASE run[v] = None
    BY <1>1, <2>1, <2>2 DEF RunsRightly
  <2>3. CASE run[v] # None
    <3>1. run[v].job \in Jobs
      BY <2>1, <2>3, BusyWorker DEF RunsRightly
    <3>2. stalls'[run[v].job] = 0 => IsCurrent(run[v])'
      BY <1>1, <1>2, <2>1, <2>3, <3>1 DEF RunsRightly, IsCurrent
    <3> QED
      BY <1>1, <2>1, <2>3, <3>2 DEF RunsRightly
  <2> QED
    BY <2>2, <2>3
<1>8. OwnerInv' /\ SendInv'
  BY <1>1 DEF Inv, OwnerInv, SendInv, InCriticalSection, LockKey
<1>9. AcceptedInv'
  <2> SUFFICES ASSUME NEW d \in accepted, d \notin faulted, stalls'[d.job] = 0
               PROVE  d.n = started[d.job] /\ state'[d.job] \in {"active", "completed"}
    BY <1>1 DEF Inv, AcceptedInv
  <2>1. d.job \in Jobs
    BY ExecutionFields DEF Inv, TypeOK
  <2> QED
    BY <1>2, <2>1 DEF Inv, AcceptedInv
<1>10. CompletedInv'
  BY <1>1, <1>2 DEF Inv, CompletedInv
<1> QED
  BY <1>3, <1>4, <1>5, <1>6, <1>7, <1>8, <1>9, <1>10 DEF Inv

\* process() is over: a job that never stalled is settled or retried by the
\* one execution the queue counts on, and completed only if that was sent.
LEMMA FinishInv == ASSUME Inv, NEW w \in Workers, Finish(w) PROVE Inv'
<1> DEFINE j == run[w].job
<1>1. /\ pc[w] = "finish"
      /\ \/ IsCurrent(run[w]) /\ (Completes(w) \/ Fails(w))
         \/ ~IsCurrent(run[w]) /\ UNCHANGED <<state, attempts>>
      /\ LeavesWorker(w)
      /\ UNCHANGED <<lastId, thread, waiting, stalls, started, lock>>
  BY DEF Finish
<1>2. /\ run[w] \in Executions /\ j \in Jobs /\ run[w].n \in Nat /\ j <= lastId
      /\ run[w].n \in 1 .. started[j]
  BY <1>1, BusyWorker
<1>3. /\ pc' \in [Workers -> Steps]
      /\ run' \in [Workers -> Executions \cup {None}]
      /\ outcome' \in [Workers -> {"ok", "error"}]
      /\ overran' \in SUBSET Workers
      /\ UNCHANGED <<accepted, faulted>>
      /\ pc'[w] = "idle" /\ run'[w] = None
      /\ \A v \in Workers : v # w => pc'[v] = pc[v] /\ run'[v] = run[v]
      /\ OwnerInv' /\ SendInv'
  BY <1>1, SlotFreed
<1>4. RunsRightly(w) /\ run[w] # None
  BY <1>1 DEF Inv, RunInv, RunsRightly
<1>5. CASE ~IsCurrent(run[w]) /\ UNCHANGED <<state, attempts>>
  <2>1. UNCHANGED jobVars
    BY <1>1, <1>5 DEF jobVars
  <2>2. QueueInv' /\ PublishedInv' /\ BudgetInv'
        /\ UNCHANGED <<lastId, thread, waiting, state, attempts, stalls, started>>
    BY <2>1, QueueUntouched
  <2>3. TypeOK'
    BY <1>1, <1>3, <2>2 DEF Inv, TypeOK
  <2>4. RunInv'
    <3> SUFFICES ASSUME NEW v \in Workers PROVE RunsRightly(v)'
      BY DEF RunInv
    <3>1. RunsRightly(v)
      BY DEF Inv, RunInv
    <3> QED
      BY <1>3, <2>2, <3>1 DEF RunsRightly, IsCurrent
  <2>5. AcceptedInv' /\ CompletedInv'
    BY <1>3, <2>2 DEF Inv, AcceptedInv, CompletedInv
  <2> QED
    BY <1>3, <2>2, <2>3, <2>4, <2>5 DEF Inv
<1>6. CASE IsCurrent(run[w]) /\ (Completes(w) \/ Fails(w))
  <2>1. state[j] = "active" /\ started[j] = run[w].n
    BY <1>6 DEF IsCurrent
  <2>2. /\ attempts[j] < Attempts /\ attempts[j] \in Nat /\ stalls[j] \in Nat
        /\ started[j] = attempts[j] + stalls[j] + 1
        /\ stalls[j] <= MaxStalls
    BY <1>2, <2>1, OutboundAssumption DEF Inv, TypeOK, BudgetInv
  <2>3. \/ /\ outcome[w] = "ok"
           /\ state' = [state EXCEPT ![j] = "completed"]
           /\ UNCHANGED attempts
        \/ /\ outcome[w] = "error"
           /\ attempts' = [attempts EXCEPT ![j] = @ + 1]
           /\ state' = [state EXCEPT ![j] =
                           IF attempts[j] + 1 < Attempts THEN "delayed" ELSE "failed"]
    BY <1>6 DEF Completes, Fails
  <2>4. /\ \A i \in Jobs : i # j => state'[i] = state[i] /\ attempts'[i] = attempts[i]
        /\ state'[j] \in {"completed", "delayed", "failed"}
        /\ state'[j] = "completed" <=> outcome[w] = "ok"
        /\ state'[j] = "delayed" => attempts'[j] = attempts[j] + 1 /\ attempts[j] + 1 < Attempts
    BY <1>2, <2>2, <2>3 DEF Inv, TypeOK
  <2>5. TypeOK'
    <3>1. state' \in [Jobs -> States]
      BY <1>2, <2>3 DEF Inv, TypeOK, States
    <3>2. attempts' \in [Jobs -> 0 .. Attempts]
      <4>1. attempts[j] + 1 \in 0 .. Attempts
        BY <2>2, OutboundAssumption
      <4> QED
        BY <2>3, <4>1 DEF Inv, TypeOK
    <3> QED
      BY <1>1, <1>3, <3>1, <3>2 DEF Inv, TypeOK
  <2>6. QueueInv'
    <3>1. \A i \in 1 .. Len(waiting) :
             waiting[i] \in Jobs /\ state[waiting[i]] = "waiting" /\ waiting[i] # j
      BY <2>1 DEF Inv, TypeOK, QueueInv
    <3> QED
      BY <1>1, <2>4, <3>1 DEF Inv, QueueInv
  <2>7. PublishedInv'
    BY <1>1, <1>2, <2>1, <2>4 DEF Inv, PublishedInv
  <2>8. BudgetInv'
    BY <1>1, <1>2, <2>2, <2>4 DEF Inv, BudgetInv
  <2>9. RunInv'
    <3> SUFFICES ASSUME NEW v \in Workers, v # w, run[v] # None PROVE RunsRightly(v)'
      BY <1>3 DEF Inv, RunInv, RunsRightly
    <3>1. RunsRightly(v) /\ pc[v] # "idle" /\ run'[v] = run[v] /\ pc'[v] = pc[v]
      BY <1>3 DEF Inv, RunInv, RunsRightly
    <3>2. run[v] \in Executions /\ run[v].job \in Jobs
      BY <3>1, BusyWorker
    <3>3. run[v] # run[w]
      BY <3>1 DEF RunsRightly
    <3>4. stalls[run[v].job] = 0 => run[v].job # j
      BY <1>2, <2>1, <3>1, <3>2, <3>3, ExecutionFields DEF RunsRightly, IsCurrent
    <3>5. stalls'[run[v].job] = 0 => IsCurrent(run[v])'
      BY <1>1, <2>4, <3>1, <3>2, <3>4 DEF RunsRightly, IsCurrent
    <3>6. \A u \in Workers : u # v => run'[u] # run'[v]
      BY <1>3, <3>1 DEF RunsRightly
    <3> QED
      BY <1>1, <3>1, <3>5, <3>6 DEF RunsRightly
  <2>10. AcceptedInv'
    <3> SUFFICES ASSUME NEW d \in accepted, d \notin faulted, stalls[d.job] = 0
                 PROVE  d.n = started[d.job] /\ state'[d.job] \in {"active", "completed"}
      BY <1>1, <1>3 DEF Inv, AcceptedInv
    <3>1. d \in Executions /\ d.job \in Jobs
      BY ExecutionFields DEF Inv, TypeOK
    <3>2. d.n = started[d.job] /\ state[d.job] \in {"active", "completed"}
      BY <3>1, QuietJob
    <3>3. d.job = j => d = run[w]
      BY <1>2, <2>1, <3>1, <3>2, ExecutionFields
    <3>4. d.job = j => outcome[w] = "ok"
      BY <1>1, <3>3 DEF Inv, TypeOK, SendInv
    <3> QED
      BY <2>4, <3>1, <3>2, <3>4
  <2>11. CompletedInv'
    <3>1. outcome[w] = "ok" => run[w] \in accepted
      BY <1>1 DEF Inv, SendInv
    <3> QED
      BY <1>3, <2>4, <3>1 DEF Inv, CompletedInv
  <2> QED
    BY <1>3, <2>5, <2>6, <2>7, <2>8, <2>9, <2>10, <2>11 DEF Inv
<1> QED
  BY <1>1, <1>5, <1>6

-----------------------------------------------------------------------------
\* Every step keeps the invariant.
LEMMA NextInv == ASSUME Inv, [Next]_vars PROVE Inv'
<1>1. ASSUME NEW t \in Threads, Publish(t) \/ ExpireLock(t) PROVE Inv'
  BY <1>1, PublishInv, ExpireLockInv
<1>2. ASSUME NEW w \in Workers, Fetch(w) \/ Process(w) \/ Crash(w) PROVE Inv'
  BY <1>2, FetchInv, AcquireLockInv, LockedInv, AcquireFailsInv, ChannelAcceptsInv,
     SendReturnsInv, SendThrowsInv, ReleaseLockInv, ReleaseFailsInv, FinishInv, CrashInv
     DEF Process
<1>3. ASSUME NEW j \in Jobs, Promote(j) \/ Stall(j) PROVE Inv'
  BY <1>3, PromoteInv, StallInv
<1>4. CASE UNCHANGED vars
  BY <1>4 DEF vars, jobVars, workerVars, history, Inv, TypeOK, QueueInv, PublishedInv,
     BudgetInv, RunInv, RunsRightly, IsCurrent, OwnerInv, InCriticalSection, LockKey,
     SendInv, AcceptedInv, CompletedInv
<1> QED
  BY <1>1, <1>2, <1>3, <1>4 DEF Next

\* Inv is an invariant of the outbound queue.
LEMMA Invariance == Spec => []Inv
<1>1. Init => Inv
  BY InitInv
<1>2. Inv /\ [Next]_vars => Inv'
  BY NextInv
<1> QED
  BY <1>1, <1>2, PTL DEF Spec

\* Every variable of the outbound queue keeps its type: in particular no job
\* is tried more than Attempts times and none stalls more than MaxStalls + 1
\* times.
THEOREM TypeCorrect == Spec => []TypeOK
BY Invariance, PTL DEF Inv

\* However many workers compete for however many conversations, two of them
\* are in one conversation's send section only if a lock outlived its TTL.
THEOREM MutualExclusion == Spec => []LockExclusion
<1>1. Inv => LockExclusion
  <2> SUFFICES ASSUME Inv, NEW v \in Workers, NEW w \in Workers, v # w,
                      InCriticalSection(v), InCriticalSection(w), LockKey(v) = LockKey(w)
               PROVE  v \in overran \/ w \in overran
    BY DEF LockExclusion
  <2>1. run[v] # run[w]
    BY DEF Inv, RunInv, RunsRightly, InCriticalSection
  <2> QED
    BY <2>1 DEF Inv, OwnerInv
<1> QED
  BY <1>1, Invariance, PTL

\* Whatever the number of retries, the channel gets a second copy of a message
\* only after a lost answer, a rejected release or a stalled job.
THEOREM NoResendWithoutFault == Spec => []ResendNeedsFault
<1>1. Inv => ResendNeedsFault
  <2> SUFFICES ASSUME Inv, NEW d \in accepted, NEW e \in accepted, d.job = e.job, d # e,
                      d \notin faulted, e \notin faulted, ~(stalls[d.job] > 0)
               PROVE  FALSE
    BY DEF ResendNeedsFault
  <2>1. d \in Executions /\ e \in Executions /\ d.job \in Jobs
    BY ExecutionFields DEF Inv, TypeOK
  <2>2. stalls[d.job] = 0
    BY <2>1, OutboundAssumption DEF Inv, TypeOK
  <2>3. d.n = started[d.job] /\ e.n = started[d.job]
    BY <2>1, <2>2, QuietJob
  <2> QED
    BY <2>1, <2>3, ExecutionFields
<1> QED
  BY <1>1, Invariance, PTL

-----------------------------------------------------------------------------
\* The refinement mapping of Outbound onto OutboundDelivery, one job at a time.
LEMMA MappingFacts ==
    /\ Status \in [Jobs -> Delivery!Statuses]
    /\ Copies \in [Jobs -> SUBSET (1 .. Budget)]
BY DEF Status, Copies, Delivery!Statuses

\* The step of job i that changes its state is the step of the promise on it.
LEMMA StatusStep ==
    ASSUME NEW i \in Jobs, NEW s, NEW d,
           state \in [Jobs -> States],
           state' = [state EXCEPT ![i] = s],
           d = IF s = "none" THEN "unpublished"
               ELSE IF s \in {"completed", "failed"} THEN s ELSE "pending"
    PROVE  Status' = [Status EXCEPT ![i] = d]
<1>1. \A j \in Jobs : state'[j] = IF j = i THEN s ELSE state[j]
  OBVIOUS
<1> QED
  BY <1>1 DEF Status

\* Every step of the queue is a step of the promise or changes nothing of it.
LEMMA DeliveryStep == ASSUME Inv, Inv', [Next]_vars PROVE [Delivery!Next]_(Delivery!vars)
<1> USE DEF Delivery!vars
<1>1. state \in [Jobs -> States] /\ state' \in [Jobs -> States]
  BY DEF Inv, TypeOK
<1>2. ASSUME NEW t \in Threads, Publish(t) PROVE Delivery!Next
  <2> DEFINE j == lastId + 1
  <2>1. j \in Jobs /\ state[j] = "none"
    BY <1>2, OutboundAssumption DEF Publish, Inv, TypeOK, PublishedInv, Jobs
  <2>2. state' = [state EXCEPT ![j] = "waiting"] /\ accepted' = accepted
    BY <1>2 DEF Publish, history
  <2>3. Status[j] = "unpublished" /\ Status' = [Status EXCEPT ![j] = "pending"]
    <3> HIDE DEF j
    <3>1. Status[j] = "unpublished"
      BY <2>1 DEF Status
    <3> QED
      BY <1>1, <2>1, <2>2, <3>1, StatusStep
  <2>4. Copies' = Copies
    BY <2>2 DEF Copies
  <2> QED
    BY <2>1, <2>3, <2>4 DEF Delivery!Next, Delivery!Publish
<1>3. ASSUME NEW w \in Workers, Fetch(w) PROVE UNCHANGED <<Status, Copies>>
  <2> DEFINE j == Head(waiting)
  <2>1. j \in Jobs /\ state[j] = "waiting"
    <3>1. waiting \in Seq(Jobs) /\ waiting # <<>>
      BY <1>3 DEF Fetch, Inv, TypeOK
    <3>2. j = waiting[1] /\ j \in Jobs /\ 1 \in 1 .. Len(waiting)
      BY <3>1
    <3> QED
      BY <3>2 DEF Inv, QueueInv
  <2>2. state' = [state EXCEPT ![j] = "active"] /\ accepted' = accepted
    BY <1>3 DEF Fetch, history
  <2> HIDE DEF j
  <2>3. Status' = [Status EXCEPT ![j] = "pending"] /\ Status[j] = "pending"
    <3>1. Status[j] = "pending"
      BY <2>1 DEF Status
    <3> QED
      BY <1>1, <2>1, <2>2, <3>1, StatusStep
  <2> QED
    BY <2>1, <2>2, <2>3, MappingFacts DEF Copies
<1>4. ASSUME NEW w \in Workers,
             AcquireLock(w) \/ Locked(w) \/ AcquireFails(w) \/ SendReturns(w) \/ SendThrows(w)
             \/ ReleaseLock(w) \/ ReleaseFails(w) \/ Crash(w)
      PROVE  UNCHANGED <<Status, Copies>>
  BY <1>4 DEF AcquireLock, Locked, AcquireFails, SendReturns, SendThrows, ReleaseLock,
     ReleaseFails, Crash, LeavesWorker, jobVars, history, Status, Copies
<1>5. ASSUME NEW w \in Workers, ChannelAccepts(w)
      PROVE  [Delivery!Next]_(Delivery!vars)
  <2> DEFINE j == run[w].job
             n == run[w].n
  <2>1. pc[w] = "send" /\ accepted' = accepted \cup {run[w]} /\ state' = state
    BY <1>5 DEF ChannelAccepts, jobVars
  <2>2. /\ run[w] \in Executions /\ j \in Jobs /\ n \in Nat /\ j <= lastId
        /\ n \in 1 .. started[j]
    BY <2>1, BusyWorker
  <2>3. n \in 1 .. Budget
    BY <2>2, OutboundAssumption DEF Inv, TypeOK, BudgetInv, Budget
  <2>4. run[w] = [job |-> j, n |-> n] /\ run[w] \notin accepted
    BY <2>1, <2>2, ExecutionFields DEF Inv, SendInv
  <2> HIDE DEF j, n
  <2>5. Status[j] # "unpublished" /\ Status' = Status
    BY <2>1, <2>2 DEF Status, Inv, PublishedInv
  <2>6. \A i \in Jobs, m \in 1 .. Budget :
           [job |-> i, n |-> m] \in accepted' <=>
              [job |-> i, n |-> m] \in accepted \/ (i = j /\ m = n)
    BY <2>1, <2>4
  <2>7. Copies' = [Copies EXCEPT ![j] = @ \cup {n}] /\ n \notin Copies[j]
    BY <2>2, <2>3, <2>4, <2>6 DEF Copies
  <2>8. Delivery!AcceptCopy(j)
    BY <2>3, <2>5, <2>7 DEF Delivery!AcceptCopy
  <2> QED
    BY <2>2, <2>8 DEF Delivery!Next
<1>6. ASSUME NEW w \in Workers, Finish(w)
      PROVE  [Delivery!Next]_(Delivery!vars)
  <2> DEFINE j == run[w].job
  <2>1. pc[w] = "finish" /\ accepted' = accepted
    BY <1>6 DEF Finish, LeavesWorker
  <2>2. j \in Jobs /\ run[w] \in Executions
    BY <2>1, BusyWorker
  <2>3. Copies' = Copies
    BY <2>1 DEF Copies
  <2>4. CASE ~IsCurrent(run[w]) /\ UNCHANGED <<state, attempts>>
    BY <2>3, <2>4 DEF Status
  <2>5. CASE IsCurrent(run[w]) /\ Completes(w)
    <3>1. /\ state[j] = "active" /\ state' = [state EXCEPT ![j] = "completed"]
          /\ run[w] \in accepted
      BY <2>1, <2>5 DEF IsCurrent, Completes, Inv, SendInv
    <3>2. run[w].n \in 1 .. Budget /\ run[w] = [job |-> j, n |-> run[w].n]
      <4>1. run[w].n \in Nat /\ run[w].n \in 1 .. started[j]
        BY <2>1, BusyWorker
      <4>2. started[j] <= Budget /\ started[j] \in Nat /\ Budget \in Nat
        BY <2>2, OutboundAssumption DEF Inv, TypeOK, BudgetInv, Budget
      <4>3. run[w] = [job |-> j, n |-> run[w].n]
        BY <2>2, <4>1, ExecutionFields
      <4> QED
        BY <4>1, <4>2, <4>3
    <3>3. Status[j] = "pending" /\ Copies[j] # {}
      BY <2>2, <3>1, <3>2 DEF Status, Copies
    <3>4. Status' = [Status EXCEPT ![j] = "completed"]
      BY <1>1, <2>2, <3>1, StatusStep
    <3> QED
      BY <2>2, <2>3, <3>3, <3>4 DEF Delivery!Next, Delivery!Complete
  <2>6. CASE IsCurrent(run[w]) /\ Fails(w) /\ attempts[j] + 1 < Attempts
    <3>1. state[j] = "active" /\ state' = [state EXCEPT ![j] = "delayed"]
      BY <2>6 DEF IsCurrent, Fails
    <3>2. Status[j] = "pending" /\ Status' = [Status EXCEPT ![j] = "pending"]
      <4>1. Status[j] = "pending"
        BY <2>2, <3>1 DEF Status
      <4> QED
        BY <1>1, <2>2, <3>1, <4>1, StatusStep
    <3> QED
      BY <2>2, <2>3, <3>2, MappingFacts
  <2>7. CASE IsCurrent(run[w]) /\ Fails(w) /\ ~(attempts[j] + 1 < Attempts)
    <3>1. state[j] = "active" /\ state' = [state EXCEPT ![j] = "failed"]
      BY <2>7 DEF IsCurrent, Fails
    <3>2. Status[j] = "pending" /\ Status' = [Status EXCEPT ![j] = "failed"]
      <4>1. Status[j] = "pending"
        BY <2>2, <3>1 DEF Status
      <4> QED
        BY <1>1, <2>2, <3>1, <4>1, StatusStep
    <3> QED
      BY <2>2, <2>3, <3>2 DEF Delivery!Next, Delivery!Drop
  <2> QED
    BY <1>6, <2>4, <2>5, <2>6, <2>7 DEF Finish
<1>7. ASSUME NEW j \in Jobs, Promote(j) PROVE UNCHANGED <<Status, Copies>>
  <2>1. /\ state[j] = "delayed" /\ state' = [state EXCEPT ![j] = "waiting"]
        /\ accepted' = accepted
    BY <1>7 DEF Promote, history
  <2>2. Status[j] = "pending"
    BY <2>1 DEF Status
  <2>3. Status' = [Status EXCEPT ![j] = "pending"]
    BY <1>1, <2>1, StatusStep
  <2> QED
    BY <2>1, <2>2, <2>3, MappingFacts DEF Copies
<1>8. ASSUME NEW j \in Jobs, Stall(j) PROVE [Delivery!Next]_(Delivery!vars)
  <2>1. /\ state[j] = "active" /\ accepted' = accepted
        /\ \/ state' = [state EXCEPT ![j] = "waiting"]
           \/ state' = [state EXCEPT ![j] = "failed"]
    BY <1>8 DEF Stall, history
  <2>2. Status[j] = "pending" /\ Copies' = Copies
    BY <2>1 DEF Status, Copies
  <2>3. CASE state' = [state EXCEPT ![j] = "waiting"]
    <3>1. Status' = [Status EXCEPT ![j] = "pending"]
      BY <1>1, <2>3, StatusStep
    <3> QED
      BY <2>2, <3>1, MappingFacts
  <2>4. CASE state' = [state EXCEPT ![j] = "failed"]
    <3>1. Status' = [Status EXCEPT ![j] = "failed"]
      BY <1>1, <2>4, StatusStep
    <3> QED
      BY <2>2, <3>1 DEF Delivery!Next, Delivery!Drop
  <2> QED
    BY <2>1, <2>3, <2>4
<1>9. ASSUME NEW t \in Threads, ExpireLock(t) PROVE UNCHANGED <<Status, Copies>>
  BY <1>9 DEF ExpireLock, jobVars, Status, Copies
<1>10. CASE UNCHANGED vars
  BY <1>10 DEF vars, jobVars, history, Status, Copies
<1> QED
  BY <1>2, <1>3, <1>4, <1>5, <1>6, <1>7, <1>8, <1>9, <1>10 DEF Next, Process

\* The outbound queue implements OutboundDelivery for any number of workers,
\* conversations, attempts and stalls: at most Attempts + MaxStalls copies of
\* a message, completed only once sent, settled once.
THEOREM Implements == Spec => DeliverySpec
<1>1. Init => Delivery!Init
  <2> SUFFICES ASSUME Init PROVE Delivery!Init
    OBVIOUS
  <2>1. Status = [j \in Jobs |-> "unpublished"]
    BY DEF Init, Status
  <2>2. Copies = [j \in Jobs |-> {}]
    BY DEF Init, Copies
  <2> QED
    BY <2>1, <2>2 DEF Delivery!Init
<1>2. Inv /\ Inv' /\ [Next]_vars => [Delivery!Next]_(Delivery!vars)
  BY DeliveryStep
<1> QED
  BY <1>1, <1>2, Invariance, PTL DEF Spec, DeliverySpec, Delivery!Spec
=============================================================================
