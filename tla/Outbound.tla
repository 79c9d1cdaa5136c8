------------------------------ MODULE Outbound ------------------------------
(***************************************************************************)
(* The messaging-outbound queue: MessagingPublisher.publishOutbound, the   *)
(* OutboundProcessor workers, the per-conversation Redis lock they send    *)
(* under, and the channel adapter they send through.                       *)
(*                                                                         *)
(* BullMQ itself (the wait list, the delayed set, stalled-job recovery) is *)
(* modelled from how src/ configures and uses it: 3 attempts, exponential  *)
(* backoff, concurrency 5.  There is no clock: a TTL or a backoff that may *)
(* elapse is an action that may happen.  The queue's limiter (5 jobs a     *)
(* second) only postpones Fetch, which may be postponed anyway.            *)
(***************************************************************************)
EXTENDS Naturals, Sequences

CONSTANTS Workers,    \* slots that run jobs: concurrency 5 in each process
          Threads,    \* conversations, i.e. botExternalId:threadId lock keys
          MaxJobs,    \* bound: jobs published in a behaviour
          Attempts,   \* publishOutbound's "attempts" (3)
          MaxStalls,  \* BullMQ's maxStalledCount (1)
          None        \* no execution, no thread

Jobs == 1 .. MaxJobs   \* BullMQ numbers the jobs of a queue as they arrive

\* One run of process() on a job.  Its lock token is a fresh randomUUID(), so
\* an execution names its own token.
Executions == [job : Jobs, n : Nat]

ASSUME OutboundAssumption ==
    /\ MaxJobs \in Nat
    /\ Attempts \in Nat \ {0}
    /\ MaxStalls \in Nat
    /\ None \notin Executions
    /\ None \notin Threads

VARIABLES
    lastId,    \* the last job number BullMQ gave out
    thread,    \* thread[j]: the conversation job j is addressed to
    waiting,   \* the wait list, next job first
    state,     \* state[j]: the job's state in BullMQ
    attempts,  \* attempts[j]: attemptsMade
    stalls,    \* stalls[j]: how often the job was found stalled
    started,   \* started[j]: executions begun
    lock,      \* lock[t]: the value of Redis key lock:send:t
    pc,        \* pc[w]: where process() stands in worker w
    run,       \* run[w]: the execution in worker w
    outcome,   \* outcome[w]: whether that execution returns or throws
    accepted,  \* history: executions whose message the channel accepted
    faulted,   \* history: executions that met a fault after the channel accepted
               \* their message: send()'s answer lost, or the release rejected
    overran    \* history: workers whose lock lapsed during the execution in them

jobVars == <<lastId, thread, waiting, state, attempts, stalls, started>>
workerVars == <<pc, run, outcome>>
history == <<accepted, faulted, overran>>
vars == <<jobVars, lock, workerVars, history>>

States == {"none", "waiting", "active", "delayed", "completed", "failed"}
Steps == {"idle", "acquire", "send", "await", "release", "finish"}

-----------------------------------------------------------------------------
TypeOK ==
    /\ lastId \in 0 .. MaxJobs
    /\ thread \in [Jobs -> Threads \cup {None}]
    /\ waiting \in Seq(Jobs)
    /\ state \in [Jobs -> States]
    /\ attempts \in [Jobs -> 0 .. Attempts]
    /\ stalls \in [Jobs -> 0 .. MaxStalls + 1]
    /\ started \in [Jobs -> Nat]
    /\ lock \in [Threads -> Executions \cup {None}]
    /\ pc \in [Workers -> Steps]
    /\ run \in [Workers -> Executions \cup {None}]
    /\ outcome \in [Workers -> {"ok", "error"}]
    /\ accepted \in SUBSET Executions
    /\ faulted \in SUBSET Executions
    /\ overran \in SUBSET Workers

Init ==
    /\ lastId = 0
    /\ thread = [j \in Jobs |-> None]
    /\ waiting = <<>>
    /\ state = [j \in Jobs |-> "none"]
    /\ attempts = [j \in Jobs |-> 0]
    /\ stalls = [j \in Jobs |-> 0]
    /\ started = [j \in Jobs |-> 0]
    /\ lock = [t \in Threads |-> None]
    /\ pc = [w \in Workers |-> "idle"]
    /\ run = [w \in Workers |-> None]
    /\ outcome = [w \in Workers |-> "ok"]
    /\ accepted = {}
    /\ faulted = {}
    /\ overran = {}

-----------------------------------------------------------------------------
\* publishOutbound: the job goes to the end of the wait list.
Publish(t) ==
    /\ lastId < MaxJobs
    /\ lastId' = lastId + 1
    /\ thread' = [thread EXCEPT ![lastId + 1] = t]
    /\ state' = [state EXCEPT ![lastId + 1] = "waiting"]
    /\ waiting' = Append(waiting, lastId + 1)
    /\ UNCHANGED <<attempts, stalls, started, lock, workerVars, history>>

\* A free slot takes the first waiting job and calls process().
Fetch(w) ==
    /\ pc[w] = "idle"
    /\ waiting # <<>>
    /\ LET j == Head(waiting) IN
          /\ state' = [state EXCEPT ![j] = "active"]
          /\ started' = [started EXCEPT ![j] = @ + 1]
          /\ run' = [run EXCEPT ![w] = [job |-> j, n |-> started[j] + 1]]
    /\ waiting' = Tail(waiting)
    /\ pc' = [pc EXCEPT ![w] = "acquire"]
    /\ UNCHANGED <<lastId, thread, attempts, stalls, lock, outcome, history>>

LockKey(w) == thread[run[w].job]

\* SET key token PX 15000 NX succeeds.
AcquireLock(w) ==
    /\ pc[w] = "acquire"
    /\ lock[LockKey(w)] = None
    /\ lock' = [lock EXCEPT ![LockKey(w)] = run[w]]
    /\ pc' = [pc EXCEPT ![w] = "send"]
    /\ UNCHANGED <<jobVars, run, outcome, history>>

\* The key exists: process() throws LockedError, outside the try block.
Locked(w) ==
    /\ pc[w] = "acquire"
    /\ lock[LockKey(w)] # None
    /\ pc' = [pc EXCEPT ![w] = "finish"]
    /\ outcome' = [outcome EXCEPT ![w] = "error"]
    /\ UNCHANGED <<jobVars, lock, run, history>>

\* redis.acquireLock is rejected (the client has been told to quit), before or
\* after the command took effect: process() throws, and a key that was set
\* stays until its TTL is over.
AcquireFails(w) ==
    /\ pc[w] = "acquire"
    /\ \/ UNCHANGED lock
       \/ lock[LockKey(w)] = None /\ lock' = [lock EXCEPT ![LockKey(w)] = run[w]]
    /\ pc' = [pc EXCEPT ![w] = "finish"]
    /\ outcome' = [outcome EXCEPT ![w] = "error"]
    /\ UNCHANGED <<jobVars, run, history>>

\* adapter.send(): the channel accepts the message and the call is still open.
ChannelAccepts(w) ==
    /\ pc[w] = "send"
    /\ accepted' = accepted \cup {run[w]}
    /\ pc' = [pc EXCEPT ![w] = "await"]
    /\ UNCHANGED <<jobVars, lock, run, outcome, faulted, overran>>

SendReturns(w) ==
    /\ pc[w] = "await"
    /\ pc' = [pc EXCEPT ![w] = "release"]
    /\ outcome' = [outcome EXCEPT ![w] = "ok"]
    /\ UNCHANGED <<jobVars, lock, run, history>>

\* Deviation: every send error is swallowed, as ChannelExpiredError would be.
SendErrorSwallowed(w) ==
    /\ pc[w] \in {"send", "await"}
    /\ pc' = [pc EXCEPT ![w] = "release"]
    /\ outcome' = [outcome EXCEPT ![w] = "ok"]
    /\ faulted' = IF pc[w] = "await" THEN faulted \cup {run[w]} ELSE faulted
    /\ UNCHANGED <<jobVars, lock, run, accepted, overran>>

\* adapter.send() throws: before the channel accepted anything (no session,
\* no adapter, a refused call) or after, when only the answer was lost.  The
\* adapters wrap every error in ChannelSendError or ChannelOfflineError, so the
\* ChannelExpiredError branch is never taken and the error is rethrown.
SendThrows(w) ==
    /\ pc[w] \in {"send", "await"}
    /\ pc' = [pc EXCEPT ![w] = "release"]
    /\ outcome' = [outcome EXCEPT ![w] = "error"]
    /\ faulted' = IF pc[w] = "await" THEN faulted \cup {run[w]} ELSE faulted
    /\ UNCHANGED <<jobVars, lock, run, accepted, overran>>

\* Deviation: a plain DEL, whoever holds the key.
ReleaseAnyLock(w) ==
    /\ pc[w] = "release"
    /\ lock' = [lock EXCEPT ![LockKey(w)] = None]
    /\ pc' = [pc EXCEPT ![w] = "finish"]
    /\ UNCHANGED <<jobVars, run, outcome, history>>

\* Deviation: releasing a lock that has lapsed throws out of the finally block.
ReleaseThrows(w) ==
    /\ pc[w] = "release"
    /\ lock' = [lock EXCEPT ![LockKey(w)] = IF @ = run[w] THEN None ELSE @]
    /\ outcome' = IF lock[LockKey(w)] = run[w] THEN outcome
                  ELSE [outcome EXCEPT ![w] = "error"]
    /\ pc' = [pc EXCEPT ![w] = "finish"]
    /\ UNCHANGED <<jobVars, run, history>>

\* The finally block: the script deletes the key only if it holds our token.
ReleaseLock(w) ==
    /\ pc[w] = "release"
    /\ lock' = [lock EXCEPT ![LockKey(w)] = IF @ = run[w] THEN None ELSE @]
    /\ pc' = [pc EXCEPT ![w] = "finish"]
    /\ UNCHANGED <<jobVars, run, outcome, history>>

\* redis.releaseLock is rejected, before or after the script ran: the error
\* leaves the finally block in place of what the try block returned or threw,
\* and a message that was sent is a failed attempt.
ReleaseFails(w) ==
    /\ pc[w] = "release"
    /\ \/ UNCHANGED lock
       \/ lock' = [lock EXCEPT ![LockKey(w)] = IF @ = run[w] THEN None ELSE @]
    /\ outcome' = [outcome EXCEPT ![w] = "error"]
    /\ faulted' = faulted \cup ({run[w]} \cap accepted)
    /\ pc' = [pc EXCEPT ![w] = "finish"]
    /\ UNCHANGED <<jobVars, run, accepted, overran>>

\* The execution in worker w is over and the slot is free.
LeavesWorker(w) ==
    /\ pc' = [pc EXCEPT ![w] = "idle"]
    /\ run' = [run EXCEPT ![w] = None]
    /\ outcome' = [outcome EXCEPT ![w] = "ok"]
    /\ overran' = overran \ {w}
    /\ UNCHANGED <<accepted, faulted>>

\* The queue takes an execution's result only while the job is still its own.
IsCurrent(e) == state[e.job] = "active" /\ started[e.job] = e.n

Completes(w) ==
    /\ outcome[w] = "ok"
    /\ state' = [state EXCEPT ![run[w].job] = "completed"]
    /\ UNCHANGED attempts

\* Deviation: the attempt limit is off by one.
FailsOffByOne(w) ==
    LET j == run[w].job IN
    /\ outcome[w] = "error"
    /\ attempts' = [attempts EXCEPT ![j] = @ + 1]
    /\ state' = [state EXCEPT ![j] =
                    IF attempts[j] <= Attempts THEN "delayed" ELSE "failed"]

Fails(w) ==
    LET j == run[w].job IN
    /\ outcome[w] = "error"
    /\ attempts' = [attempts EXCEPT ![j] = @ + 1]
    /\ state' = [state EXCEPT ![j] =
                    IF attempts[j] + 1 < Attempts THEN "delayed" ELSE "failed"]

\* process() is over: the job completes, is delayed for a retry or fails.
Finish(w) ==
    /\ pc[w] = "finish"
    /\ \/ IsCurrent(run[w]) /\ (Completes(w) \/ Fails(w))
       \/ ~IsCurrent(run[w]) /\ UNCHANGED <<state, attempts>>
    /\ LeavesWorker(w)
    /\ UNCHANGED <<lastId, thread, waiting, stalls, started, lock>>

\* The backoff of a delayed job is over.
Promote(j) ==
    /\ state[j] = "delayed"
    /\ state' = [state EXCEPT ![j] = "waiting"]
    /\ waiting' = Append(waiting, j)
    /\ UNCHANGED <<lastId, thread, attempts, stalls, started, lock, workerVars, history>>

\* A process dies in the middle of an execution.  The job stays active and
\* the Redis lock stays held.
Crash(w) ==
    /\ pc[w] # "idle"
    /\ LeavesWorker(w)
    /\ UNCHANGED <<jobVars, lock>>

\* Deviation: a stalled job is counted and never put back into the wait list.
StallForgotten(j) ==
    /\ state[j] = "active"
    /\ stalls[j] <= MaxStalls
    /\ stalls' = [stalls EXCEPT ![j] = @ + 1]
    /\ state' = [state EXCEPT ![j] =
                    IF stalls[j] < MaxStalls THEN "waiting" ELSE "failed"]
    /\ UNCHANGED <<lastId, thread, waiting, attempts, started, lock, workerVars, history>>

\* The queue finds that an active job's worker no longer renews its hold on
\* it (it died, or was cut off from Redis and may still be running), and runs
\* the job again at once, or fails it when that happened too often.
Stall(j) ==
    /\ state[j] = "active"
    /\ stalls' = [stalls EXCEPT ![j] = @ + 1]
    /\ \/ /\ stalls[j] < MaxStalls
          /\ state' = [state EXCEPT ![j] = "waiting"]
          /\ waiting' = <<j>> \o waiting
       \/ /\ stalls[j] = MaxStalls
          /\ state' = [state EXCEPT ![j] = "failed"]
          /\ UNCHANGED waiting
    /\ UNCHANGED <<lastId, thread, attempts, started, lock, workerVars, history>>

\* Deviation: SET ... NX without PX.
ExpireNever(t) == lock[t] # None /\ FALSE

\* LOCK_TTL_MS after SET ... PX: Redis drops the key, whatever its holder does.
\* Nothing renews it.
ExpireLock(t) ==
    /\ lock[t] # None
    /\ lock' = [lock EXCEPT ![t] = None]
    /\ overran' = overran \cup {w \in Workers : run[w] = lock[t]}
    /\ UNCHANGED <<jobVars, workerVars, accepted, faulted>>

-----------------------------------------------------------------------------
Process(w) ==
    \/ AcquireLock(w) \/ Locked(w) \/ AcquireFails(w)
    \/ ChannelAccepts(w) \/ SendReturns(w) \/ SendThrows(w)
    \/ ReleaseLock(w) \/ ReleaseFails(w) \/ Finish(w)

Next ==
    \/ \E t \in Threads : Publish(t) \/ ExpireLock(t)
    \/ \E w \in Workers : Fetch(w) \/ Process(w) \/ Crash(w)
    \/ \E j \in Jobs : Promote(j) \/ Stall(j)

Spec == Init /\ [][Next]_vars

\* Workers and the queue's timers keep going; publishing, crashing and the
\* way a send ends are up to the environment.
Fairness ==
    /\ \A w \in Workers : WF_vars(Fetch(w)) /\ WF_vars(Process(w))
    /\ \A j \in Jobs : WF_vars(Promote(j)) /\ WF_vars(Stall(j))
    /\ \A t \in Threads : WF_vars(ExpireLock(t))

FairSpec == Spec /\ Fairness

-----------------------------------------------------------------------------
\* Worker w believes it has the conversation to itself.
InCriticalSection(w) == pc[w] \in {"send", "await", "release"}

\* Two workers are in the send section of one conversation only if the lock
\* of one of them has outlived its TTL: while executions keep within the TTL
\* the Redis lock is exclusive, whoever crashes, stalls or releases late
\* (OutboundProcessor.process, RedisService.acquireLock and releaseLock).
LockExclusion ==
    \A v, w \in Workers :
        /\ v # w
        /\ InCriticalSection(v)
        /\ InCriticalSection(w)
        /\ LockKey(v) = LockKey(w)
        => v \in overran \/ w \in overran

\* The channel gets a message twice only if, after the channel had accepted it,
\* send()'s answer was lost or Redis rejected the release of the lock, or the
\* job stalled: neither lock contention, nor a lapsed lock, nor a late release,
\* nor an acquisition that Redis rejected makes a retry of a message that was sent.
ResendNeedsFault ==
    \A d, e \in accepted :
        d.job = e.job /\ d # e =>
            d \in faulted \/ e \in faulted \/ stalls[d.job] > 0

Budget == Attempts + MaxStalls

\* What a caller of publishOutbound may know of each job.
Status == [j \in Jobs |->
    CASE state[j] = "none" -> "unpublished"
      [] state[j] \in {"completed", "failed"} -> state[j]
      [] OTHER -> "pending"]

Copies == [j \in Jobs |-> {n \in 1 .. Budget : [job |-> j, n |-> n] \in accepted}]

Delivery == INSTANCE OutboundDelivery WITH status <- Status, copies <- Copies

\* The outbound queue implements OutboundDelivery: at most one copy for each
\* attempt and stall, completed only once sent, settled once.
DeliverySpec == Delivery!Spec

\* Every published job is settled, completed or failed, whatever crashes,
\* stalls and lock contention it meets.
Settled == \A j \in Jobs :
    state[j] = "waiting" ~> state[j] \in {"completed", "failed"}

\* A conversation is never locked for good, although a crashed worker does
\* not run the finally block that releases its lock.
LockFreed == \A t \in Threads : lock[t] # None ~> lock[t] = None

\* Messages of one conversation are first accepted in the order in which they
\* were published, but for those that were given up.
SentInOrder ==
    [][\A i, j \in Jobs :
          i < j /\ thread[i] = thread[j] /\ Copies[j]' # Copies[j]
              => Copies[i] # {} \/ state[i] = "failed"]_vars

=============================================================================
