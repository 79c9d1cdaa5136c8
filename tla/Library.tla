------------------------------- MODULE Library -------------------------------
(***************************************************************************)
(* Documents of a bot: their rows, the chunks that the retrieval searches,  *)
(* and the queue rag-embed that makes the ones from the others.  Requests   *)
(* write a row and then add a job; the worker's slots read the row, embed   *)
(* its text, replace the chunks and set the status, each in a statement of  *)
(* its own.                                                                *)
(*                                                                         *)
(* All chunks of one run are inserted by one statement and hold the whole   *)
(* text, which no request changes; they are known by the run.  Titles, the  *)
(* lookup of the bot and the logger are left out.                          *)
(***************************************************************************)
EXTENDS FiniteSets, Loaders

CONSTANTS Documents,  \* ids of rows, each used once
          Blank,      \* the documents whose text is white space
          Slots,      \* concurrency of EmbedProcessor
          MaxStalls,  \* BullMQ's maxStalledCount
          None

Statuses == {"pending", "embedded", "failed"}
Stages == {"start", "embed", "delete", "insert", "update", "announce", "failing"}

\* A job, and the run in a slot: its job, its number, its stage, the status that it
\* found and the one it sets, the chunks that its transaction found, and whether no
\* other run of the document was in a slot with it.
Jobs == [doc : Documents, state : {"waiting", "active", "done"}, stalls : 0 .. MaxStalls, run : Nat]
Tasks == [job : Nat, id : Nat, stage : Stages, from : Statuses, to : {"embedded", "failed"},
          seen : SUBSET Nat, alone : BOOLEAN]

ASSUME LibraryAssumption ==
    Blank \subseteq Documents /\ MaxStalls \in Nat /\ None \notin Statuses \cup Tasks

\* Bounds: what users may upload and from what, and how often they and fate may
\* disturb it.
Asks == [uploads : SUBSET Documents, sources : SUBSET Sources,
         reembeds : Nat, deletes : Nat, stalls : Nat]

VARIABLES
    status,  \* the status of a document's row, or None without a row
    chunks,  \* the runs whose chunks a document has
    adds,    \* requests that wrote the row and have not added the job yet
    jobs,    \* the jobs in the order in which they were added
    slot,    \* what each slot is doing
    runs,    \* how many runs there were
    asks,    \* what may still be asked for
    \* history
    told,    \* the status last announced
    text,    \* what a document's text was read as, and what its file holds
    astray   \* documents of which runs overlapped or something was lost since
             \* an undisturbed run embedded them

documentVars == <<status, chunks, text>>
queue == <<adds, jobs>>
libraryVars == <<documentVars, queue, slot, runs, asks, told, astray>>

LibraryTypeOK ==
    /\ status \in [Documents -> Statuses \cup {None}]
    /\ chunks \in [Documents -> SUBSET Nat] /\ \A d \in Documents : chunks[d] \subseteq 1 .. runs
    /\ adds \in [Documents -> Nat] /\ runs \in Nat
    /\ jobs \in Seq(Jobs) /\ slot \in [Slots -> Tasks \cup {None}]
    /\ \A j \in DOMAIN jobs : jobs[j].run \in 0 .. runs
    /\ \A s \in Slots : slot[s] # None =>
          /\ slot[s].job \in DOMAIN jobs
          /\ slot[s].id \in 1 .. runs /\ slot[s].seen \subseteq 1 .. runs
    /\ \A s, u \in Slots : slot[s] # None /\ slot[u] # None /\ slot[s].id = slot[u].id => s = u
    /\ told \in [Documents -> {"embedded", "failed", None}]
    /\ astray \subseteq Documents

LibraryInit ==
    /\ status = [d \in Documents |-> None]
    /\ chunks = [d \in Documents |-> {}]
    /\ adds = [d \in Documents |-> 0] /\ jobs = <<>>
    /\ slot = [s \in Slots |-> None] /\ runs = 0
    /\ told = [d \in Documents |-> None]
    /\ text = [d \in Documents |-> None]
    /\ astray = {}

-----------------------------------------------------------------------------
(* Requests                                                                *)

\* create: the row is written, and the job is yet to be added.
Create(d, source) ==
    /\ status' = [status EXCEPT ![d] = "pending"]
    /\ text' = [text EXCEPT ![d] = Reading(source)]
    /\ adds' = [adds EXCEPT ![d] = 1]

\* ingest, ingestFromFile, ingestFromUrl: the text is loaded, and a refusal
\* leaves nothing behind.
Ingest(d, source) ==
    /\ d \in asks.uploads /\ source \in asks.sources
    /\ asks' = [asks EXCEPT !.uploads = @ \ {d}]
    /\ \/ Load(source).ok /\ Create(d, source)
       \/ ~Load(source).ok /\ UNCHANGED <<status, text, adds>>
    /\ UNCHANGED <<chunks, jobs, slot, runs, told, astray>>

\* Deviation: the row is reset and the job forgotten.
ReembedWithoutJob(d) ==
    /\ asks.reembeds > 0 /\ status[d] # None
    /\ asks' = [asks EXCEPT !.reembeds = @ - 1]
    /\ status' = [status EXCEPT ![d] = "pending"]
    /\ UNCHANGED <<chunks, text, queue, slot, runs, told, astray>>

\* reembed: the status is reset, and nobody is told; then a job is added.
Reembed(d) ==
    /\ asks.reembeds > 0 /\ status[d] # None
    /\ asks' = [asks EXCEPT !.reembeds = @ - 1]
    /\ status' = [status EXCEPT ![d] = "pending"]
    /\ adds' = [adds EXCEPT ![d] = @ + 1]
    /\ UNCHANGED <<chunks, text, jobs, slot, runs, told, astray>>

\* delete, whose cascade takes the chunks; the jobs stay.
Delete(d) ==
    /\ asks.deletes > 0 /\ status[d] # None
    /\ asks' = [asks EXCEPT !.deletes = @ - 1]
    /\ status' = [status EXCEPT ![d] = None]
    /\ chunks' = [chunks EXCEPT ![d] = {}]
    /\ UNCHANGED <<text, queue, slot, runs, told, astray>>

\* enqueue, the second half of create and reembed.
Enqueue(d) ==
    /\ adds[d] > 0
    /\ adds' = [adds EXCEPT ![d] = @ - 1]
    /\ jobs' = Append(jobs, [doc |-> d, state |-> "waiting", stalls |-> 0, run |-> 0])
    /\ UNCHANGED <<documentVars, slot, runs, asks, told, astray>>

\* The queue refuses the job or is not reachable: the request fails, its row stays.
EnqueueFails(d) ==
    /\ adds[d] > 0
    /\ adds' = [adds EXCEPT ![d] = @ - 1]
    /\ astray' = astray \cup {d}
    /\ UNCHANGED <<documentVars, jobs, slot, runs, asks, told>>

-----------------------------------------------------------------------------
(* EmbedProcessor.process                                                  *)

Doc(s) == jobs[slot[s].job].doc
Runs(d) == {s \in Slots : slot[s] # None /\ Doc(s) = d}

\* The first job that waits is fetched; one that stalled is ahead of later ones.
Fetch(s) ==
    /\ slot[s] = None
    /\ \E j \in DOMAIN jobs :
          /\ jobs[j].state = "waiting"
          /\ \A i \in 1 .. j - 1 : jobs[i].state # "waiting"
          /\ runs' = runs + 1
          /\ jobs' = [jobs EXCEPT ![j].state = "active", ![j].run = runs + 1]
          /\ slot' = [r \in Slots |->
                IF r = s
                THEN [job |-> j, id |-> runs + 1, stage |-> "start", from |-> "pending",
                      to |-> "failed", seen |-> {}, alone |-> Runs(jobs[j].doc) = {}]
                ELSE IF r \in Runs(jobs[j].doc) THEN [slot[r] EXCEPT !.alone = FALSE]
                ELSE slot[r]]
          /\ astray' = IF Runs(jobs[j].doc) = {} THEN astray ELSE astray \cup {jobs[j].doc}
    /\ UNCHANGED <<documentVars, adds, asks, told>>

\* The run in slot s is over; the queue ignores what it says of a job that was
\* given to another run.
Ends(s) ==
    /\ slot' = [slot EXCEPT ![s] = None]
    /\ LET j == slot[s].job IN
       jobs' = IF jobs[j].run = slot[s].id THEN [jobs EXCEPT ![j].state = "done"] ELSE jobs

GoesOn(s, record) == slot' = [slot EXCEPT ![s] = record] /\ UNCHANGED jobs
At(s, stage) == slot[s] # None /\ slot[s].stage = stage

\* findById, whose status is the "from" of the event.
FindDocument(s) ==
    /\ At(s, "start")
    /\ \/ /\ status[Doc(s)] = None
          /\ Ends(s)
       \/ /\ status[Doc(s)] # None
          /\ GoesOn(s, [slot[s] EXCEPT !.stage = "embed", !.from = status[Doc(s)]])
    /\ UNCHANGED <<documentVars, adds, runs, asks, told, astray>>

\* findById is rejected, outside of the try block: the job fails for good, the row
\* stays as it is and nobody is told.
FindRejected(s) ==
    /\ At(s, "start")
    /\ Ends(s)
    /\ astray' = astray \cup {Doc(s)}
    /\ UNCHANGED <<documentVars, adds, runs, asks, told>>

\* ChunkerService.chunk: a text without chunks is blank.
HasChunks(d) == d \notin Blank

\* chunk and embedBatch; a blank text asks nobody.
Embed(s) ==
    /\ At(s, "embed")
    /\ GoesOn(s, [slot[s] EXCEPT !.stage = "delete"])
    /\ UNCHANGED <<documentVars, adds, runs, asks, told, astray>>

\* Deviation: the chunks are deleted outside of a transaction.
DeleteChunksAtOnce(s) ==
    /\ At(s, "delete")
    /\ GoesOn(s, [slot[s] EXCEPT !.stage = IF HasChunks(Doc(s)) THEN "insert" ELSE "update",
                                 !.to = IF HasChunks(Doc(s)) THEN @ ELSE "embedded"])
    /\ chunks' = [chunks EXCEPT ![Doc(s)] = {}]
    /\ UNCHANGED <<status, text, adds, runs, asks, told, astray>>

\* The first statement of the transaction finds the chunks committed so far.  A
\* blank text needs no transaction.
DeleteChunks(s) ==
    /\ At(s, "delete")
    /\ \/ /\ HasChunks(Doc(s))
          /\ GoesOn(s, [slot[s] EXCEPT !.stage = "insert", !.seen = chunks[Doc(s)]])
          /\ UNCHANGED chunks
       \/ /\ ~HasChunks(Doc(s))
          /\ GoesOn(s, [slot[s] EXCEPT !.stage = "update", !.to = "embedded"])
          /\ chunks' = [chunks EXCEPT ![Doc(s)] = {}]
    /\ UNCHANGED <<status, text, adds, runs, asks, told, astray>>

\* The second statement and the commit.  Without the document's row the foreign
\* key refuses the chunks.
InsertChunks(s) ==
    /\ At(s, "insert")
    /\ \/ /\ status[Doc(s)] # None
          /\ chunks' = [chunks EXCEPT ![Doc(s)] = (@ \ slot[s].seen) \cup {slot[s].id}]
          /\ GoesOn(s, [slot[s] EXCEPT !.stage = "update", !.to = "embedded"])
       \/ /\ status[Doc(s)] = None
          /\ GoesOn(s, [slot[s] EXCEPT !.stage = "failing", !.to = "failed"])
          /\ UNCHANGED chunks
    /\ UNCHANGED <<status, text, adds, runs, asks, told, astray>>

\* Deviation: nothing is caught, and the status left as it was.
ThrowsUncaught(s) ==
    /\ slot[s] # None /\ slot[s].stage \in {"embed", "delete", "insert", "update"}
    /\ slot[s].stage = "embed" => HasChunks(Doc(s))
    /\ Ends(s)
    /\ UNCHANGED <<documentVars, adds, runs, asks, told, astray>>

\* The embedding, a statement of replaceChunks or the update of the status is
\* rejected.
Throws(s) ==
    /\ slot[s] # None /\ slot[s].stage \in {"embed", "delete", "insert", "update"}
    /\ slot[s].stage = "embed" => HasChunks(Doc(s))
    /\ GoesOn(s, [slot[s] EXCEPT !.stage = "failing", !.to = "failed"])
    /\ UNCHANGED <<documentVars, adds, runs, asks, told, astray>>

\* update(status), in the try block and in the catch block.
SetStatus(s) ==
    /\ slot[s] # None /\ slot[s].stage \in {"update", "failing"}
    /\ status[Doc(s)] # None
    /\ status' = [status EXCEPT ![Doc(s)] = slot[s].to]
    /\ GoesOn(s, [slot[s] EXCEPT !.stage = "announce"])
    /\ UNCHANGED <<chunks, text, adds, runs, asks, told, astray>>

\* The row is gone: the update throws, the one in the catch block ends the run.
RowGone(s) ==
    /\ slot[s] # None /\ slot[s].stage \in {"update", "failing"}
    /\ status[Doc(s)] = None
    /\ IF At(s, "update")
       THEN GoesOn(s, [slot[s] EXCEPT !.stage = "failing", !.to = "failed"])
       ELSE Ends(s)
    /\ UNCHANGED <<documentVars, adds, runs, asks, told, astray>>

\* The update in the catch block is rejected as well.
FailureLost(s) ==
    /\ At(s, "failing") /\ status[Doc(s)] # None
    /\ Ends(s)
    /\ astray' = astray \cup {Doc(s)}
    /\ UNCHANGED <<documentVars, adds, runs, asks, told>>

\* The event, and the end of the job: without attempts a failure is final.
Announce(s) ==
    /\ At(s, "announce")
    /\ Ends(s)
    /\ told' = [told EXCEPT ![Doc(s)] = slot[s].to]
    /\ astray' = IF slot[s].alone /\ slot[s].to = "embedded" /\ status[Doc(s)] = "embedded"
                 THEN astray \ {Doc(s)} ELSE astray
    /\ UNCHANGED <<documentVars, adds, runs, asks>>

-----------------------------------------------------------------------------
(* The queue and the process                                               *)

\* BullMQ's stall check takes back an active job whose lock lapsed, because its
\* run vanished or the event loop was blocked.  Stalled too often it is given up,
\* and process is not told.
Stall(j) ==
    /\ jobs[j].state = "active"
    /\ LET alive == \E s \in Slots : slot[s] # None /\ slot[s].id = jobs[j].run IN
       /\ alive => asks.stalls > 0
       /\ asks' = IF alive THEN [asks EXCEPT !.stalls = @ - 1] ELSE asks
    /\ \/ /\ jobs[j].stalls < MaxStalls
          /\ jobs' = [jobs EXCEPT ![j].state = "waiting", ![j].stalls = @ + 1, ![j].run = 0]
          /\ UNCHANGED astray
       \/ /\ jobs[j].stalls = MaxStalls
          /\ jobs' = [jobs EXCEPT ![j].state = "done", ![j].run = 0]
          /\ astray' = astray \cup {jobs[j].doc}
    /\ UNCHANGED <<documentVars, adds, slot, runs, told>>

\* The process is killed and started again: runs and requests vanish.
LibraryRestart ==
    /\ slot' = [s \in Slots |-> None]
    /\ adds' = [d \in Documents |-> 0]
    /\ astray' = astray \cup {d \in Documents : adds[d] > 0}
    /\ UNCHANGED <<documentVars, jobs, runs, asks, told>>

Run(s) ==
    \/ Fetch(s) \/ FindDocument(s) \/ FindRejected(s) \/ Embed(s) \/ DeleteChunks(s)
    \/ InsertChunks(s) \/ Throws(s) \/ SetStatus(s) \/ RowGone(s) \/ FailureLost(s) \/ Announce(s)

Request ==
    \E d \in Documents :
        \/ \E source \in asks.sources : Ingest(d, source)
        \/ Reembed(d) \/ Delete(d)

Progress ==
    \/ \E d \in Documents : Enqueue(d) \/ EnqueueFails(d)
    \/ \E s \in Slots : Run(s)
    \/ \E j \in DOMAIN jobs : Stall(j)

LibraryNext == Request \/ Progress

LibrarySpec ==
    LibraryInit /\ asks \in Asks /\ [][LibraryNext \/ LibraryRestart]_libraryVars

\* Requests that began are carried on, slots work, and BullMQ's stall check runs;
\* every await ends, for its client has a time limit.
LibraryFairness ==
    /\ \A d \in Documents : WF_libraryVars(Enqueue(d) \/ EnqueueFails(d))
    /\ \A s \in Slots : WF_libraryVars(Run(s))
    /\ WF_libraryVars(\E j \in DOMAIN jobs : Stall(j))

-----------------------------------------------------------------------------
(* Properties                                                              *)

\* RetrievalService.search over all bots: chunks are found whatever the status.
Found == {d \in Documents : status[d] # None /\ chunks[d] # {}}

\* A document that is said to be embedded is found by the retrieval, though runs
\* replace its chunks, overlap, stall and fail while it is.
EmbeddedIsFound ==
    \A d \in Documents : status[d] = "embedded" => d \in Found \cup Blank

Quiet(d) ==
    /\ adds[d] = 0 /\ Runs(d) = {}
    /\ \A j \in DOMAIN jobs : jobs[j].doc = d => jobs[j].state = "done"

\* When nothing is under way the row of a document says embedded or failed, the
\* last event said the same, and an embedded one has its chunks once: unless runs
\* overlapped, or a job, its lookup of the row or the update of a failure was lost.
QuietIsSettled ==
    \A d \in Documents : status[d] # None /\ Quiet(d) =>
        \/ /\ status[d] = told[d]
           /\ d \notin Blank /\ status[d] = "embedded" => Cardinality(chunks[d]) = 1
        \/ d \in astray

\* A text was read as what its file holds, if that is what the file's name and
\* content type say; a content type with parameters needs the name's help.
TextReadable ==
    \A d \in Documents : text[d] # None /\ text[d].known =>
        Readable(text[d].kind, text[d].holds)

\* A pending document does not stay pending, but for a job, a lookup of the row or a
\* failure that was lost, or runs that overlapped.
Settles ==
    \A d \in Documents : status[d] = "pending" ~> status[d] # "pending" \/ d \in astray

=============================================================================
