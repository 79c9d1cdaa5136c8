----------------------------- MODULE PartsProofs -----------------------------
(***************************************************************************)
(* Proofs about parts of the console.                                      *)
(*                                                                         *)
(* Library, for any documents, slots and stalls: what is said to be         *)
(* embedded is found, a document is settled when nothing is under way, but  *)
(* for the named cases, and a text was read as what its file holds.        *)
(*                                                                         *)
(* SignIn, for any number of requests under way: a device keeps its session *)
(* and an old token does not outlive it.                                   *)
(*                                                                         *)
(* Presence, for any number of sockets and questions: the map of promises   *)
(* holds calls that are under way, but for the named case.                 *)
(*                                                                         *)
(* Names, for any names and number of errands: an alias is kept, and the    *)
(* title of a chat agrees with it, but for what is named.                  *)
(***************************************************************************)
EXTENDS Library, SignIn, Presence, Names, FiniteSetTheorems, TLAPS

-----------------------------------------------------------------------------
(* Library                                                                 *)

TypeInv == LibraryTypeOK /\ asks \in Asks

Working == {s \in Slots : slot[s] # None}

\* Of a document that was not uploaded yet there is nothing.
UploadInv ==
    \A d \in asks.uploads \cap Documents :
        /\ status[d] = None /\ chunks[d] = {} /\ adds[d] = 0
        /\ \A j \in DOMAIN jobs : jobs[j].doc # d

\* The status that a run is to set is known from its stage.
StageInv ==
    \A s \in Working :
        /\ slot[s].stage = "update" => slot[s].to = "embedded"
        /\ slot[s].stage \notin {"update", "announce"} => slot[s].to = "failed"

\* A run that is about to say "embedded" has put chunks in place.
PlacedInv ==
    \A s \in Working :
        slot[s].stage = "update" /\ status[Doc(s)] # None => Doc(s) \in Blank \/ chunks[Doc(s)] # {}

\* A run that is alone is the only one of its document, and one that is not has led
\* the document astray.
AloneInv ==
    \A s \in Working :
        /\ slot[s].alone => Runs(Doc(s)) = {s}
        /\ Doc(s) \notin astray => slot[s].alone

Single(S) == \E x : S = {x}

\* The chunks of an undisturbed document: nobody adds to those that a lone run has
\* found, and what it has put in place is all there is.
ChunkInv ==
    /\ \A s \in Working : slot[s].alone =>
          /\ slot[s].stage = "insert" => chunks[Doc(s)] \subseteq slot[s].seen
          /\ slot[s].stage \in {"update", "announce"} /\ slot[s].to = "embedded" =>
                status[Doc(s)] = None \/ Doc(s) \in Blank \/ Single(chunks[Doc(s)])
    /\ \A d \in Documents \ astray :
          status[d] = "embedded" => d \in Blank \/ Single(chunks[d])

\* Something is to come for document d, apart from job i.
Coming(d, i) ==
    adds[d] > 0 \/ \E j \in DOMAIN jobs : j # i /\ jobs[j].doc = d /\ jobs[j].state # "done"

\* The status of an undisturbed document was announced, or something is to come that
\* will announce one, and does not announce what is no longer so.  Its run has a job
\* that is not done.
ComingInv ==
    /\ \A d \in Documents \ astray : status[d] \in {None, told[d]} \/ Coming(d, 0)
    /\ \A s \in Working : slot[s].stage = "announce" /\ Doc(s) \notin astray =>
          status[Doc(s)] \in {None, slot[s].to} \/ Coming(Doc(s), slot[s].job)
    /\ \A s \in Working : Doc(s) \notin astray => jobs[slot[s].job].state # "done"

LibraryInv ==
    /\ TypeInv /\ UploadInv /\ StageInv /\ EmbeddedIsFound /\ PlacedInv
    /\ AloneInv /\ ChunkInv /\ ComingInv

-----------------------------------------------------------------------------
(* What steps have in common                                               *)

\* A slot at work has a task with a job of a document.
LEMMA AtWork ==
  ASSUME TypeInv, NEW s \in Working
  PROVE  /\ s \in Slots /\ slot[s] # None /\ slot[s] \in Tasks
         /\ slot[s].job \in DOMAIN jobs /\ slot[s].job \in Nat \ {0} /\ Doc(s) \in Documents
<1>1. s \in Slots /\ slot[s] # None /\ slot[s] \in Tasks /\ slot[s].job \in DOMAIN jobs
  BY DEF TypeInv, LibraryTypeOK, Working
<1>2. jobs \in Seq(Jobs)
  BY DEF TypeInv, LibraryTypeOK
<1>3. jobs[slot[s].job] \in Jobs /\ slot[s].job \in Nat \ {0}
  BY <1>1, <1>2
<1> QED
  BY <1>1, <1>3 DEF Doc, Jobs

\* Stages, statuses and flags of a task.
LEMMA TaskType ==
  ASSUME TypeInv, NEW s \in Working
  PROVE  /\ slot[s].stage \in Stages /\ slot[s].to \in {"embedded", "failed"}
         /\ slot[s].from \in Statuses /\ slot[s].alone \in BOOLEAN
         /\ slot[s].seen \subseteq 1 .. runs /\ slot[s].id \in 1 .. runs
  BY DEF TypeInv, LibraryTypeOK, Working, Tasks

\* A document in the hands of a run was uploaded.
LEMMA NotToUpload ==
  ASSUME TypeInv, UploadInv, NEW s \in Working
  PROVE  Doc(s) \notin asks.uploads
  BY AtWork DEF UploadInv, Doc

\* A job changes and stays a job of its document; the others are as they were.
LEMMA JobChanges ==
  ASSUME jobs \in Seq(Jobs), NEW j \in DOMAIN jobs, NEW job \in Jobs,
         jobs' = [jobs EXCEPT ![j] = job]
  PROVE  /\ jobs' \in Seq(Jobs) /\ DOMAIN jobs' = DOMAIN jobs /\ jobs'[j] = job
         /\ \A i \in DOMAIN jobs \ {j} : jobs'[i] = jobs[i]
  OBVIOUS

\* A run that goes on: the slots at work and their documents stay.
LEMMA GoesOnFrame ==
  ASSUME TypeInv, NEW s \in Working, NEW task \in Tasks, GoesOn(s, task), task.job = slot[s].job
  PROVE  /\ Working' = Working /\ slot'[s] = task /\ jobs' = jobs
         /\ \A u \in Working \ {s} : slot'[u] = slot[u]
         /\ slot' \in [Slots -> Tasks \cup {None}]
         /\ \A u \in Working : Doc(u)' = Doc(u)
         /\ \A d : Runs(d)' = Runs(d)
<1>1. /\ s \in Slots /\ task # None /\ slot' = [slot EXCEPT ![s] = task]
      /\ slot \in [Slots -> Tasks \cup {None}] /\ jobs' = jobs
  BY LibraryAssumption DEF TypeInv, LibraryTypeOK, Working, GoesOn
<1>2. /\ Working' = Working /\ slot'[s] = task /\ \A u \in Working \ {s} : slot'[u] = slot[u]
      /\ slot' \in [Slots -> Tasks \cup {None}]
  BY <1>1 DEF Working
<1>3. \A u \in Working : Doc(u)' = Doc(u)
  BY <1>1, <1>2 DEF Doc
<1>4. \A d : Runs(d)' = Runs(d)
  BY <1>2, <1>3 DEF Runs, Working
<1> QED
  BY <1>1, <1>2, <1>3, <1>4

\* A run that ends: its slot is free, and its job is done unless it was given away.
LEMMA EndsFrame ==
  ASSUME TypeInv, NEW s \in Working, Ends(s)
  PROVE  /\ Working' = Working \ {s} /\ \A u \in Working' : slot'[u] = slot[u]
         /\ slot' \in [Slots -> Tasks \cup {None}]
         /\ jobs' \in Seq(Jobs) /\ DOMAIN jobs' = DOMAIN jobs
         /\ \A j \in DOMAIN jobs : jobs'[j].doc = jobs[j].doc /\ jobs'[j].run = jobs[j].run
         /\ \A j \in DOMAIN jobs \ {slot[s].job} : jobs'[j] = jobs[j]
         /\ \A u \in Working' : Doc(u)' = Doc(u)
         /\ \A d : Runs(d)' = Runs(d) \ {s}
<1>1. /\ s \in Slots /\ slot[s].job \in DOMAIN jobs /\ slot \in [Slots -> Tasks \cup {None}]
      /\ slot' = [slot EXCEPT ![s] = None] /\ jobs \in Seq(Jobs)
      /\ jobs' = jobs \/ jobs' = [jobs EXCEPT ![slot[s].job].state = "done"]
  BY DEF TypeInv, LibraryTypeOK, Working, Ends
<1>2. /\ Working' = Working \ {s} /\ \A u \in Working' : slot'[u] = slot[u]
      /\ slot' \in [Slots -> Tasks \cup {None}]
  BY <1>1 DEF Working
<1>3. /\ jobs' \in Seq(Jobs) /\ DOMAIN jobs' = DOMAIN jobs
      /\ \A j \in DOMAIN jobs : jobs'[j].doc = jobs[j].doc /\ jobs'[j].run = jobs[j].run
      /\ \A j \in DOMAIN jobs \ {slot[s].job} : jobs'[j] = jobs[j]
  <2> DEFINE job == [jobs[slot[s].job] EXCEPT !.state = "done"]
  <2>1. job \in Jobs /\ job.doc = jobs[slot[s].job].doc /\ job.run = jobs[slot[s].job].run
    <3>1. jobs[slot[s].job] \in Jobs
      BY <1>1
    <3> QED
      BY <3>1 DEF Jobs
  <2>2. jobs' = jobs \/ jobs' = [jobs EXCEPT ![slot[s].job] = job]
    BY <1>1
  <2> HIDE DEF job
  <2> QED
    BY <1>1, <2>1, <2>2, JobChanges
<1>4. \A u \in Working' : Doc(u)' = Doc(u) /\ u \in Slots /\ slot[u].job \in DOMAIN jobs
  BY <1>2, <1>3 DEF Doc, TypeInv, LibraryTypeOK, Working
<1>5. \A d : Runs(d)' = Runs(d) \ {s}
  BY <1>2, <1>4 DEF Runs, Working
<1> QED
  BY <1>2, <1>3, <1>4, <1>5

-----------------------------------------------------------------------------
(* The steps of a run                                                      *)

\* Types are kept by a run that goes on.
LEMMA GoesOnType ==
  ASSUME TypeInv, NEW s \in Working, NEW task \in Tasks, GoesOn(s, task),
         task.job = slot[s].job, task.id = slot[s].id, task.seen \subseteq 1 .. runs,
         status' \in [Documents -> Statuses \cup {None}],
         chunks' \in [Documents -> SUBSET Nat], \A d \in Documents : chunks'[d] \subseteq 1 .. runs,
         UNCHANGED <<adds, runs, asks, told, astray>>
  PROVE  TypeInv'
<1>1. /\ Working' = Working /\ slot'[s] = task /\ jobs' = jobs
      /\ \A u \in Working \ {s} : slot'[u] = slot[u]
      /\ slot' \in [Slots -> Tasks \cup {None}]
  BY GoesOnFrame
<1>2. \A u \in Working : slot'[u].job = slot[u].job /\ slot'[u].id = slot[u].id
  BY <1>1
<1>3. \A u \in Working : slot'[u].seen \subseteq 1 .. runs
  BY <1>1, TaskType
<1>4. \A u \in Slots : slot'[u] # None => u \in Working
  BY <1>1 DEF Working
<1>5. \A u \in Slots : slot'[u] # None =>
          slot'[u].job \in DOMAIN jobs /\ slot'[u].id \in 1 .. runs /\ slot'[u].seen \subseteq 1 .. runs
  BY <1>2, <1>3, <1>4, AtWork, TaskType
<1>6. \A u, v \in Slots : slot'[u] # None /\ slot'[v] # None /\ slot'[u].id = slot'[v].id => u = v
  BY <1>2, <1>4 DEF TypeInv, LibraryTypeOK, Working
<1> QED
  BY <1>1, <1>5, <1>6 DEF TypeInv, LibraryTypeOK

\* A run goes on and has written nothing.
LEMMA RunMoves ==
  ASSUME LibraryInv, NEW s \in Working, NEW task \in Tasks, GoesOn(s, task),
         task.job = slot[s].job, task.id = slot[s].id, task.alone = slot[s].alone,
         task.seen \subseteq 1 .. runs,
         task.stage \notin {"update", "announce"}, task.to = "failed",
         task.stage = "insert" => chunks[Doc(s)] \subseteq task.seen,
         UNCHANGED <<documentVars, adds, runs, asks, told, astray>>
  PROVE  LibraryInv'
<1> USE DEF LibraryInv, documentVars
<1>1. /\ Working' = Working /\ slot'[s] = task /\ jobs' = jobs
      /\ \A u \in Working \ {s} : slot'[u] = slot[u]
      /\ \A u \in Working : Doc(u)' = Doc(u)
      /\ \A d : Runs(d)' = Runs(d)
  BY GoesOnFrame
<1>2. TypeInv'
  BY GoesOnType DEF TypeInv, LibraryTypeOK
<1>3. UploadInv'
  BY <1>1 DEF UploadInv
<1>4. StageInv'
  BY <1>1 DEF StageInv
<1>5. EmbeddedIsFound' /\ PlacedInv'
  BY <1>1 DEF EmbeddedIsFound, Found, PlacedInv
<1>6. AloneInv'
  BY <1>1 DEF AloneInv
<1>7. ChunkInv'
  BY <1>1 DEF ChunkInv
<1>8. ComingInv'
  BY <1>1 DEF ComingInv, Coming
<1> QED
  BY <1>2, <1>3, <1>4, <1>5, <1>6, <1>7, <1>8

\* Types are kept by a run that ends.
LEMMA EndsType ==
  ASSUME TypeInv, NEW s \in Working, Ends(s),
         told' \in [Documents -> {"embedded", "failed", None}], astray' \subseteq Documents,
         UNCHANGED <<documentVars, adds, runs, asks>>
  PROVE  TypeInv'
<1>1. /\ Working' = Working \ {s} /\ \A u \in Working' : slot'[u] = slot[u]
      /\ slot' \in [Slots -> Tasks \cup {None}]
      /\ jobs' \in Seq(Jobs) /\ DOMAIN jobs' = DOMAIN jobs
      /\ \A j \in DOMAIN jobs : jobs'[j].run = jobs[j].run
  BY EndsFrame
<1>2. \A u \in Slots : slot'[u] # None => u \in Working /\ slot'[u] = slot[u]
  BY <1>1 DEF Working
<1> QED
  BY <1>1, <1>2 DEF TypeInv, LibraryTypeOK, documentVars, Working

\* A run ends and leaves its document astray, deleted, or settled.
LEMMA RunEnds ==
  ASSUME LibraryInv, NEW s \in Working, Ends(s),
         told' \in [Documents -> {"embedded", "failed", None}],
         \A d \in Documents \ {Doc(s)} : told'[d] = told[d],
         astray' \in {astray, astray \cup {Doc(s)}, astray \ {Doc(s)}},
         Doc(s) \notin astray' =>
             /\ Runs(Doc(s)) = {s} \/ astray' = astray
             /\ status[Doc(s)] \in {None, told'[Doc(s)]} \/ Coming(Doc(s), slot[s].job)
             /\ status[Doc(s)] = "embedded" => Doc(s) \in Blank \/ Single(chunks[Doc(s)]),
         UNCHANGED <<documentVars, adds, runs, asks>>
  PROVE  LibraryInv'
<1> USE DEF LibraryInv, documentVars
<1>1. /\ Working' = Working \ {s} /\ \A u \in Working' : slot'[u] = slot[u]
      /\ DOMAIN jobs' = DOMAIN jobs
      /\ \A j \in DOMAIN jobs : jobs'[j].doc = jobs[j].doc
      /\ \A j \in DOMAIN jobs \ {slot[s].job} : jobs'[j] = jobs[j]
      /\ \A u \in Working' : Doc(u)' = Doc(u)
      /\ \A d : Runs(d)' = Runs(d) \ {s}
  BY EndsFrame
<1>2. /\ s \in Runs(Doc(s)) /\ slot[s].job \in DOMAIN jobs /\ slot[s].job # 0
      /\ jobs[slot[s].job].doc = Doc(s) /\ Doc(s) \in Documents
  BY AtWork DEF Runs, Working, Doc
<1>3. ASSUME NEW u \in Working', Doc(u) \notin astray' PROVE Doc(u) # Doc(s) /\ Doc(u) \notin astray
  <2>1. u \in Runs(Doc(u)) /\ u # s /\ u \in Working
    BY <1>1 DEF Runs, Working
  <2>2. Doc(u) = Doc(s) => Runs(Doc(s)) = {s}
    BY <1>2, <1>3 DEF AloneInv
  <2> QED
    BY <1>3, <2>1, <2>2
<1>4. TypeInv'
  BY <1>2, EndsType DEF TypeInv, LibraryTypeOK
<1>5. UploadInv'
  BY <1>1 DEF UploadInv
<1>6. StageInv'
  BY <1>1 DEF StageInv
<1>7. EmbeddedIsFound' /\ PlacedInv'
  BY <1>1 DEF EmbeddedIsFound, Found, PlacedInv
<1>8. AloneInv'
  BY <1>1, <1>3 DEF AloneInv
<1>9. ChunkInv'
  BY <1>1 DEF ChunkInv
<1>10. ComingInv'
  <2>1. ASSUME NEW d \in Documents, NEW i, d # Doc(s), Coming(d, i) PROVE Coming(d, i)'
    BY <1>1, <1>2, <2>1 DEF Coming
  <2>2. ASSUME NEW d \in Documents, Coming(d, slot[s].job) PROVE Coming(d, 0)'
    <3>1. ASSUME NEW j \in DOMAIN jobs, j # slot[s].job, jobs[j].doc = d, jobs[j].state # "done"
          PROVE  j # 0 /\ j \in DOMAIN jobs' /\ jobs'[j].doc = d /\ jobs'[j].state # "done"
      BY <1>1, <3>1 DEF TypeInv, LibraryTypeOK
    <3> QED
      BY <2>2, <3>1 DEF Coming
  <2>3. ASSUME NEW d \in Documents \ astray' PROVE status'[d] \in {None, told'[d]} \/ Coming(d, 0)'
    <3>1. CASE d = Doc(s)
      BY <2>2, <2>3, <3>1
    <3>2. CASE d # Doc(s)
      BY <2>1, <2>3, <3>2 DEF ComingInv
    <3> QED
      BY <3>1, <3>2
  <2>4. ASSUME NEW u \in Working', slot'[u].stage = "announce", Doc(u)' \notin astray'
        PROVE  (status[Doc(u)] \in {None, slot[u].to} \/ Coming(Doc(u), slot[u].job))'
    <3>1. Doc(u)' = Doc(u) /\ slot'[u] = slot[u] /\ u \in Working /\ Doc(u) \in Documents
      BY <1>1, AtWork
    <3>2. Doc(u) # Doc(s) /\ Doc(u) \notin astray
      BY <1>3, <2>4, <3>1
    <3>3. status[Doc(u)] \in {None, slot[u].to} \/ Coming(Doc(u), slot[u].job)
      BY <2>4, <3>1, <3>2 DEF ComingInv
    <3>4. Coming(Doc(u), slot[u].job) => Coming(Doc(u), slot[u].job)'
      BY <1>1, <1>2, <3>1, <3>2 DEF Coming
    <3> QED
      BY <3>1, <3>3, <3>4
  <2>5. ASSUME NEW u \in Working', Doc(u)' \notin astray' PROVE (jobs[slot[u].job].state # "done")'
    <3>1. Doc(u)' = Doc(u) /\ slot'[u] = slot[u] /\ u \in Working /\ slot[u].job \in DOMAIN jobs
      BY <1>1, AtWork
    <3>2. Doc(u) # Doc(s) /\ Doc(u) \notin astray
      BY <1>3, <2>5, <3>1
    <3>3. slot[u].job # slot[s].job
      BY <3>2 DEF Doc
    <3> QED
      BY <1>1, <3>1, <3>2, <3>3 DEF ComingInv
  <2> QED
    BY <2>3, <2>4, <2>5 DEF ComingInv
<1> QED
  BY <1>4, <1>5, <1>6, <1>7, <1>8, <1>9, <1>10

\* The fields of a task that an action changes.
LEMMA NextStage ==
  ASSUME NEW task \in Tasks, NEW stage \in Stages
  PROVE  /\ [task EXCEPT !.stage = stage] \in Tasks
         /\ \A from \in Statuses : [task EXCEPT !.stage = stage, !.from = from] \in Tasks
         /\ \A to \in {"embedded", "failed"} : [task EXCEPT !.stage = stage, !.to = to] \in Tasks
         /\ \A seen \in SUBSET Nat : [task EXCEPT !.stage = stage, !.seen = seen] \in Tasks
  BY DEF Tasks

\* The document is found, or the run ends.
LEMMA FindDocumentStep ==
  ASSUME LibraryInv, NEW s \in Slots, FindDocument(s) PROVE LibraryInv'
<1> USE DEF LibraryInv
<1>1. s \in Working /\ slot[s] \in Tasks /\ Doc(s) \in Documents /\ slot[s].stage = "start"
  BY AtWork DEF FindDocument, At, Working
<1>2. CASE status[Doc(s)] = None /\ Ends(s)
  <2>1. status[Doc(s)] # "embedded"
    BY <1>2, LibraryAssumption DEF Statuses
  <2> QED
    BY <1>1, <1>2, <2>1, RunEnds DEF FindDocument, TypeInv, LibraryTypeOK
<1>3. CASE status[Doc(s)] # None
           /\ GoesOn(s, [slot[s] EXCEPT !.stage = "embed", !.from = status[Doc(s)]])
  <2> DEFINE task == [slot[s] EXCEPT !.stage = "embed", !.from = status[Doc(s)]]
  <2>1. task \in Tasks
    BY <1>1, <1>3, NextStage DEF TypeInv, LibraryTypeOK, Stages
  <2>2. task.job = slot[s].job /\ task.id = slot[s].id /\ task.alone = slot[s].alone
        /\ task.seen = slot[s].seen /\ task.stage = "embed" /\ task.to = slot[s].to
    BY <1>1 DEF Tasks
  <2>3. slot[s].to = "failed" /\ slot[s].seen \subseteq 1 .. runs
    BY <1>1, TaskType DEF StageInv
  <2> QED
    BY <1>1, <1>3, <2>1, <2>2, <2>3, RunMoves DEF FindDocument
<1> QED
  BY <1>2, <1>3 DEF FindDocument

\* The text is cut and embedded.
LEMMA EmbedStep == ASSUME LibraryInv, NEW s \in Slots, Embed(s) PROVE LibraryInv'
<1> USE DEF LibraryInv
<1> DEFINE task == [slot[s] EXCEPT !.stage = "delete"]
<1>1. s \in Working /\ slot[s] \in Tasks /\ slot[s].stage = "embed"
  BY AtWork DEF Embed, At, Working
<1>2. task \in Tasks
  BY <1>1, NextStage DEF Stages
<1>3. task.job = slot[s].job /\ task.id = slot[s].id /\ task.alone = slot[s].alone
      /\ task.seen = slot[s].seen /\ task.stage = "delete" /\ task.to = slot[s].to
  BY <1>1 DEF Tasks
<1>4. slot[s].to = "failed" /\ slot[s].seen \subseteq 1 .. runs
  BY <1>1, TaskType DEF StageInv
<1> QED
  BY <1>1, <1>2, <1>3, <1>4, RunMoves DEF Embed

\* Something is rejected, and the run goes to its catch block.
LEMMA ThrowsStep == ASSUME LibraryInv, NEW s \in Slots, Throws(s) PROVE LibraryInv'
<1> USE DEF LibraryInv
<1> DEFINE task == [slot[s] EXCEPT !.stage = "failing", !.to = "failed"]
<1>1. s \in Working /\ slot[s] \in Tasks
  BY AtWork DEF Throws, Working
<1>2. task \in Tasks
  BY <1>1, NextStage DEF Stages
<1>3. task.job = slot[s].job /\ task.id = slot[s].id /\ task.alone = slot[s].alone
      /\ task.seen = slot[s].seen /\ task.stage = "failing" /\ task.to = "failed"
  BY <1>1 DEF Tasks
<1>4. slot[s].seen \subseteq 1 .. runs
  BY <1>1, TaskType
<1> QED
  BY <1>1, <1>2, <1>3, <1>4, RunMoves DEF Throws

\* The row of the document is gone.
LEMMA RowGoneStep == ASSUME LibraryInv, NEW s \in Slots, RowGone(s) PROVE LibraryInv'
<1> USE DEF LibraryInv
<1> DEFINE task == [slot[s] EXCEPT !.stage = "failing", !.to = "failed"]
<1>1. s \in Working /\ slot[s] \in Tasks /\ Doc(s) \in Documents /\ status[Doc(s)] = None
  BY AtWork DEF RowGone, Working
<1>2. CASE GoesOn(s, task)
  <2>1. task \in Tasks
    BY <1>1, NextStage DEF Stages
  <2>2. task.job = slot[s].job /\ task.id = slot[s].id /\ task.alone = slot[s].alone
        /\ task.seen = slot[s].seen /\ task.stage = "failing" /\ task.to = "failed"
    BY <1>1 DEF Tasks
  <2>3. slot[s].seen \subseteq 1 .. runs
    BY <1>1, TaskType
  <2> QED
    BY <1>1, <1>2, <2>1, <2>2, <2>3, RunMoves DEF RowGone
<1>3. CASE Ends(s)
  <2>1. status[Doc(s)] # "embedded"
    BY <1>1, LibraryAssumption DEF Statuses
  <2> QED
    BY <1>1, <1>3, <2>1, RunEnds DEF RowGone, TypeInv, LibraryTypeOK
<1> QED
  BY <1>2, <1>3 DEF RowGone

\* The row cannot be read.
LEMMA FindRejectedStep == ASSUME LibraryInv, NEW s \in Slots, FindRejected(s) PROVE LibraryInv'
<1> USE DEF LibraryInv
<1>1. s \in Working
  BY DEF FindRejected, At, Working
<1> QED
  BY <1>1, RunEnds DEF FindRejected, TypeInv, LibraryTypeOK

\* The failure is not written.
LEMMA FailureLostStep == ASSUME LibraryInv, NEW s \in Slots, FailureLost(s) PROVE LibraryInv'
<1> USE DEF LibraryInv
<1>1. s \in Working
  BY DEF FailureLost, At, Working
<1> QED
  BY <1>1, RunEnds DEF FailureLost, TypeInv, LibraryTypeOK

\* The event: an undisturbed document has the status that is announced, or will have
\* another one.
LEMMA AnnounceStep == ASSUME LibraryInv, NEW s \in Slots, Announce(s) PROVE LibraryInv'
<1> USE DEF LibraryInv
<1>1. /\ s \in Working /\ Doc(s) \in Documents /\ slot[s].stage = "announce"
      /\ slot[s].to \in {"embedded", "failed"}
  BY AtWork, TaskType DEF Announce, At, Working
<1>2. /\ told' = [told EXCEPT ![Doc(s)] = slot[s].to]
      /\ told' \in [Documents -> {"embedded", "failed", None}] /\ told'[Doc(s)] = slot[s].to
      /\ \A d \in Documents \ {Doc(s)} : told'[d] = told[d]
  BY <1>1 DEF Announce, TypeInv, LibraryTypeOK
<1>3. CASE /\ slot[s].alone /\ slot[s].to = "embedded" /\ status[Doc(s)] = "embedded"
           /\ astray' = astray \ {Doc(s)}
  <2>1. Runs(Doc(s)) = {s}
    BY <1>1, <1>3 DEF AloneInv
  <2>2. Doc(s) \in Blank \/ Single(chunks[Doc(s)])
    BY <1>1, <1>3, LibraryAssumption DEF ChunkInv, Statuses
  <2> QED
    BY <1>1, <1>2, <1>3, <2>1, <2>2, RunEnds DEF Announce
<1>4. CASE astray' = astray
  <2>1. Doc(s) \notin astray =>
            /\ status[Doc(s)] \in {None, slot[s].to} \/ Coming(Doc(s), slot[s].job)
            /\ status[Doc(s)] = "embedded" => Doc(s) \in Blank \/ Single(chunks[Doc(s)])
    BY <1>1 DEF ComingInv, ChunkInv
  <2> QED
    BY <1>1, <1>2, <1>4, <2>1, RunEnds DEF Announce
<1> QED
  BY <1>3, <1>4 DEF Announce

\* Of runs of one document only a lone one matters: a second means neither is.
LEMMA LoneRun ==
  ASSUME LibraryInv, NEW s \in Working, NEW u \in Working, Doc(u) = Doc(s), slot[u].alone
  PROVE  u = s
<1>1. s \in Runs(Doc(u)) /\ Runs(Doc(u)) = {u}
  BY AtWork DEF LibraryInv, AloneInv, Runs
<1> QED
  BY <1>1

\* A run goes on that has put chunks in place, or has found that there are none.
LEMMA ChunksStep ==
  ASSUME LibraryInv, NEW s \in Working, NEW task \in Tasks, GoesOn(s, task),
         task.job = slot[s].job, task.id = slot[s].id, task.alone = slot[s].alone,
         task.seen \subseteq 1 .. runs, task.stage = "update", task.to = "embedded",
         NEW C \in SUBSET (1 .. runs), chunks' = [chunks EXCEPT ![Doc(s)] = C],
         \/ Doc(s) \in Blank /\ C = {}
         \/ C # {} /\ (slot[s].alone => Single(C)),
         UNCHANGED <<status, text, adds, runs, asks, told, astray>>
  PROVE  LibraryInv'
<1> USE DEF LibraryInv
<1>1. /\ Working' = Working /\ slot'[s] = task /\ jobs' = jobs
      /\ \A u \in Working \ {s} : slot'[u] = slot[u]
      /\ \A u \in Working : Doc(u)' = Doc(u)
      /\ \A d : Runs(d)' = Runs(d)
  BY GoesOnFrame
<1>2. /\ Doc(s) \in Documents /\ Doc(s) \notin asks.uploads /\ chunks \in [Documents -> SUBSET Nat]
      /\ runs \in Nat
  BY AtWork, NotToUpload DEF TypeInv, LibraryTypeOK
<1>3. /\ chunks'[Doc(s)] = C /\ \A d \in Documents \ {Doc(s)} : chunks'[d] = chunks[d]
      /\ chunks' \in [Documents -> SUBSET Nat]
  BY <1>2
<1>4. TypeInv'
  <2>1. \A d \in Documents : chunks'[d] \subseteq 1 .. runs
    BY <1>3 DEF TypeInv, LibraryTypeOK
  <2> QED
    BY <1>3, <2>1, GoesOnType DEF TypeInv, LibraryTypeOK
<1>5. UploadInv'
  BY <1>1, <1>2, <1>3 DEF UploadInv
<1>6. StageInv'
  BY <1>1 DEF StageInv
<1>7. EmbeddedIsFound'
  <2>1. ASSUME NEW d \in Documents, status[d] = "embedded" PROVE d \in Blank \/ chunks'[d] # {}
    BY <1>3, <2>1 DEF EmbeddedIsFound, Found
  <2>2. "embedded" # None
    BY LibraryAssumption DEF Statuses
  <2> QED
    BY <2>1, <2>2 DEF EmbeddedIsFound, Found
<1>8. PlacedInv'
  <2>1. ASSUME NEW u \in Working, slot'[u].stage = "update", status[Doc(u)] # None
        PROVE  Doc(u) \in Blank \/ chunks'[Doc(u)] # {}
    BY <1>1, <1>3, <2>1, AtWork DEF PlacedInv
  <2> QED
    BY <1>1, <2>1 DEF PlacedInv
<1>9. AloneInv'
  BY <1>1 DEF AloneInv
<1>10. ChunkInv'
  <2>1. ASSUME NEW u \in Working, u # s, slot[u].alone PROVE chunks'[Doc(u)] = chunks[Doc(u)]
    BY <1>3, <2>1, LoneRun, AtWork
  <2>2. ASSUME NEW u \in Working, slot'[u].alone
        PROVE  /\ slot'[u].stage = "insert" => chunks'[Doc(u)] \subseteq slot'[u].seen
               /\ slot'[u].stage \in {"update", "announce"} /\ slot'[u].to = "embedded" =>
                     status[Doc(u)] = None \/ Doc(u) \in Blank \/ Single(chunks'[Doc(u)])
    BY <1>1, <1>3, <2>1, <2>2 DEF ChunkInv
  <2>3. Doc(s) \notin astray => Doc(s) \in Blank \/ Single(chunks'[Doc(s)])
    BY <1>3 DEF AloneInv
  <2>4. \A d \in Documents \ astray : status[d] = "embedded" => d \in Blank \/ Single(chunks'[d])
    BY <1>3, <2>3 DEF ChunkInv
  <2> QED
    BY <1>1, <2>2, <2>4 DEF ChunkInv
<1>11. ComingInv'
  BY <1>1 DEF ComingInv, Coming
<1> QED
  BY <1>4, <1>5, <1>6, <1>7, <1>8, <1>9, <1>10, <1>11

\* The transaction begins; or there is nothing to insert.
LEMMA DeleteChunksStep ==
  ASSUME LibraryInv, NEW s \in Slots, DeleteChunks(s) PROVE LibraryInv'
<1> USE DEF LibraryInv
<1>1. /\ s \in Working /\ slot[s] \in Tasks /\ Doc(s) \in Documents
      /\ slot[s].stage = "delete" /\ slot[s].to = "failed" /\ slot[s].seen \subseteq 1 .. runs
  BY AtWork, TaskType DEF DeleteChunks, At, Working, StageInv
<1>2. CASE /\ GoesOn(s, [slot[s] EXCEPT !.stage = "insert", !.seen = chunks[Doc(s)]])
           /\ UNCHANGED chunks
  <2> DEFINE task == [slot[s] EXCEPT !.stage = "insert", !.seen = chunks[Doc(s)]]
  <2>1. chunks[Doc(s)] \in SUBSET Nat /\ chunks[Doc(s)] \subseteq 1 .. runs
    BY <1>1 DEF TypeInv, LibraryTypeOK
  <2>2. task \in Tasks
    BY <1>1, <2>1, NextStage DEF Stages
  <2>3. task.job = slot[s].job /\ task.id = slot[s].id /\ task.alone = slot[s].alone
        /\ task.seen = chunks[Doc(s)] /\ task.stage = "insert" /\ task.to = slot[s].to
    BY <1>1 DEF Tasks
  <2> QED
    BY <1>1, <1>2, <2>1, <2>2, <2>3, RunMoves DEF DeleteChunks, documentVars
<1>3. CASE /\ GoesOn(s, [slot[s] EXCEPT !.stage = "update", !.to = "embedded"])
           /\ Doc(s) \in Blank /\ chunks' = [chunks EXCEPT ![Doc(s)] = {}]
  <2> DEFINE task == [slot[s] EXCEPT !.stage = "update", !.to = "embedded"]
  <2>1. task \in Tasks
    BY <1>1, NextStage DEF Stages
  <2>2. task.job = slot[s].job /\ task.id = slot[s].id /\ task.alone = slot[s].alone
        /\ task.seen = slot[s].seen /\ task.stage = "update" /\ task.to = "embedded"
    BY <1>1 DEF Tasks
  <2> QED
    BY <1>1, <1>3, <2>1, <2>2, ChunksStep DEF DeleteChunks
<1> QED
  BY <1>2, <1>3 DEF DeleteChunks, HasChunks

\* The transaction commits the run's own chunks and leaves those that it did not find;
\* or the row is gone.
LEMMA InsertChunksStep ==
  ASSUME LibraryInv, NEW s \in Slots, InsertChunks(s) PROVE LibraryInv'
<1> USE DEF LibraryInv
<1>1. /\ s \in Working /\ slot[s] \in Tasks /\ Doc(s) \in Documents /\ slot[s].stage = "insert"
      /\ slot[s].seen \subseteq 1 .. runs /\ slot[s].id \in 1 .. runs
  BY AtWork, TaskType DEF InsertChunks, At, Working
<1>2. CASE /\ chunks' = [chunks EXCEPT ![Doc(s)] = (@ \ slot[s].seen) \cup {slot[s].id}]
           /\ GoesOn(s, [slot[s] EXCEPT !.stage = "update", !.to = "embedded"])
  <2> DEFINE task == [slot[s] EXCEPT !.stage = "update", !.to = "embedded"]
             C == (chunks[Doc(s)] \ slot[s].seen) \cup {slot[s].id}
  <2>1. task \in Tasks
    BY <1>1, NextStage DEF Stages
  <2>2. task.job = slot[s].job /\ task.id = slot[s].id /\ task.alone = slot[s].alone
        /\ task.seen = slot[s].seen /\ task.stage = "update" /\ task.to = "embedded"
    BY <1>1 DEF Tasks
  <2>3. C \in SUBSET (1 .. runs) /\ C # {} /\ chunks' = [chunks EXCEPT ![Doc(s)] = C]
    BY <1>1, <1>2 DEF TypeInv, LibraryTypeOK
  <2>4. slot[s].alone => C = {slot[s].id}
    BY <1>1 DEF ChunkInv
  <2> QED
    BY <1>1, <1>2, <2>1, <2>2, <2>3, <2>4, ChunksStep DEF InsertChunks, Single
<1>3. CASE GoesOn(s, [slot[s] EXCEPT !.stage = "failing", !.to = "failed"]) /\ UNCHANGED chunks
  <2> DEFINE task == [slot[s] EXCEPT !.stage = "failing", !.to = "failed"]
  <2>1. task \in Tasks
    BY <1>1, NextStage DEF Stages
  <2>2. task.job = slot[s].job /\ task.id = slot[s].id /\ task.alone = slot[s].alone
        /\ task.seen = slot[s].seen /\ task.stage = "failing" /\ task.to = "failed"
    BY <1>1 DEF Tasks
  <2> QED
    BY <1>1, <1>3, <2>1, <2>2, RunMoves DEF InsertChunks, documentVars
<1> QED
  BY <1>2, <1>3 DEF InsertChunks

\* The status is set, to "embedded" only where the chunks are.
LEMMA SetStatusStep == ASSUME LibraryInv, NEW s \in Slots, SetStatus(s) PROVE LibraryInv'
<1> USE DEF LibraryInv
<1> DEFINE task == [slot[s] EXCEPT !.stage = "announce"]
           d == Doc(s)
<1>1. /\ s \in Working /\ slot[s] \in Tasks /\ d \in Documents
      /\ slot[s].to \in {"embedded", "failed"}
      /\ slot[s].to = "embedded" => slot[s].stage = "update"
      /\ status[d] # None /\ d \notin asks.uploads
  BY AtWork, TaskType, NotToUpload DEF SetStatus, Working, StageInv
<1>2. /\ task \in Tasks /\ task.job = slot[s].job /\ task.id = slot[s].id
      /\ task.alone = slot[s].alone /\ task.seen = slot[s].seen
      /\ task.stage = "announce" /\ task.to = slot[s].to
  <2>1. task \in Tasks
    BY <1>1, NextStage DEF Stages
  <2> QED
    BY <1>1, <2>1 DEF Tasks
<1>3. /\ Working' = Working /\ slot'[s] = task /\ jobs' = jobs
      /\ \A u \in Working \ {s} : slot'[u] = slot[u]
      /\ \A u \in Working : Doc(u)' = Doc(u)
      /\ \A e : Runs(e)' = Runs(e)
  BY <1>1, <1>2, GoesOnFrame DEF SetStatus
<1>4. /\ status' \in [Documents -> Statuses \cup {None}] /\ status'[d] = slot[s].to
      /\ \A e \in Documents \ {d} : status'[e] = status[e]
      /\ status'[d] # None
      /\ UNCHANGED <<chunks, adds, runs, asks, told, astray>>
  BY <1>1, LibraryAssumption DEF SetStatus, TypeInv, LibraryTypeOK, Statuses
<1> HIDE DEF task, d
<1>5. TypeInv'
  BY <1>1, <1>2, <1>4, GoesOnType, TaskType DEF TypeInv, LibraryTypeOK, SetStatus, task, d
<1>6. UploadInv'
  BY <1>1, <1>3, <1>4 DEF UploadInv
<1>7. StageInv'
  BY <1>2, <1>3 DEF StageInv
<1>8. EmbeddedIsFound'
  <2>1. slot[s].to = "embedded" => d \in Blank \/ chunks[d] # {}
    BY <1>1 DEF PlacedInv, d
  <2> QED
    BY <1>1, <1>4, <2>1 DEF EmbeddedIsFound, Found
<1>9. PlacedInv'
  <2>1. ASSUME NEW u \in Working, slot'[u].stage = "update", status'[Doc(u)] # None
        PROVE  Doc(u) \in Blank \/ chunks[Doc(u)] # {}
    BY <1>1, <1>2, <1>3, <1>4, <2>1, AtWork DEF PlacedInv
  <2> QED
    BY <1>3, <1>4, <2>1 DEF PlacedInv
<1>10. AloneInv'
  BY <1>2, <1>3, <1>4 DEF AloneInv
<1>11. ChunkInv'
  <2>1. ASSUME NEW u \in Working, slot'[u].alone
        PROVE  /\ slot'[u].stage = "insert" => chunks[Doc(u)] \subseteq slot'[u].seen
               /\ slot'[u].stage \in {"update", "announce"} /\ slot'[u].to = "embedded" =>
                     status'[Doc(u)] = None \/ Doc(u) \in Blank \/ Single(chunks[Doc(u)])
    <3>1. CASE u = s
      BY <1>1, <1>2, <1>3, <2>1, <3>1 DEF ChunkInv, d
    <3>2. CASE u # s
      <4>1. Doc(u) # d /\ Doc(u) \in Documents
        BY <1>1, <1>3, <2>1, <3>2, LoneRun, AtWork DEF d
      <4> QED
        BY <1>3, <1>4, <2>1, <3>2, <4>1 DEF ChunkInv
    <3> QED
      BY <3>1, <3>2
  <2>2. d \notin astray /\ slot[s].to = "embedded" => d \in Blank \/ Single(chunks[d])
    BY <1>1 DEF AloneInv, ChunkInv, d
  <2>3. \A e \in Documents \ astray : status'[e] = "embedded" => e \in Blank \/ Single(chunks[e])
    BY <1>4, <2>2 DEF ChunkInv
  <2> QED
    BY <1>3, <1>4, <2>1, <2>3 DEF ChunkInv
<1>12. ComingInv'
  <2>1. d \notin astray => Coming(d, 0)
    <3>1. slot[s].job \in DOMAIN jobs /\ slot[s].job # 0 /\ jobs[slot[s].job].doc = d
      BY <1>1, AtWork DEF d, Doc
    <3> QED
      BY <1>1, <3>1 DEF ComingInv, Coming, d
  <2>2. \A e, i : Coming(e, i)' = Coming(e, i)
    BY <1>3, <1>4 DEF Coming
  <2>3. ASSUME NEW u \in Working, slot'[u].stage = "announce", Doc(u) \notin astray
        PROVE  status'[Doc(u)] \in {None, slot'[u].to} \/ Coming(Doc(u), slot'[u].job)
    <3>1. CASE u = s
      BY <1>2, <1>3, <1>4, <3>1 DEF d
    <3>2. CASE u # s
      <4>1. slot[u].alone
        BY <2>3 DEF AloneInv
      <4>2. Doc(u) # d /\ Doc(u) \in Documents
        BY <1>1, <3>2, <4>1, LoneRun, AtWork DEF d
      <4> QED
        BY <1>3, <1>4, <2>3, <3>2, <4>2 DEF ComingInv
    <3> QED
      BY <3>1, <3>2
  <2>4. \A e \in Documents \ astray : status'[e] \in {None, told[e]} \/ Coming(e, 0)
    BY <1>4, <2>1 DEF ComingInv
  <2>5. \A u \in Working : Doc(u) \notin astray => jobs[slot'[u].job].state # "done"
    BY <1>2, <1>3 DEF ComingInv
  <2> QED
    BY <1>3, <1>4, <2>2, <2>3, <2>4, <2>5 DEF ComingInv
<1> QED
  BY <1>5, <1>6, <1>7, <1>8, <1>9, <1>10, <1>11, <1>12

\* A slot takes a job.  Runs of the same document are no longer alone, and the
\* document is led astray.
LEMMA FetchStep == ASSUME LibraryInv, NEW s \in Slots, Fetch(s) PROVE LibraryInv'
<1> USE DEF LibraryInv
<1>1. PICK j \in DOMAIN jobs, e \in {jobs[i].doc : i \in DOMAIN jobs} :
          /\ e = jobs[j].doc
          /\ jobs[j].state = "waiting" /\ runs' = runs + 1
          /\ jobs' = [jobs EXCEPT ![j].state = "active", ![j].run = runs + 1]
          /\ slot' = [r \in Slots |->
                IF r = s
                THEN [job |-> j, id |-> runs + 1, stage |-> "start", from |-> "pending",
                      to |-> "failed", seen |-> {}, alone |-> Runs(e) = {}]
                ELSE IF r \in Runs(e) THEN [slot[r] EXCEPT !.alone = FALSE]
                ELSE slot[r]]
          /\ astray' = IF Runs(e) = {} THEN astray ELSE astray \cup {e}
  <2>1. PICK j \in DOMAIN jobs :
          /\ jobs[j].state = "waiting" /\ runs' = runs + 1
          /\ jobs' = [jobs EXCEPT ![j].state = "active", ![j].run = runs + 1]
          /\ slot' = [r \in Slots |->
                IF r = s
                THEN [job |-> j, id |-> runs + 1, stage |-> "start", from |-> "pending",
                      to |-> "failed", seen |-> {}, alone |-> Runs(jobs[j].doc) = {}]
                ELSE IF r \in Runs(jobs[j].doc) THEN [slot[r] EXCEPT !.alone = FALSE]
                ELSE slot[r]]
          /\ astray' = IF Runs(jobs[j].doc) = {} THEN astray ELSE astray \cup {jobs[j].doc}
    BY DEF Fetch
  <2>2. PICK e \in {jobs[i].doc : i \in DOMAIN jobs} : e = jobs[j].doc
    OBVIOUS
  <2> QED
    BY <2>1, <2>2
<1> DEFINE others == Runs(e)
           job == [jobs[j] EXCEPT !.state = "active", !.run = runs + 1]
           task == [job |-> j, id |-> runs + 1, stage |-> "start", from |-> "pending",
                    to |-> "failed", seen |-> {}, alone |-> others = {}]
<1>2. /\ s \notin Working /\ jobs \in Seq(Jobs) /\ jobs[j] \in Jobs /\ e \in Documents
      /\ runs \in Nat /\ j \in Nat \ {0} /\ slot \in [Slots -> Tasks \cup {None}]
      /\ UNCHANGED <<status, chunks, adds, asks, told>>
  <2>1. jobs \in Seq(Jobs) /\ runs \in Nat /\ slot \in [Slots -> Tasks \cup {None}]
    BY DEF TypeInv, LibraryTypeOK
  <2>2. jobs[j] \in Jobs /\ j \in Nat \ {0}
    BY <2>1
  <2>3. e \in Documents
    BY <1>1, <2>2 DEF Jobs
  <2> QED
    BY <2>1, <2>2, <2>3 DEF Working, Fetch, documentVars
<1>3. /\ jobs' \in Seq(Jobs) /\ DOMAIN jobs' = DOMAIN jobs /\ jobs'[j] = job
      /\ job.doc = e /\ job.state = "active" /\ job.run = runs + 1
      /\ \A i \in DOMAIN jobs \ {j} : jobs'[i] = jobs[i]
  <2>1. job \in Jobs /\ job.doc = e /\ job.state = "active" /\ job.run = runs + 1
    <3>1. runs + 1 \in Nat
      BY <1>2
    <3>2. \A old \in Jobs, n \in Nat :
              /\ [old EXCEPT !.state = "active", !.run = n] \in Jobs
              /\ [old EXCEPT !.state = "active", !.run = n].doc = old.doc
              /\ [old EXCEPT !.state = "active", !.run = n].state = "active"
              /\ [old EXCEPT !.state = "active", !.run = n].run = n
      BY DEF Jobs
    <3> QED
      BY <1>1, <1>2, <3>1, <3>2
  <2>2. jobs' = [jobs EXCEPT ![j] = job]
    BY <1>1, <1>2
  <2> HIDE DEF job
  <2> QED
    BY <1>2, <2>1, <2>2, JobChanges
<1>4. /\ task \in Tasks /\ task.job = j /\ task.id = runs + 1 /\ task.stage = "start"
      /\ task.to = "failed" /\ task.seen = {} /\ task.alone = (others = {})
  BY <1>2 DEF Tasks, Stages, Statuses
<1>5. ASSUME NEW u \in Working
      PROVE  /\ slot'[u] \in Tasks /\ slot'[u].job = slot[u].job /\ slot'[u].id = slot[u].id
             /\ slot'[u].stage = slot[u].stage /\ slot'[u].to = slot[u].to
             /\ slot'[u].seen = slot[u].seen
             /\ u \in others => ~slot'[u].alone
             /\ u \notin others => slot'[u].alone = slot[u].alone
  <2>1. u # s /\ u \in Slots /\ slot[u] \in Tasks
    BY <1>2, AtWork
  <2> QED
    BY <1>1, <2>1 DEF Tasks
<1>6. /\ slot'[s] = task /\ slot' \in [Slots -> Tasks \cup {None}]
      /\ Working' = Working \cup {s}
  <2>1. None \notin Tasks /\ \A u \in Slots \ Working : slot[u] = None
    BY LibraryAssumption DEF Working
  <2>2. slot'[s] = task /\ \A u \in Slots \ (Working \cup {s}) : slot'[u] = None
    BY <1>1, <2>1 DEF Runs, Working
  <2>3. \A u \in Slots : slot'[u] \in Tasks \cup {None}
    BY <1>4, <1>5, <2>2
  <2> HIDE DEF task
  <2> QED
    BY <1>1, <1>4, <1>5, <2>1, <2>2, <2>3 DEF Working
<1> HIDE DEF task, job
<1>7. Doc(s)' = e /\ \A u \in Working : Doc(u)' = Doc(u)
  <2>1. \A i \in DOMAIN jobs : jobs'[i].doc = jobs[i].doc
    BY <1>1, <1>3
  <2>2. \A u \in Working : slot[u].job \in DOMAIN jobs /\ slot'[u].job = slot[u].job
    BY <1>5, AtWork
  <2> QED
    BY <1>1, <1>4, <1>6, <2>1, <2>2 DEF Doc
<1>8. /\ Runs(e)' = others \cup {s} /\ \A d : d # e => Runs(d)' = Runs(d)
      /\ \A d : Runs(d) = {u \in Working : Doc(u) = d}
  <2>1. \A d : Runs(d) = {u \in Working : Doc(u) = d}
    BY DEF Runs, Working
  <2>2. \A d : Runs(d)' = {u \in Working' : Doc(u)' = d}
    BY DEF Runs, Working
  <2>3. ASSUME NEW d PROVE \A u : u \in Runs(d)' <=> u \in Runs(d) \/ (u = s /\ d = e)
    <3>1. \A u : u \in Runs(d)' <=> u \in Working \cup {s} /\ Doc(u)' = d
      BY <1>6, <2>2
    <3>2. \A u : u \in Runs(d) <=> u \in Working /\ Doc(u) = d
      BY <2>1
    <3> QED
      BY <1>2, <1>7, <3>1, <3>2
  <2>4. \A u : u \in Runs(e)' <=> u \in others \cup {s}
    BY <2>3
  <2>5. ASSUME NEW d, d # e PROVE \A u : u \in Runs(d)' <=> u \in Runs(d)
    BY <2>3, <2>5
  <2>6. Runs(e)' = others \cup {s}
    BY <2>1, <2>2, <2>4
  <2>7. ASSUME NEW d, d # e PROVE Runs(d)' = Runs(d)
    BY <2>1, <2>2, <2>5, <2>7
  <2> QED
    BY <2>1, <2>6, <2>7
<1>9. TypeInv'
  <2>1. \A d \in Documents : chunks'[d] \subseteq 1 .. runs'
    BY <1>1, <1>2 DEF TypeInv, LibraryTypeOK
  <2>2. \A i \in DOMAIN jobs' : jobs'[i].run \in 0 .. runs'
    BY <1>1, <1>2, <1>3 DEF TypeInv, LibraryTypeOK
  <2>3. \A u \in Working' :
            slot'[u].job \in DOMAIN jobs' /\ slot'[u].id \in 1 .. runs' /\ slot'[u].seen \subseteq 1 .. runs'
    <3>1. \A u \in Working : slot[u].id \in 1 .. runs' /\ slot[u].seen \subseteq 1 .. runs'
      BY <1>1, <1>2, TaskType
    <3> QED
      BY <1>1, <1>2, <1>3, <1>4, <1>5, <1>6, <3>1, AtWork
  <2>4. \A u, v \in Working' : slot'[u].id = slot'[v].id => u = v
    <3>1. \A u \in Working : slot'[u].id # runs + 1
      BY <1>2, <1>5, TaskType
    <3>2. \A u, v \in Working : slot[u].id = slot[v].id => u = v
      BY DEF TypeInv, LibraryTypeOK, Working
    <3> QED
      BY <1>4, <1>5, <1>6, <3>1, <3>2
  <2>5. \A u \in Slots : slot'[u] # None => u \in Working'
    BY DEF Working
  <2>6. runs' \in Nat /\ astray' \subseteq Documents
    BY <1>1, <1>2 DEF TypeInv, LibraryTypeOK
  <2> QED
    BY <1>2, <1>3, <1>6, <2>1, <2>2, <2>3, <2>4, <2>5, <2>6 DEF TypeInv, LibraryTypeOK
<1>10. UploadInv'
  BY <1>2, <1>3 DEF UploadInv
<1>11. StageInv'
  BY <1>4, <1>5, <1>6 DEF StageInv
<1>12. EmbeddedIsFound' /\ PlacedInv'
  BY <1>2, <1>4, <1>5, <1>6, <1>7 DEF EmbeddedIsFound, Found, PlacedInv
<1>13. AloneInv'
  <2>1. (slot'[s].alone => Runs(e)' = {s}) /\ (e \notin astray' => slot'[s].alone)
    BY <1>1, <1>4, <1>6, <1>8
  <2>2. ASSUME NEW u \in Working
        PROVE  /\ slot'[u].alone => Runs(Doc(u))' = {u}
               /\ Doc(u) \notin astray' => slot'[u].alone
    <3>1. CASE Doc(u) = e
      BY <1>1, <1>5, <1>8, <3>1
    <3>2. CASE Doc(u) # e
      <4>1. slot'[u].alone = slot[u].alone /\ u \notin others
        BY <1>5, <1>8, <3>2
      <4>2. Runs(Doc(u))' = Runs(Doc(u)) /\ astray \subseteq astray'
        BY <1>1, <1>7, <1>8, <3>2
      <4> QED
        BY <4>1, <4>2 DEF AloneInv
    <3> QED
      BY <3>1, <3>2
  <2>3. ASSUME NEW u \in Working'
        PROVE  (/\ slot[u].alone => Runs(Doc(u)) = {u}
                /\ Doc(u) \notin astray => slot[u].alone)'
    <3>1. CASE u = s
      BY <1>7, <2>1, <3>1 DEF Runs
    <3>2. CASE u \in Working
      BY <1>7, <2>2, <3>2
    <3> QED
      BY <1>6, <3>1, <3>2
  <2> QED
    BY <2>3 DEF AloneInv
<1>14. ChunkInv'
  <2>1. \A u \in Working : slot'[u].alone => slot[u].alone
    BY <1>5
  <2>2. ASSUME NEW u \in Working', slot'[u].alone
        PROVE  /\ slot'[u].stage = "insert" => chunks[Doc(u)'] \subseteq slot'[u].seen
               /\ slot'[u].stage \in {"update", "announce"} /\ slot'[u].to = "embedded" =>
                     \/ status[Doc(u)'] = None \/ Doc(u)' \in Blank
                     \/ Single(chunks[Doc(u)'])
    <3>1. CASE u = s
      BY <1>4, <1>6, <3>1
    <3>2. CASE u # s
      BY <1>5, <1>6, <1>7, <2>1, <2>2, <3>2 DEF ChunkInv
    <3> QED
      BY <3>1, <3>2
  <2>3. \A d \in Documents \ astray' : status[d] = "embedded" => d \in Blank \/ Single(chunks[d])
    BY <1>1 DEF ChunkInv
  <2> QED
    BY <1>2, <2>2, <2>3 DEF ChunkInv
<1>15. ComingInv'
  <2>1. \A d, i : Coming(d, i) => Coming(d, i)'
    BY <1>1, <1>2, <1>3 DEF Coming
  <2>2. astray \subseteq astray'
    BY <1>1
  <2>3. \A u \in Working' : Doc(u)' \notin astray' => jobs'[slot'[u].job].state # "done"
    BY <1>3, <1>4, <1>5, <1>6, <1>7, <2>2, AtWork DEF ComingInv
  <2>4. \A d \in Documents \ astray' : status'[d] \in {None, told'[d]} \/ Coming(d, 0)'
    BY <1>2, <2>1, <2>2 DEF ComingInv
  <2>5. ASSUME NEW u \in Working', slot'[u].stage = "announce", Doc(u)' \notin astray'
        PROVE  (status[Doc(u)] \in {None, slot[u].to} \/ Coming(Doc(u), slot[u].job))'
    <3>1. u \in Working /\ slot[u].stage = "announce"
      BY <1>4, <1>5, <1>6, <2>5
    <3>2. PICK d, i : d = Doc(u) /\ d = Doc(u)' /\ i = slot[u].job /\ i = slot'[u].job
      BY <1>5, <1>7, <3>1
    <3>3. status'[d] \in {None, slot'[u].to} \/ Coming(d, i)'
      BY <1>2, <1>5, <2>1, <2>2, <2>5, <3>1, <3>2 DEF ComingInv
    <3> QED
      BY <3>2, <3>3
  <2> QED
    BY <2>3, <2>4, <2>5 DEF ComingInv
<1> QED
  BY <1>9, <1>10, <1>11, <1>12, <1>13, <1>14, <1>15

-----------------------------------------------------------------------------
(* Requests, the queue and the process                                     *)

\* Slots that nobody touches keep their documents.
LEMMA SlotsStay ==
  ASSUME TypeInv, UNCHANGED slot, \A i \in DOMAIN jobs : jobs'[i].doc = jobs[i].doc
  PROVE  /\ Working' = Working /\ \A u \in Working : slot'[u] = slot[u] /\ Doc(u)' = Doc(u)
         /\ \A d : Runs(d)' = Runs(d)
<1>1. Working' = Working /\ \A u \in Working : slot'[u] = slot[u]
  BY DEF Working
<1>2. \A u \in Working : Doc(u)' = Doc(u)
  BY AtWork DEF Doc
<1>3. \A d : Runs(d) = {u \in Working : Doc(u) = d}
  BY DEF Runs, Working
<1>4. \A d : Runs(d)' = {u \in Working' : Doc(u)' = d}
  BY DEF Runs, Working
<1>5. ASSUME NEW d PROVE {u \in Working' : Doc(u)' = d} = {u \in Working : Doc(u) = d}
  BY <1>1, <1>2
<1> QED
  BY <1>1, <1>2, <1>3, <1>4, <1>5

\* A request writes the row of a document: it takes it away with the chunks, or makes
\* it pending and has a job to add.
LEMMA RowWritten ==
  ASSUME LibraryInv, NEW d \in Documents, TypeInv', UploadInv',
         UNCHANGED <<jobs, slot, runs, told, astray>>,
         \A e \in Documents \ {d} : /\ status'[e] = status[e] /\ chunks'[e] = chunks[e]
                                    /\ adds'[e] = adds[e],
         \/ status'[d] = None /\ chunks'[d] = {}
         \/ /\ status'[d] = "pending" /\ chunks'[d] = chunks[d] /\ adds'[d] > 0
            /\ status[d] # None \/ d \in asks.uploads
  PROVE  LibraryInv'
<1> USE DEF LibraryInv
<1>1. /\ Working' = Working /\ \A u \in Working : slot'[u] = slot[u] /\ Doc(u)' = Doc(u)
      /\ \A e : Runs(e)' = Runs(e)
  BY SlotsStay
<1>2. \A u \in Working : Doc(u) \in Documents /\ Doc(u) \notin asks.uploads
  BY AtWork, NotToUpload
<1>3. StageInv' /\ AloneInv'
  BY <1>1 DEF StageInv, AloneInv
<1>4. EmbeddedIsFound'
  BY LibraryAssumption DEF EmbeddedIsFound, Found, Statuses
<1>5. PlacedInv'
  BY <1>1, <1>2 DEF PlacedInv
<1>6. ChunkInv'
  <2>1. ASSUME NEW u \in Working, slot[u].alone
        PROVE  /\ slot[u].stage = "insert" => chunks'[Doc(u)] \subseteq slot[u].seen
               /\ slot[u].stage \in {"update", "announce"} /\ slot[u].to = "embedded" =>
                     \/ status'[Doc(u)] = None \/ Doc(u) \in Blank
                     \/ Single(chunks'[Doc(u)])
    BY <1>2, <2>1 DEF ChunkInv
  <2>2. \A e \in Documents \ astray : status'[e] = "embedded" => e \in Blank \/ Single(chunks'[e])
    BY LibraryAssumption DEF ChunkInv, Statuses
  <2> QED
    BY <1>1, <2>1, <2>2 DEF ChunkInv
<1>7. ComingInv'
  <2>1. \A e \in Documents : \A i : e # d /\ Coming(e, i) => Coming(e, i)'
    BY DEF Coming
  <2>2. status'[d] = None \/ \A i : Coming(d, i)'
    BY DEF Coming
  <2>3. \A e \in Documents \ astray : status'[e] \in {None, told[e]} \/ Coming(e, 0)'
    BY <2>1, <2>2 DEF ComingInv
  <2>6. ASSUME NEW u \in Working', slot'[u].stage = "announce", Doc(u)' \notin astray'
        PROVE  (status[Doc(u)] \in {None, slot[u].to} \/ Coming(Doc(u), slot[u].job))'
    <3>1. PICK e \in Documents, i \in DOMAIN jobs :
              e = Doc(u) /\ e = Doc(u)' /\ i = slot[u].job /\ i = slot'[u].job
      BY <1>1, <1>2, AtWork
    <3>2. status'[e] \in {None, slot'[u].to} \/ Coming(e, i)'
      BY <1>1, <2>1, <2>2, <2>6, <3>1 DEF ComingInv
    <3> QED
      BY <3>1, <3>2
  <2>7. \A u \in Working' : Doc(u)' \notin astray' => jobs'[slot'[u].job].state # "done"
    BY <1>1 DEF ComingInv
  <2> QED
    BY <2>3, <2>6, <2>7 DEF ComingInv
<1> QED
  BY <1>3, <1>4, <1>5, <1>6, <1>7

\* Jobs are added or taken back, and what is to come for undisturbed documents is
\* still to come.
LEMMA JobsMove ==
  ASSUME LibraryInv, TypeInv', UploadInv', UNCHANGED <<documentVars, slot, runs, told>>,
         astray \subseteq astray',
         \A i \in DOMAIN jobs : jobs'[i].doc = jobs[i].doc,
         \A i \in DOMAIN jobs :
             jobs[i].doc \notin astray' /\ jobs[i].state # "done" => jobs'[i].state # "done",
         \A d \in Documents \ astray', i \in DOMAIN jobs \cup {0} :
             Coming(d, i) => Coming(d, i)'
  PROVE  LibraryInv'
<1> USE DEF LibraryInv, documentVars
<1>1. /\ Working' = Working /\ \A u \in Working : slot'[u] = slot[u] /\ Doc(u)' = Doc(u)
      /\ \A e : Runs(e)' = Runs(e)
  BY SlotsStay
<1>2. StageInv' /\ EmbeddedIsFound' /\ PlacedInv'
  BY <1>1 DEF StageInv, EmbeddedIsFound, Found, PlacedInv
<1>3. AloneInv'
  BY <1>1 DEF AloneInv
<1>4. ChunkInv'
  BY <1>1 DEF ChunkInv
<1>5. ComingInv'
  <2>1. \A u \in Working : slot[u].job \in DOMAIN jobs /\ Doc(u) \in Documents
                           /\ jobs[slot[u].job].doc = Doc(u)
    BY AtWork DEF Doc
  <2>2. \A d \in Documents \ astray' : status'[d] \in {None, told'[d]} \/ Coming(d, 0)'
    BY DEF ComingInv
  <2>4. ASSUME NEW u \in Working', slot'[u].stage = "announce", Doc(u)' \notin astray'
        PROVE  (status[Doc(u)] \in {None, slot[u].to} \/ Coming(Doc(u), slot[u].job))'
    <3>1. PICK e \in Documents, i \in DOMAIN jobs :
              e = Doc(u) /\ e = Doc(u)' /\ i = slot[u].job /\ i = slot'[u].job
      BY <1>1, <2>1
    <3>2. status'[e] \in {None, slot'[u].to} \/ Coming(e, i)'
      BY <1>1, <2>4, <3>1 DEF ComingInv
    <3> QED
      BY <3>1, <3>2
  <2>5. \A u \in Working' : Doc(u)' \notin astray' => jobs'[slot'[u].job].state # "done"
    BY <1>1, <2>1 DEF ComingInv
  <2> QED
    BY <2>2, <2>4, <2>5 DEF ComingInv
<1> QED
  BY <1>2, <1>3, <1>4, <1>5

\* An upload: the row of a document of which there was nothing, or a refusal.
LEMMA IngestStep ==
  ASSUME LibraryInv, NEW d \in Documents, NEW source \in asks.sources, Ingest(d, source)
  PROVE  LibraryInv'
<1> USE DEF LibraryInv
<1>1. /\ d \in asks.uploads /\ asks' \in Asks /\ asks'.uploads = asks.uploads \ {d}
      /\ UNCHANGED <<chunks, jobs, slot, runs, told, astray>>
  BY DEF Ingest, TypeInv, Asks
<1>2. CASE Create(d, source)
  <2>1. /\ status'[d] = "pending" /\ status' \in [Documents -> Statuses \cup {None}]
        /\ adds'[d] = 1 /\ adds' \in [Documents -> Nat]
        /\ \A e \in Documents \ {d} : status'[e] = status[e] /\ adds'[e] = adds[e]
    BY <1>2 DEF Create, TypeInv, LibraryTypeOK, Statuses
  <2>2. TypeInv'
    BY <1>1, <2>1 DEF TypeInv, LibraryTypeOK
  <2>3. UploadInv'
    BY <1>1, <2>1 DEF UploadInv
  <2> QED
    BY <1>1, <2>1, <2>2, <2>3, RowWritten
<1>3. CASE UNCHANGED <<status, text, adds>>
  <2>1. TypeInv' /\ UploadInv'
    BY <1>1, <1>3 DEF TypeInv, LibraryTypeOK, UploadInv
  <2>2. \A e, i : Coming(e, i)' = Coming(e, i)
    BY <1>1, <1>3 DEF Coming
  <2> QED
    BY <1>1, <1>3, <2>1, <2>2, JobsMove DEF documentVars
<1> QED
  BY <1>2, <1>3 DEF Ingest

\* The first half of a request to embed again.
LEMMA ReembedStep == ASSUME LibraryInv, NEW d \in Documents, Reembed(d) PROVE LibraryInv'
<1> USE DEF LibraryInv
<1>1. /\ asks' \in Asks /\ asks'.uploads = asks.uploads
      /\ status[d] # None /\ d \notin asks.uploads
      /\ UNCHANGED <<chunks, text, jobs, slot, runs, told, astray>>
  BY DEF Reembed, TypeInv, Asks, UploadInv
<1>2. /\ status'[d] = "pending" /\ status' \in [Documents -> Statuses \cup {None}]
      /\ adds'[d] > 0 /\ adds' \in [Documents -> Nat]
      /\ \A e \in Documents \ {d} : status'[e] = status[e] /\ adds'[e] = adds[e]
  BY DEF Reembed, TypeInv, LibraryTypeOK, Statuses
<1>3. TypeInv'
  BY <1>1, <1>2 DEF TypeInv, LibraryTypeOK
<1>4. UploadInv'
  BY <1>1, <1>2 DEF UploadInv
<1> QED
  BY <1>1, <1>2, <1>3, <1>4, RowWritten

\* A document is deleted with its chunks.
LEMMA DeleteStep == ASSUME LibraryInv, NEW d \in Documents, Delete(d) PROVE LibraryInv'
<1> USE DEF LibraryInv
<1>1. /\ asks' \in Asks /\ asks'.uploads = asks.uploads
      /\ status[d] # None /\ d \notin asks.uploads
      /\ UNCHANGED <<text, adds, jobs, slot, runs, told, astray>>
  BY DEF Delete, TypeInv, Asks, UploadInv, queue
<1>2. /\ status'[d] = None /\ status' \in [Documents -> Statuses \cup {None}]
      /\ chunks'[d] = {} /\ chunks' \in [Documents -> SUBSET Nat]
      /\ \A e \in Documents \ {d} : status'[e] = status[e] /\ chunks'[e] = chunks[e]
  BY DEF Delete, TypeInv, LibraryTypeOK
<1>3. TypeInv'
  BY <1>1, <1>2 DEF TypeInv, LibraryTypeOK
<1>4. UploadInv'
  BY <1>1, <1>2 DEF UploadInv
<1> QED
  BY <1>1, <1>2, <1>3, <1>4, RowWritten

\* The job of a request is added.
LEMMA EnqueueStep == ASSUME LibraryInv, NEW d \in Documents, Enqueue(d) PROVE LibraryInv'
<1> USE DEF LibraryInv
<1> DEFINE job == [doc |-> d, state |-> "waiting", stalls |-> 0, run |-> 0]
           new == Len(jobs) + 1
<1>1. /\ adds[d] > 0 /\ jobs' = Append(jobs, job) /\ adds' = [adds EXCEPT ![d] = @ - 1]
      /\ UNCHANGED <<documentVars, slot, runs, asks, told, astray>>
  BY DEF Enqueue
<1>2. /\ job \in Jobs /\ job.doc = d /\ job.state = "waiting" /\ job.run = 0
      /\ jobs \in Seq(Jobs)
  BY LibraryAssumption DEF Jobs, TypeInv, LibraryTypeOK
<1> HIDE DEF job
<1>3. /\ jobs' \in Seq(Jobs) /\ DOMAIN jobs' = DOMAIN jobs \cup {new} /\ jobs'[new] = job
      /\ new \notin DOMAIN jobs \cup {0}
      /\ \A i \in DOMAIN jobs : jobs'[i] = jobs[i]
  BY <1>1, <1>2
<1> HIDE DEF new
<1>4. adds' \in [Documents -> Nat] /\ \A e \in Documents \ {d} : adds'[e] = adds[e]
  BY <1>1 DEF TypeInv, LibraryTypeOK
<1>5. d \notin asks.uploads
  BY <1>1 DEF UploadInv, TypeInv, LibraryTypeOK
<1>6. TypeInv'
  <2>1. \A i \in DOMAIN jobs' : jobs'[i].run \in 0 .. runs
    BY <1>2, <1>3 DEF TypeInv, LibraryTypeOK
  <2> QED
    BY <1>1, <1>3, <1>4, <2>1 DEF TypeInv, LibraryTypeOK, documentVars
<1>7. UploadInv'
  BY <1>1, <1>2, <1>3, <1>4, <1>5 DEF UploadInv, documentVars
<1>8. ASSUME NEW e \in Documents, NEW i \in DOMAIN jobs \cup {0}, Coming(e, i) PROVE Coming(e, i)'
  BY <1>2, <1>3, <1>4, <1>8 DEF Coming
<1> QED
  BY <1>1, <1>3, <1>6, <1>7, <1>8, JobsMove

\* The job of a request is lost, and its document is led astray.
LEMMA EnqueueFailsStep ==
  ASSUME LibraryInv, NEW d \in Documents, EnqueueFails(d) PROVE LibraryInv'
<1> USE DEF LibraryInv
<1>1. /\ adds' \in [Documents -> Nat] /\ \A e \in Documents \ {d} : adds'[e] = adds[e]
      /\ adds[d] > 0 /\ astray' = astray \cup {d}
      /\ UNCHANGED <<documentVars, jobs, slot, runs, asks, told>>
  BY DEF EnqueueFails, TypeInv, LibraryTypeOK
<1>2. TypeInv'
  BY <1>1 DEF TypeInv, LibraryTypeOK, documentVars
<1>3. UploadInv'
  BY <1>1 DEF UploadInv, TypeInv, LibraryTypeOK, documentVars
<1>4. \A e \in Documents \ astray' : \A i : Coming(e, i) => Coming(e, i)'
  BY <1>1 DEF Coming
<1> QED
  BY <1>1, <1>2, <1>3, <1>4, JobsMove

\* A job is taken back, and it waits again; or it is given up, and its document is
\* led astray.
LEMMA StallStep == ASSUME LibraryInv, NEW j \in DOMAIN jobs, Stall(j) PROVE LibraryInv'
<1> USE DEF LibraryInv
<1>1. /\ jobs[j].state = "active" /\ asks' \in Asks /\ asks'.uploads = asks.uploads
      /\ UNCHANGED <<documentVars, adds, slot, runs, told>>
  BY DEF Stall, TypeInv, Asks
<1>2. jobs \in Seq(Jobs) /\ jobs[j] \in Jobs /\ jobs[j].doc \in Documents
  <2>1. jobs \in Seq(Jobs) /\ jobs[j] \in Jobs
    BY DEF TypeInv, LibraryTypeOK
  <2> QED
    BY <2>1 DEF Jobs
<1>3. PICK job \in Jobs :
          /\ jobs' = [jobs EXCEPT ![j] = job] /\ job.doc = jobs[j].doc /\ job.run = 0
          /\ \/ job.state = "waiting" /\ astray' = astray
             \/ astray' = astray \cup {jobs[j].doc}
  <2> DEFINE back == [jobs[j] EXCEPT !.state = "waiting", !.stalls = @ + 1, !.run = 0]
             given == [jobs[j] EXCEPT !.state = "done", !.run = 0]
  <2>1. back.doc = jobs[j].doc /\ back.run = 0 /\ back.state = "waiting"
    BY <1>2 DEF Jobs
  <2>2. given \in Jobs /\ given.doc = jobs[j].doc /\ given.run = 0
    BY <1>2 DEF Jobs
  <2>3. jobs[j].stalls < MaxStalls => back \in Jobs
    <3>1. jobs[j].stalls < MaxStalls => jobs[j].stalls + 1 \in 0 .. MaxStalls
      BY <1>2, LibraryAssumption DEF Jobs
    <3>2. \A n \in 0 .. MaxStalls :
              [jobs[j] EXCEPT !.state = "waiting", !.stalls = n, !.run = 0] \in Jobs
      BY <1>2 DEF Jobs
    <3> QED
      BY <3>1, <3>2
  <2>4. \/ jobs[j].stalls < MaxStalls /\ jobs' = [jobs EXCEPT ![j] = back] /\ astray' = astray
        \/ jobs' = [jobs EXCEPT ![j] = given] /\ astray' = astray \cup {jobs[j].doc}
    BY <1>2 DEF Stall
  <2> HIDE DEF back, given
  <2> QED
    BY <2>1, <2>2, <2>3, <2>4
<1>4. /\ jobs' \in Seq(Jobs) /\ DOMAIN jobs' = DOMAIN jobs /\ jobs'[j] = job
      /\ \A i \in DOMAIN jobs \ {j} : jobs'[i] = jobs[i]
  BY <1>2, <1>3, JobChanges
<1>5. astray \subseteq astray' /\ astray' \subseteq Documents
  BY <1>2, <1>3 DEF TypeInv, LibraryTypeOK
<1>6. TypeInv'
  <2>1. \A i \in DOMAIN jobs' : jobs'[i].run \in 0 .. runs
    BY <1>3, <1>4 DEF TypeInv, LibraryTypeOK
  <2> QED
    BY <1>1, <1>4, <1>5, <2>1 DEF TypeInv, LibraryTypeOK, documentVars
<1>7. UploadInv'
  BY <1>1, <1>3, <1>4 DEF UploadInv, documentVars
<1>8. \A e \in Documents \ astray' : \A i : Coming(e, i) => Coming(e, i)'
  BY <1>1, <1>3, <1>4 DEF Coming
<1>9. \A i \in DOMAIN jobs :
          /\ jobs'[i].doc = jobs[i].doc
          /\ jobs[i].doc \notin astray' /\ jobs[i].state # "done" => jobs'[i].state # "done"
  BY <1>3, <1>4
<1> QED
  BY <1>1, <1>5, <1>6, <1>7, <1>8, <1>9, JobsMove

\* A restart leaves no run, and leads astray what had no job yet.
LEMMA RestartStep == ASSUME LibraryInv, LibraryRestart PROVE LibraryInv'
<1> USE DEF LibraryInv
<1>1. /\ Working' = {} /\ slot' \in [Slots -> Tasks \cup {None}]
      /\ \A s \in Slots : slot'[s] = None
      /\ adds' = [d \in Documents |-> 0]
      /\ astray' = astray \cup {d \in Documents : adds[d] > 0}
      /\ UNCHANGED <<documentVars, jobs, runs, asks, told>>
  BY DEF LibraryRestart, Working
<1>2. TypeInv'
  BY <1>1 DEF TypeInv, LibraryTypeOK, documentVars
<1>3. UploadInv'
  BY <1>1 DEF UploadInv, documentVars
<1>4. StageInv' /\ EmbeddedIsFound' /\ PlacedInv' /\ AloneInv' /\ ChunkInv'
  BY <1>1 DEF StageInv, EmbeddedIsFound, Found, PlacedInv, AloneInv, ChunkInv, documentVars
<1>5. ComingInv'
  <2>1. \A d \in Documents \ astray' : Coming(d, 0) => Coming(d, 0)'
    BY <1>1 DEF Coming
  <2>2. \A d \in Documents \ astray' : status'[d] \in {None, told'[d]} \/ Coming(d, 0)'
    BY <1>1, <2>1 DEF ComingInv, documentVars
  <2> QED
    BY <1>1, <2>2 DEF ComingInv
<1> QED
  BY <1>2, <1>3, <1>4, <1>5

\* Initially there is nothing.
LEMMA LibraryStarts == ASSUME LibraryInit, asks \in Asks PROVE LibraryInv
<1> USE DEF LibraryInit
<1>1. Working = {}
  BY DEF Working
<1>2. TypeInv
  <2>1. /\ status \in [Documents -> Statuses \cup {None}] /\ chunks \in [Documents -> SUBSET Nat]
        /\ adds \in [Documents -> Nat] /\ slot \in [Slots -> Tasks \cup {None}]
        /\ told \in [Documents -> {"embedded", "failed", None}] /\ runs \in Nat
    OBVIOUS
  <2>2. jobs \in Seq(Jobs) /\ DOMAIN jobs = {}
    OBVIOUS
  <2> QED
    BY <2>1, <2>2 DEF TypeInv, LibraryTypeOK
<1>3. UploadInv
  BY DEF UploadInv
<1>4. StageInv /\ PlacedInv /\ AloneInv
  BY <1>1 DEF StageInv, PlacedInv, AloneInv
<1>5. EmbeddedIsFound /\ ChunkInv
  BY <1>1, LibraryAssumption DEF EmbeddedIsFound, ChunkInv, Statuses
<1>6. ComingInv
  BY <1>1 DEF ComingInv
<1> QED
  BY <1>2, <1>3, <1>4, <1>5, <1>6 DEF LibraryInv

\* Every step keeps the invariant.
LEMMA LibrarySteps ==
  ASSUME LibraryInv, [LibraryNext \/ LibraryRestart]_libraryVars PROVE LibraryInv'
<1>1. CASE Request
  BY <1>1, IngestStep, ReembedStep, DeleteStep DEF Request
<1>2. ASSUME NEW d \in Documents, Enqueue(d) \/ EnqueueFails(d) PROVE LibraryInv'
  BY <1>2, EnqueueStep, EnqueueFailsStep
<1>3. ASSUME NEW s \in Slots, Run(s) PROVE LibraryInv'
  BY <1>3, FetchStep, FindDocumentStep, FindRejectedStep, EmbedStep, DeleteChunksStep,
     InsertChunksStep, ThrowsStep, SetStatusStep, RowGoneStep, FailureLostStep, AnnounceStep DEF Run
<1>4. ASSUME NEW j \in DOMAIN jobs, Stall(j) PROVE LibraryInv'
  BY <1>4, StallStep
<1>5. CASE LibraryRestart
  BY <1>5, RestartStep
<1>6. CASE UNCHANGED libraryVars
  <2>1. /\ UNCHANGED <<status, chunks, adds, jobs, slot, runs, asks, told, astray>>
        /\ Working' = Working
    BY <1>6 DEF libraryVars, documentVars, queue, Working
  <2>2. /\ TypeInv' /\ UploadInv'
        /\ \A i \in DOMAIN jobs : jobs'[i] = jobs[i]
        /\ \A e, i : Coming(e, i)' = Coming(e, i)
    BY <2>1 DEF LibraryInv, TypeInv, LibraryTypeOK, UploadInv, Coming
  <2> QED
    BY <1>6, <2>1, <2>2, JobsMove DEF libraryVars
<1> QED
  BY <1>1, <1>2, <1>3, <1>4, <1>5, <1>6 DEF LibraryNext, Progress

-----------------------------------------------------------------------------
(* Theorems                                                                *)

\* Every reachable state satisfies the inductive invariant.
THEOREM LibraryInvariant == LibrarySpec => []LibraryInv
<1>1. LibraryInit /\ asks \in Asks => LibraryInv
  BY LibraryStarts
<1>2. LibraryInv /\ [LibraryNext \/ LibraryRestart]_libraryVars => LibraryInv'
  BY LibrarySteps
<1> QED
  BY <1>1, <1>2, PTL DEF LibrarySpec

\* Rows, jobs and runs stay what they are declared to be; no two slots hold one run.
THEOREM LibraryTypeCorrect == LibrarySpec => []LibraryTypeOK
<1>1. LibraryInv => LibraryTypeOK
  BY DEF LibraryInv, TypeInv
<1> QED
  BY <1>1, LibraryInvariant, PTL

\* document.service and embed.processor: what a row says is embedded is found by
\* the retrieval, whatever runs, stalls, deletions and failures do meanwhile.
THEOREM EmbeddedDocumentsAreFound == LibrarySpec => []EmbeddedIsFound
<1>1. LibraryInv => EmbeddedIsFound
  BY DEF LibraryInv
<1> QED
  BY <1>1, LibraryInvariant, PTL

\* An invariant state is settled where it is quiet.
LEMMA SettledWhenQuiet == ASSUME LibraryInv PROVE QuietIsSettled
<1> SUFFICES ASSUME NEW d \in Documents, status[d] # None, Quiet(d), d \notin astray
             PROVE  /\ status[d] = told[d]
                    /\ d \notin Blank /\ status[d] = "embedded" => Cardinality(chunks[d]) = 1
  BY DEF QuietIsSettled
<1>1. ~Coming(d, 0)
  BY DEF Quiet, Coming
<1>2. status[d] = told[d]
  BY <1>1 DEF LibraryInv, ComingInv
<1>3. ASSUME d \notin Blank, status[d] = "embedded" PROVE Cardinality(chunks[d]) = 1
  <2>1. PICK x : chunks[d] = {x}
    BY <1>3 DEF LibraryInv, ChunkInv, Single
  <2> QED
    BY <2>1, FS_Singleton
<1> QED
  BY <1>2, <1>3

\* embed.processor: when nothing is under way the row, the last event and the chunks
\* agree, unless runs of the document overlapped or something was lost.
THEOREM QuietDocumentsAreSettled == LibrarySpec => []QuietIsSettled
<1>1. LibraryInv => QuietIsSettled
  BY SettledWhenQuiet
<1> QED
  BY <1>1, LibraryInvariant, PTL

-----------------------------------------------------------------------------
(* The text of an import                                                   *)

\* A set of a few numbers has a least one.
LEMMA LeastOfFew ==
    ASSUME NEW I \in SUBSET (1 .. 6), I # {}
    PROVE  \E x \in I : /\ x = (CHOOSE y \in I : \A z \in I : y =< z)
                        /\ \A z \in I : x =< z
<1>1. \E x \in I : \A z \in I : x =< z
  <2>1. \A z \in I : z \in {1, 2, 3, 4, 5, 6}
    OBVIOUS
  <2>2. CASE 1 \in I
    BY <2>1, <2>2
  <2>3. CASE 1 \notin I /\ 2 \in I
    BY <2>1, <2>3
  <2>4. CASE I \cap {1, 2} = {} /\ 3 \in I
    BY <2>1, <2>4
  <2>5. CASE I \cap {1, 2, 3} = {} /\ 4 \in I
    BY <2>1, <2>5
  <2>6. CASE I \cap {1, 2, 3, 4} = {} /\ 5 \in I
    BY <2>1, <2>6
  <2>7. CASE I \cap {1, 2, 3, 4, 5} = {} /\ 6 \in I
    BY <2>1, <2>7
  <2> QED
    BY <2>1, <2>2, <2>3, <2>4, <2>5, <2>6, <2>7
<1> QED
  BY <1>1

\* resolveKind answers the first kind for which its question holds.
LEMMA FirstKind ==
    ASSUME NEW file, ResolveKind(file) # "unsupported"
    PROVE  \E i \in 1 .. 6 :
              /\ ResolveKind(file) = KindOrder[i] /\ Matches(KindOrder[i], file)
              /\ \A j \in 1 .. i - 1 : ~ Matches(KindOrder[j], file)
<1>1. PICK I : I = {i \in 1 .. Len(KindOrder) : Matches(KindOrder[i], file)}
  OBVIOUS
<1>2. Len(KindOrder) = 6
  BY DEF KindOrder
<1>3. ResolveKind(file) =
         IF I = {} THEN "unsupported" ELSE KindOrder[CHOOSE y \in I : \A z \in I : y =< z]
  <2>1. SelectInSeq(KindOrder, LAMBDA kind : Matches(kind, file)) =
           IF I # {} THEN CHOOSE y \in I : \A z \in I : y =< z ELSE 0
    <3>1. Min(I) = CHOOSE y \in I : \A z \in I : y =< z
      BY DEF Min
    <3>2. SelectInSeq(KindOrder, LAMBDA kind : Matches(kind, file)) = IF I # {} THEN Min(I) ELSE 0
      BY <1>1 DEF SelectInSeq
    <3> QED
      BY <3>1, <3>2
  <2>2. I # {} => (CHOOSE y \in I : \A z \in I : y =< z) # 0
    BY <1>1, <1>2, LeastOfFew
  <2> QED
    BY <2>1, <2>2 DEF ResolveKind
<1>4. I # {}
  BY <1>3
<1>5. PICK x \in I : /\ x = (CHOOSE y \in I : \A z \in I : y =< z)
                     /\ \A z \in I : x =< z
  BY <1>1, <1>2, <1>4, LeastOfFew
<1>6. x \in 1 .. 6 /\ Matches(KindOrder[x], file) /\ ResolveKind(file) = KindOrder[x]
  BY <1>1, <1>2, <1>3, <1>4, <1>5
<1>7. \A j \in 1 .. x - 1 : ~ Matches(KindOrder[j], file)
  <2> SUFFICES ASSUME NEW j \in 1 .. x - 1, Matches(KindOrder[j], file) PROVE FALSE
    OBVIOUS
  <2>1. j \in I
    BY <1>1, <1>2, <1>6
  <2>2. x =< j
    BY <1>5, <2>1
  <2> QED
    BY <1>6, <2>2
<1> QED
  BY <1>6, <1>7

\* A page is asked for as such ahead of a text, and everything else is what it
\* says it is.
LEMMA FilesReadable ==
    ASSUME NEW file \in Files, ResolveKind(file) # "unsupported",
           Honest(file), ~ OnlyByParams(file)
    PROVE  Readable(ResolveKind(file), file.holds)
<1>1. PICK i \in 1 .. 6 :
           /\ ResolveKind(file) = KindOrder[i] /\ Matches(KindOrder[i], file)
           /\ \A j \in 1 .. i - 1 : ~ Matches(KindOrder[j], file)
  BY FirstKind
<1>2. /\ KindOrder[1] = "pdf" /\ KindOrder[2] = "docx" /\ KindOrder[3] = "xlsx"
      /\ KindOrder[4] = "csv" /\ KindOrder[5] = "html" /\ KindOrder[6] = "text"
  BY DEF KindOrder
<1>3. file.holds \in Formats
  BY DEF Files
<1>4. CASE i # 6
  <2>1. KindOrder[i] \in Formats \ {"text"}
    BY <1>2, <1>4 DEF Formats
  <2> QED
    BY <1>1, <1>3, <2>1 DEF Matches, Honest, Readable, Formats
<1>5. CASE i = 6
  <2>1. ~ Matches("html", file) /\ Matches("text", file)
    <3>1. 5 \in 1 .. i - 1
      BY <1>5
    <3> QED
      BY <1>1, <1>2, <1>5, <3>1
  <2> QED
    BY <1>1, <1>2, <1>3, <1>5, <2>1 DEF Matches, Honest, OnlyByParams, Readable, Formats
<1> QED
  BY <1>4, <1>5

LEMMA SourcesReadable ==
    ASSUME NEW source \in Sources, Load(source).ok, Reading(source).known
    PROVE  Readable(Reading(source).kind, Reading(source).holds)
<1>1. Reading(source).kind = Load(source).kind
  BY DEF Reading
<1>2. ASSUME NEW file \in Files, LoadFile(file).ok
      PROVE  ResolveKind(file) # "unsupported" /\ LoadFile(file).kind = ResolveKind(file)
  BY <1>2 DEF LoadFile, Refused, Text
<1>3. CASE source = Raw
  BY <1>3 DEF Raw, Load, Text, Reading, Readable
<1>4. CASE source \in [via : {"upload"}, file : Files]
  <2>1. source.via = "upload" /\ source.file \in Files
    BY <1>4
  <2>2. Load(source) = LoadFile(source.file)
    BY <2>1 DEF Load
  <2>3. Honest(source.file) /\ ~ OnlyByParams(source.file) /\ Reading(source).holds = source.file.holds
    BY <2>1 DEF Reading
  <2> QED
    BY <1>1, <1>2, <2>1, <2>2, <2>3, FilesReadable
<1>5. CASE source \in [via : {"url"}, response : Responses, file : Files]
  <2>1. source.via = "url" /\ source.file \in Files
    BY <1>5
  <2>2. Load(source) = LoadFile(source.file)
    BY <2>1 DEF Load, LoadUrl, LoadGenericUrl, Refused
  <2>3. Honest(source.file) /\ ~ OnlyByParams(source.file) /\ Reading(source).holds = source.file.holds
    BY <2>1 DEF Reading
  <2> QED
    BY <1>1, <1>2, <2>1, <2>2, <2>3, FilesReadable
<1>6. CASE source \in [via : {"google"}, path : Paths, page : Pages, export : Exports]
  <2>1. source.via = "google"
    BY <1>6
  <2>2. Load(source).kind = "text"
    BY <2>1 DEF Load, LoadUrl, LoadGoogle, Refused, Text
  <2> QED
    BY <1>1, <2>1, <2>2 DEF Reading, Readable
<1> QED
  BY <1>3, <1>4, <1>5, <1>6 DEF Sources

\* What a document's text was read as is what its file holds, for every file whose
\* name or content type says it, by whatever way it came.
THEOREM TextsAreReadable == LibrarySpec => []TextReadable
<1>1. LibraryInit => TextReadable
  BY DEF LibraryInit, TextReadable
<1>2. ASSUME LibraryInv, TextReadable, [LibraryNext \/ LibraryRestart]_libraryVars
      PROVE  TextReadable'
  <2>1. ASSUME NEW d \in Documents, NEW source \in asks.sources, Ingest(d, source), Create(d, source),
               Load(source).ok
        PROVE  TextReadable'
    <3>1. source \in Sources
      BY <1>2, <2>1 DEF LibraryInv, TypeInv, Asks
    <3>2. text' = [text EXCEPT ![d] = Reading(source)]
      BY <2>1 DEF Create
    <3> SUFFICES ASSUME NEW c \in Documents, text'[c] # None, text'[c].known
                 PROVE  Readable(text'[c].kind, text'[c].holds)
      BY DEF TextReadable
    <3>3. text'[c] = text[c] \/ text'[c] = Reading(source)
      BY <3>2
    <3>4. CASE text'[c] = Reading(source)
      BY <2>1, <3>1, <3>4, SourcesReadable
    <3>5. CASE text'[c] = text[c]
      BY <1>2, <3>5 DEF TextReadable
    <3> QED
      BY <3>3, <3>4, <3>5
  <2>2. CASE text' = text
    BY <1>2, <2>2 DEF TextReadable
  <2>3. CASE LibraryNext
    <3>1. CASE Request
      <4>1. ASSUME NEW d \in Documents, NEW source \in asks.sources, Ingest(d, source)
            PROVE  TextReadable'
        BY <2>1, <2>2, <4>1 DEF Ingest
      <4>2. ASSUME NEW d \in Documents, Reembed(d) \/ Delete(d)
            PROVE  text' = text
        BY <4>2 DEF Reembed, Delete
      <4> QED
        BY <2>2, <3>1, <4>1, <4>2 DEF Request
    <3>2. CASE Progress
      <4>1. ASSUME NEW d \in Documents, Enqueue(d) \/ EnqueueFails(d)
            PROVE  text' = text
        BY <4>1 DEF Enqueue, EnqueueFails, documentVars
      <4>2. ASSUME NEW s \in Slots, Run(s)
            PROVE  text' = text
        BY <4>2 DEF Run, Fetch, FindDocument, FindRejected, Embed, DeleteChunks, InsertChunks, Throws,
                    SetStatus, RowGone, FailureLost, Announce, documentVars
      <4>3. ASSUME NEW j \in DOMAIN jobs, Stall(j)
            PROVE  text' = text
        BY <4>3 DEF Stall, documentVars
      <4> QED
        BY <2>2, <3>2, <4>1, <4>2, <4>3 DEF Progress
    <3> QED
      BY <2>3, <3>1, <3>2 DEF LibraryNext
  <2> QED
    BY <1>2, <2>2, <2>3 DEF LibraryRestart, documentVars, libraryVars
<1> QED
  BY <1>1, <1>2, LibraryInvariant, PTL DEF LibrarySpec

-----------------------------------------------------------------------------
(* SignIn                                                                  *)

\* What the step of a request says of the tokens that it came with and made.
CallOK(call) ==
    /\ call.kind = "login" <=> call.old = 0
    /\ call.kind = "login" => call.step \in {"create", "answer", "error"}
    /\ call.kind = "logout" => call.new = 0 /\ call.step \in {"delete", "answer", "error"}
    /\ call.step \in {"find", "expired", "create", "refused", "error"} => call.new = 0
    /\ call.step \in {"delete", "answer"} /\ call.kind # "logout" => call.new # 0
    /\ call.step = "expired" => call.old \in stale
    /\ call.step = "refused" => call.old \notin tokens \ stale
    /\ call.step = "answer" => call.old \notin tokens \ adrift
    /\ call.step = "answer" /\ call.kind = "logout" => call.old \notin tokens

CallInv == \A r \in Pending : CallOK(request[r])

\* A token that was made for a request is stored, and nobody has it yet.
NewInv ==
    \A r \in Pending :
        request[r].new # 0 =>
            /\ request[r].new \in tokens /\ request[r].new # held
            /\ \A q \in Pending :
                  /\ request[q].old # request[r].new
                  /\ q # r => request[q].new # request[r].new

SignInInv == SignInTypeOK /\ CallInv /\ NewInv /\ SessionKept /\ OldTokensEnd

-----------------------------------------------------------------------------
\* A request under way is a record of its kind, step and tokens.
LEMMA PendingCall ==
  ASSUME SignInTypeOK, NEW r \in Pending
  PROVE  /\ r \in Requests /\ request[r] \in Calls
         /\ request[r].kind \in Kinds /\ request[r].step \in Steps
         /\ request[r].old \in 0 .. made /\ request[r].new \in 0 .. made
  BY DEF SignInTypeOK, Pending, Calls

\* At the start there is neither a token nor a request.
LEMMA SignInStarts == SignInInit => SignInInv
  BY DEF SignInInit, SignInInv, SignInTypeOK, CallInv, NewInv, SessionKept, OldTokensEnd, Pending, Ids

\* A new request: it has made nothing yet, and comes with what the device holds.
LEMMA AskStep ==
  ASSUME SignInInv, NEW r \in Requests, NEW call \in Calls,
         request[r] = Idle, request' = [request EXCEPT ![r] = call],
         call.new = 0, call.old \in {0, held},
         call.kind = "login" <=> call.old = 0,
         \/ call.kind = "login" /\ call.step = "create"
         \/ call.kind = "refresh" /\ call.step = "find"
         \/ call.kind = "logout" /\ call.step = "delete",
         UNCHANGED <<tokens, stale, made, held, adrift, spent>>
  PROVE  SignInInv'
<1> USE DEF SignInInv
<1>1. /\ Pending' = Pending \cup {r} /\ r \notin Pending
      /\ request'[r] = call /\ \A q \in Pending : request'[q] = request[q]
  BY SignInAssumption DEF Pending, SignInTypeOK
<1>2. SignInTypeOK'
  BY <1>1 DEF SignInTypeOK, Ids
<1>3. CallInv'
  BY <1>1 DEF CallInv, CallOK
<1>4. NewInv'
  BY <1>1 DEF NewInv
<1>5. SessionKept'
  BY <1>1 DEF SessionKept
<1>6. OldTokensEnd'
  BY <1>1 DEF OldTokensEnd
<1> QED
  BY <1>2, <1>3, <1>4, <1>5, <1>6

\* A request goes on: it stays the same request, and the others are as they were.
LEMMA MovesOn ==
  ASSUME SignInTypeOK, NEW r \in Pending, NEW call \in Calls,
         request' = [request EXCEPT ![r] = call]
  PROVE  /\ Pending' = Pending /\ request'[r] = call
         /\ \A q \in Pending \ {r} : request'[q] = request[q]
         /\ request' \in [Requests -> Calls \cup {Idle}]
  BY SignInAssumption DEF Pending, SignInTypeOK

\* A request ends: the others are as they were.
LEMMA Ended ==
  ASSUME SignInTypeOK, NEW r \in Pending, request' = [request EXCEPT ![r] = Idle]
  PROVE  /\ Pending' = Pending \ {r} /\ \A q \in Pending' : request'[q] = request[q]
         /\ request' \in [Requests -> Calls \cup {Idle}]
  BY DEF Pending, SignInTypeOK

\* The token is looked up, and refused or about to be replaced.
LEMMA FindStep == ASSUME SignInInv, NEW r \in Requests, FindToken(r) PROVE SignInInv'
<1> USE DEF SignInInv
<1> DEFINE step == request'[r].step
           call == [request[r] EXCEPT !.step = step]
<1>1. /\ r \in Pending /\ request[r].step = "find"
      /\ request' = [request EXCEPT ![r] = call]
      /\ step = IF request[r].old \notin tokens THEN "refused"
                ELSE IF request[r].old \in stale THEN "expired" ELSE "create"
      /\ UNCHANGED <<tokens, stale, made, held, wants, adrift, spent>>
  BY DEF FindToken, Is, Goes, Pending, SignInTypeOK, Calls
<1>2. /\ call \in Calls /\ call.kind = request[r].kind /\ call.old = request[r].old
      /\ call.new = request[r].new /\ call.step = step
  BY <1>1, PendingCall DEF Calls, Steps
<1> HIDE DEF call, step
<1>3. /\ Pending' = Pending /\ request'[r] = call
      /\ \A q \in Pending \ {r} : request'[q] = request[q]
      /\ request' \in [Requests -> Calls \cup {Idle}]
  BY <1>1, <1>2, MovesOn
<1>4. SignInTypeOK'
  BY <1>1, <1>2, <1>3 DEF SignInTypeOK, Ids
<1>5. CallInv'
  BY <1>1, <1>2, <1>3 DEF CallInv, CallOK
<1>6. NewInv'
  BY <1>1, <1>2, <1>3 DEF NewInv
<1>7. SessionKept'
  BY <1>1, <1>2, <1>3 DEF SessionKept
<1>8. OldTokensEnd'
  BY <1>1, <1>2, <1>3 DEF OldTokensEnd
<1> QED
  BY <1>4, <1>5, <1>6, <1>7, <1>8

\* A new token is the request's, and nobody else knows it.
LEMMA CreateStep == ASSUME SignInInv, NEW r \in Requests, CreateToken(r) PROVE SignInInv'
<1> USE DEF SignInInv
<1> DEFINE step == IF request[r].kind = "login" THEN "answer" ELSE "delete"
           call == [request[r] EXCEPT !.new = made + 1, !.step = step]
<1>1. /\ r \in Pending /\ request[r].step = "create"
      /\ request' = [request EXCEPT ![r] = call]
      /\ made' = made + 1 /\ tokens' = tokens \cup {made + 1}
      /\ UNCHANGED <<stale, held, wants, adrift, spent>>
  BY DEF CreateToken, Is, Pending, SignInTypeOK, Calls
<1>2. /\ call \in Calls /\ call.kind = request[r].kind /\ call.old = request[r].old
      /\ call.new = made + 1 /\ call.step = step
  <2>1. step \in Steps /\ made + 1 \in Nat
    BY DEF Steps, SignInTypeOK
  <2>2. request[r] \in Calls
    BY <1>1, PendingCall
  <2> HIDE DEF step
  <2> QED
    BY <2>1, <2>2 DEF Calls
<1>3. request[r].new = 0 /\ request[r].kind # "logout"
  BY <1>1 DEF CallInv, CallOK
<1> HIDE DEF call
<1>4. /\ Pending' = Pending /\ request'[r] = call
      /\ \A q \in Pending \ {r} : request'[q] = request[q]
      /\ request' \in [Requests -> Calls \cup {Idle}]
  BY <1>1, <1>2, MovesOn
<1>5. \A q \in Pending : request[q].old \in 0 .. made /\ request[q].new \in 0 .. made
  BY PendingCall
<1>6. held \in 0 .. made /\ made \in Nat /\ made + 1 \notin tokens \cup stale
  BY DEF SignInTypeOK, Ids
<1>7. SignInTypeOK'
  <2>1. \A q \in Pending' : request'[q].old \in 0 .. made' /\ request'[q].new \in 0 .. made'
    BY <1>1, <1>2, <1>4, <1>5, <1>6
  <2> QED
    BY <1>1, <1>4, <2>1 DEF SignInTypeOK, Ids
<1>8. CallInv'
  <2>1. \A q \in Pending : request[q].old # made + 1
    BY <1>5, <1>6
  <2>2. ASSUME NEW q \in Pending, q # r PROVE CallOK(request[q])'
    BY <1>1, <1>4, <2>1, <2>2 DEF CallInv, CallOK
  <2>3. request[r].kind = "login" => request[r].old = 0
    BY <1>1 DEF CallInv, CallOK
  <2>4. 0 \notin tokens' /\ made + 1 # 0
    BY <1>1, <1>6 DEF SignInTypeOK, Ids
  <2>5. request[r].kind \in Kinds
    BY <1>1, PendingCall
  <2>6. CallOK(request[r])'
    BY <1>1, <1>2, <1>3, <1>4, <2>3, <2>4, <2>5 DEF CallInv, CallOK, Kinds
  <2> QED
    BY <1>4, <2>2, <2>6 DEF CallInv
<1>9. NewInv'
  <2>1. \A q \in Pending : request[q].old # made + 1 /\ request[q].new # made + 1
    BY <1>5, <1>6
  <2>2. held # made + 1 /\ made + 1 # 0
    BY <1>6
  <2> QED
    BY <1>1, <1>2, <1>4, <2>1, <2>2 DEF NewInv
<1>10. SessionKept'
  BY <1>1, <1>2, <1>3, <1>4 DEF SessionKept
<1>11. OldTokensEnd'
  <2>1. {request[q].new : q \in Pending} \subseteq {request'[q].new : q \in Pending'} \cup {0}
    BY <1>2, <1>3, <1>4
  <2>2. made + 1 \in {request'[q].new : q \in Pending'}
    BY <1>1, <1>2, <1>4
  <2>3. 0 \notin tokens
    BY DEF SignInTypeOK, Ids
  <2> QED
    BY <1>1, <2>1, <2>2, <2>3 DEF OldTokensEnd
<1> QED
  BY <1>7, <1>8, <1>9, <1>10, <1>11

\* The token that a request came with is deleted: nobody is to have another copy
\* that could be refreshed.
LEMMA DeleteTokenStep == ASSUME SignInInv, NEW r \in Requests, DeleteToken(r) PROVE SignInInv'
<1> USE DEF SignInInv
<1> DEFINE step == IF request[r].step = "expired" THEN "refused" ELSE "answer"
           call == [request[r] EXCEPT !.step = step]
<1>1. /\ r \in Pending /\ request[r].step \in {"expired", "delete"}
      /\ request' = [request EXCEPT ![r] = call]
      /\ tokens' = tokens \ {request[r].old}
      /\ UNCHANGED <<stale, made, held, wants, adrift, spent>>
  BY DEF DeleteToken, Is, Goes, Pending, SignInTypeOK, Calls
<1>2. /\ call \in Calls /\ call.kind = request[r].kind /\ call.old = request[r].old
      /\ call.new = request[r].new /\ call.step = step
  BY <1>1, PendingCall DEF Calls, Steps
<1> HIDE DEF call
<1>3. /\ Pending' = Pending /\ request'[r] = call
      /\ \A q \in Pending \ {r} : request'[q] = request[q]
      /\ request' \in [Requests -> Calls \cup {Idle}]
  BY <1>1, <1>2, MovesOn
<1>4. \A q \in Pending : request'[q].old = request[q].old /\ request'[q].new = request[q].new
  BY <1>2, <1>3
<1>5. SignInTypeOK'
  BY <1>1, <1>3, <1>4 DEF SignInTypeOK, Ids
<1>6. CallInv'
  <2>1. ASSUME NEW q \in Pending, q # r PROVE CallOK(request[q])'
    BY <1>1, <1>3, <2>1 DEF CallInv, CallOK
  <2>2. CallOK(request[r])'
    BY <1>1, <1>2, <1>3 DEF CallInv, CallOK
  <2> QED
    BY <1>3, <2>1, <2>2 DEF CallInv
<1>7. NewInv'
  BY <1>1, <1>3, <1>4 DEF NewInv
<1>8. SessionKept'
  <2>1. ASSUME NEW q \in Pending, request[q].step \in {"answer", "refused"}
        PROVE  request'[q].step \in {"answer", "refused"}
    BY <1>1, <1>3, <2>1
  <2>2. request'[r].step \in {"answer", "refused"} /\ request'[r].old = request[r].old
    BY <1>2, <1>3
  <2> QED
    BY <1>1, <1>3, <1>4, <2>1, <2>2 DEF SessionKept
<1>9. OldTokensEnd'
  BY <1>1, <1>3, <1>4 DEF OldTokensEnd
<1> QED
  BY <1>5, <1>6, <1>7, <1>8, <1>9

\* A statement fails, and leaves at most the token adrift that was to be deleted.
LEMMA FailStep == ASSUME SignInInv, NEW r \in Requests, StatementFails(r) PROVE SignInInv'
<1> USE DEF SignInInv
<1> DEFINE step == request'[r].step
           call == [request[r] EXCEPT !.step = step]
<1>1. /\ r \in Pending /\ request' = [request EXCEPT ![r] = call]
      /\ \/ request[r].step \in {"find", "create"} /\ step = "error" /\ adrift' = adrift
         \/ request[r].step = "expired" /\ step = "refused" /\ adrift' = adrift
         \/ /\ request[r].step = "delete" /\ request[r].kind = "refresh" /\ step = "answer"
            /\ adrift' = adrift \cup {request[r].old}
         \/ /\ request[r].step = "delete" /\ request[r].kind = "logout" /\ step = "error"
            /\ adrift' = adrift
      /\ UNCHANGED <<tokens, stale, made, held, spent>>
  BY DEF StatementFails, Is, Goes, Pending, SignInTypeOK, Calls
<1>2. /\ call \in Calls /\ call.kind = request[r].kind /\ call.old = request[r].old
      /\ call.new = request[r].new /\ call.step = step
  <2>1. step \in Steps
    BY <1>1 DEF Steps
  <2> HIDE DEF step
  <2> QED
    BY <1>1, <2>1, PendingCall DEF Calls
<1> HIDE DEF call, step
<1>3. /\ Pending' = Pending /\ request'[r] = call
      /\ \A q \in Pending \ {r} : request'[q] = request[q]
      /\ request' \in [Requests -> Calls \cup {Idle}]
  BY <1>1, <1>2, MovesOn
<1>4. \A q \in Pending : request'[q].old = request[q].old /\ request'[q].new = request[q].new
  BY <1>2, <1>3
<1>5. adrift \subseteq adrift' /\ adrift' \subseteq Ids
  <2>1. request[r].kind = "refresh" => request[r].old \in Ids
    BY <1>1, PendingCall DEF CallInv, CallOK, SignInTypeOK, Ids
  <2> QED
    BY <1>1, <2>1 DEF SignInTypeOK
<1>6. SignInTypeOK'
  BY <1>1, <1>3, <1>4, <1>5 DEF SignInTypeOK, Ids
<1>7. CallInv'
  <2>1. ASSUME NEW q \in Pending, q # r PROVE CallOK(request[q])'
    BY <1>1, <1>3, <1>5, <2>1 DEF CallInv, CallOK
  <2>2. CallOK(request[r])'
    BY <1>1, <1>2, <1>3 DEF CallInv, CallOK
  <2> QED
    BY <1>3, <2>1, <2>2 DEF CallInv
<1>8. NewInv'
  BY <1>1, <1>3, <1>4 DEF NewInv
<1>9. SessionKept'
  <2>1. ASSUME NEW q \in Pending, request[q].step \in {"answer", "refused"}
        PROVE  request'[q].step \in {"answer", "refused"}
    BY <1>1, <1>3, <2>1
  <2> QED
    BY <1>1, <1>3, <1>4, <2>1 DEF SessionKept
<1>10. OldTokensEnd'
  BY <1>1, <1>3, <1>4, <1>5 DEF OldTokensEnd
<1> QED
  BY <1>6, <1>7, <1>8, <1>9, <1>10

\* An answer arrives.  What the device had before is no good, is adrift, or stays.
LEMMA AnswerStep == ASSUME SignInInv, NEW r \in Requests, Answer(r) PROVE SignInInv'
<1> USE DEF SignInInv
<1> DEFINE old == request[r].old
           new == request[r].new
<1>1. r \in Pending /\ request' = [request EXCEPT ![r] = Idle]
  BY DEF Answer, Pending
<1>2. /\ Pending' = Pending \ {r} /\ \A q \in Pending' : request'[q] = request[q]
      /\ request' \in [Requests -> Calls \cup {Idle}]
  BY <1>1, Ended
<1>3. UNCHANGED <<tokens, stale, made, spent>>
  BY DEF Answer
<1>4. /\ old \in 0 .. made /\ new \in 0 .. made /\ held \in 0 .. made
      /\ CallOK(request[r]) /\ 0 \notin tokens
  BY <1>1, PendingCall DEF CallInv, SignInTypeOK, Ids
<1>5. \/ /\ request[r].step = "answer" /\ request[r].kind = "login"
         /\ held' = new /\ adrift' = adrift \cup ({held} \ {0})
      \/ /\ request[r].step = "answer" /\ request[r].kind = "refresh"
         /\ held' = IF held = old THEN new ELSE held
         /\ adrift' = IF held = old THEN adrift ELSE adrift \cup {new}
      \/ /\ \/ request[r].step = "answer" /\ request[r].kind = "logout"
            \/ request[r].step = "refused"
         /\ held' = IF held = old THEN 0 ELSE held
         /\ adrift' = adrift
      \/ request[r].step = "error" /\ held' = held /\ adrift' = adrift
  BY DEF Answer, Is
<1>6. /\ held' \in {held, new, 0} /\ adrift \subseteq adrift'
      /\ adrift' \subseteq Ids
  <2>1. request[r].step = "answer" /\ request[r].kind # "logout" => new \in tokens /\ new \in Ids
    BY <1>1, <1>4 DEF CallOK, NewInv, SignInTypeOK
  <2>2. held # 0 => held \in Ids
    BY <1>4 DEF SignInTypeOK, Ids
  <2>3. adrift' \subseteq Ids
    BY <1>5, <2>1, <2>2 DEF SignInTypeOK
  <2>4. held' \in {held, new, 0} /\ adrift \subseteq adrift'
    BY <1>5
  <2> QED
    BY <2>3, <2>4
<1>7. SignInTypeOK'
  BY <1>2, <1>3, <1>4, <1>6 DEF SignInTypeOK, Ids
<1>8. CallInv'
  BY <1>2, <1>3, <1>6 DEF CallInv, CallOK
<1>9. NewInv'
  BY <1>1, <1>2, <1>3, <1>6 DEF NewInv
<1>10. SessionKept'
  BY <1>1, <1>2, <1>3, <1>4, <1>5 DEF SessionKept, NewInv, CallOK
<1>11. OldTokensEnd'
  <2>1. ASSUME NEW t \in tokens, t \notin stale \cup adrift',
               \A q \in Pending \ {r} : t # request[q].new
        PROVE  t = held'
    <3>1. t = held \/ t = new
      BY <1>6, <2>1 DEF OldTokensEnd
    <3>2. CASE t = new
      BY <1>4, <1>5, <2>1, <3>2 DEF CallOK
    <3>3. CASE t = held
      BY <1>4, <1>5, <2>1, <3>3 DEF CallOK
    <3> QED
      BY <3>1, <3>2, <3>3
  <2> QED
    BY <1>2, <1>3, <2>1 DEF OldTokensEnd
<1> QED
  BY <1>7, <1>8, <1>9, <1>10, <1>11

\* Answers do not arrive: what the requests made is adrift, and a token that they
\* took away is spent.
LEMMA UnansweredStep ==
  ASSUME SignInInv, NEW R, R \subseteq Pending, Unanswered(R),
         Pending' = Pending \ R, \A q \in Pending' : request'[q] = request[q],
         request' \in [Requests -> Calls \cup {Idle}],
         UNCHANGED <<tokens, stale, made, held>>
  PROVE  SignInInv'
<1> USE DEF SignInInv
<1>1. \A q \in Pending : request[q].old \in 0 .. made /\ request[q].new \in 0 .. made
  BY PendingCall
<1>2. SignInTypeOK'
  <2>1. \A q \in R : request[q].new \in Ids \cup {0} /\ request[q].old \in Ids \cup {0}
    BY <1>1 DEF Ids, SignInTypeOK
  <2>2. adrift' \subseteq Ids /\ spent' \subseteq Ids
    BY <2>1 DEF Unanswered, SignInTypeOK
  <2> QED
    BY <1>1, <2>2 DEF SignInTypeOK, Ids
<1>3. CallInv'
  BY DEF CallInv, CallOK, Unanswered
<1>4. NewInv'
  BY DEF NewInv
<1>5. SessionKept'
  BY DEF SessionKept, Unanswered
<1>6. OldTokensEnd'
  <2>1. 0 \notin tokens
    BY DEF SignInTypeOK, Ids
  <2> QED
    BY <2>1 DEF OldTokensEnd, Unanswered
<1> QED
  BY <1>2, <1>3, <1>4, <1>5, <1>6

\* A token expires.
LEMMA ExpireStep == ASSUME SignInInv, NEW t \in Ids, Expire(t) PROVE SignInInv'
  BY DEF SignInInv, Expire, SignInTypeOK, CallInv, CallOK, NewInv, SessionKept, OldTokensEnd, Pending, Ids

\* Every step of SignIn preserves the invariant.
LEMMA SignInSteps == ASSUME SignInInv, SignInNext \/ SignInRestart PROVE SignInInv'
<1>1. ASSUME NEW r \in Requests, AskLogin(r) PROVE SignInInv'
  <2> DEFINE call == [kind |-> "login", step |-> "create", old |-> 0, new |-> 0]
  <2>1. call \in Calls
    BY DEF Calls, Kinds, Steps
  <2> QED
    BY <1>1, <2>1, AskStep DEF AskLogin
<1>2. ASSUME NEW r \in Requests, NEW kind \in {"refresh", "logout"}, AskWithToken(r, kind)
      PROVE  SignInInv'
  <2> DEFINE call == [kind |-> kind, step |-> IF kind = "refresh" THEN "find" ELSE "delete",
                      old |-> held, new |-> 0]
  <2>1. call \in Calls
    BY DEF Calls, Kinds, Steps, SignInInv, SignInTypeOK
  <2>2. held # 0 /\ request[r] = Idle /\ request' = [request EXCEPT ![r] = call]
        /\ UNCHANGED <<tokens, stale, made, held, adrift, spent>>
    BY <1>2 DEF AskWithToken
  <2> QED
    BY <2>1, <2>2, AskStep
<1>3. ASSUME NEW r \in Requests, AnswerLost(r) PROVE SignInInv'
  <2>1. r \in Pending /\ request' = [request EXCEPT ![r] = Idle]
    BY <1>3 DEF AnswerLost, Pending
  <2>2. /\ Pending' = Pending \ {r} /\ \A q \in Pending' : request'[q] = request[q]
        /\ request' \in [Requests -> Calls \cup {Idle}]
    BY <2>1, Ended DEF SignInInv
  <2> QED
    BY <1>3, <2>1, <2>2, UnansweredStep DEF AnswerLost
<1>4. CASE SignInRestart
  <2>1. Pending' = {} /\ request' \in [Requests -> Calls \cup {Idle}]
    BY <1>4 DEF SignInRestart, Pending
  <2> QED
    BY <1>4, <2>1, UnansweredStep DEF SignInRestart, Pending
<1> QED
  BY <1>1, <1>2, <1>3, <1>4, FindStep, CreateStep, DeleteTokenStep, FailStep, AnswerStep, ExpireStep
     DEF SignInNext

\* The invariant holds of every behaviour.
THEOREM SignInInvariant == SignInSpec => []SignInInv
<1>1. SignInInv /\ UNCHANGED signInVars => SignInInv'
  BY DEF signInVars, SignInInv, SignInTypeOK, CallInv, CallOK, NewInv, SessionKept, OldTokensEnd, Pending, Ids
<1>2. SignInInv /\ [SignInNext \/ SignInRestart]_signInVars => SignInInv'
  BY <1>1, SignInSteps
<1> QED
  BY SignInStarts, <1>2, PTL DEF SignInSpec

\* Tokens and requests keep their types: every token that a request, the device or
\* the history names was made.
THEOREM SignInTypeCorrect == SignInSpec => []SignInTypeOK
  BY SignInInvariant, PTL DEF SignInInv

\* AuthService.refresh: the token on the device can be refreshed, whatever statements
\* fail and requests overlap, but for the named cases.
THEOREM SessionIsKept == SignInSpec => []SessionKept
  BY SignInInvariant, PTL DEF SignInInv

\* AuthService.refresh and logout: no token that can be refreshed is left behind, but
\* for the named cases.
THEOREM OldTokensDoEnd == SignInSpec => []OldTokensEnd
  BY SignInInvariant, PTL DEF SignInInv

-----------------------------------------------------------------------------
(* Presence and Names                                                      *)

PresenceInv == PresenceTypeOK /\ InflightMeansCall

-----------------------------------------------------------------------------
\* Nothing waits for a promise once it was resolved and given.
LEMMA SettleStep ==
  ASSUME PresenceInv, NEW answer \in Answers, Settle(answer),
         UNCHANGED <<socket, registered, unready>>, cache' \in {"known", "empty"}
  PROVE  PresenceInv'
<1> USE DEF PresenceInv
<1>1. /\ question' \in [Questions -> {"none", "cache", "map", "promise"}]
      /\ \A q \in Questions : question'[q] # "promise"
      /\ answers' \in Answers \cup {"none"} /\ inflight' = "absent"
  BY DEF Settle, Told, PresenceTypeOK
<1>2. PresenceTypeOK'
  BY <1>1 DEF PresenceTypeOK
<1>3. InflightMeansCall'
  BY <1>1 DEF InflightMeansCall, Answers
<1> QED
  BY <1>2, <1>3

\* The rooms: nothing waits that did not before.
LEMMA SocketStep ==
  ASSUME PresenceInv, NEW s \in Sockets,
         Connect(s) \/ Verify(s) \/ Disconnect(s) \/ \E q \in Questions : AskLastOnline(s, q)
  PROVE  PresenceInv'
<1> USE DEF PresenceInv
<1>1. CASE Connect(s) \/ Verify(s) \/ Disconnect(s)
  <2>1. socket' \in [Sockets -> {"gone", "verifying", "joined"}]
    BY <1>1 DEF Connect, Verify, Disconnect, PresenceTypeOK
  <2> QED
    BY <1>1, <2>1 DEF Connect, Verify, Disconnect, PresenceTypeOK, InflightMeansCall
<1>2. ASSUME NEW q \in Questions, AskLastOnline(s, q) PROVE PresenceInv'
  <2>1. /\ question' \in [Questions -> {"none", "cache", "map", "promise"}]
        /\ \A p \in Questions : question'[p] = "promise" => question[p] = "promise"
    BY <1>2 DEF AskLastOnline, PresenceTypeOK
  <2> QED
    BY <1>2, <2>1 DEF AskLastOnline, PresenceTypeOK, InflightMeansCall
<1> QED
  BY <1>1, <1>2

\* A question that finds the answer, or goes on to the map.
LEMMA ReadStep == ASSUME PresenceInv, NEW q \in Questions, ReadCache(q) PROVE PresenceInv'
<1> USE DEF PresenceInv
<1>1. /\ question' \in [Questions -> {"none", "cache", "map", "promise"}]
      /\ \A p \in Questions : question'[p] = "promise" => question[p] = "promise"
      /\ answers' \in Answers \cup {"none"}
  BY DEF ReadCache, Told, PresenceTypeOK, Answers
<1> QED
  BY <1>1 DEF ReadCache, PresenceTypeOK, InflightMeansCall

\* A question that shares a promise or makes the call.
LEMMA ShareStep == ASSUME PresenceInv, NEW q \in Questions, ShareOrCall(q) PROVE PresenceInv'
<1> USE DEF PresenceInv
<1>1. UNCHANGED <<socket, registered, cache, demands>>
  BY DEF ShareOrCall
<1>2. CASE /\ inflight \in UnderWay /\ inflight' = inflight
           /\ question' = [question EXCEPT ![q] = "promise"] /\ UNCHANGED <<answers, unready>>
  BY <1>1, <1>2 DEF PresenceTypeOK, InflightMeansCall, UnderWay, Answers
<1>3. CASE /\ inflight' = "asking"
           /\ question' = [question EXCEPT ![q] = "promise"] /\ UNCHANGED <<answers, unready>>
  BY <1>1, <1>3 DEF PresenceTypeOK, InflightMeansCall, UnderWay, Answers
<1>4. ASSUME NEW answer \in Answers, Told({q}, answer), inflight \notin UnderWay
      PROVE  /\ question' \in [Questions -> {"none", "cache", "map", "promise"}]
             /\ \A p \in Questions : question'[p] # "promise"
             /\ answers' \in Answers \cup {"none"}
  BY <1>4 DEF Told, PresenceTypeOK, InflightMeansCall
<1>5. CASE inflight \in Answers /\ Told({q}, inflight) /\ UNCHANGED <<inflight, unready>>
  <2>1. inflight \notin UnderWay
    BY <1>5 DEF Answers, UnderWay
  <2> QED
    BY <1>1, <1>4, <1>5, <2>1 DEF PresenceTypeOK, InflightMeansCall
<1>6. CASE inflight = "absent" /\ inflight' = "nothing" /\ unready' = TRUE /\ Told({q}, "nothing")
  BY <1>1, <1>4, <1>6 DEF PresenceTypeOK, InflightMeansCall, Answers, UnderWay
<1> QED
  BY <1>2, <1>3, <1>5, <1>6 DEF ShareOrCall

\* Every step of Presence preserves the invariant.
LEMMA PresenceSteps == ASSUME PresenceInv, PresenceNext \/ PresenceRestart PROVE PresenceInv'
<1>1. CASE ZaloAnswers
  BY <1>1 DEF PresenceInv, ZaloAnswers, PresenceTypeOK, InflightMeansCall, UnderWay, Answers
<1>2. CASE ZaloFails
  BY <1>2, SettleStep DEF PresenceInv, ZaloFails, PresenceTypeOK, Answers
<1>3. CASE StoreAnswer
  BY <1>3, SettleStep DEF PresenceInv, StoreAnswer, PresenceTypeOK, Answers
<1>4. CASE CacheLapses \/ AccountChanges
  BY <1>4 DEF PresenceInv, CacheLapses, AccountChanges, PresenceTypeOK, InflightMeansCall
<1>5. CASE PresenceRestart
  BY <1>5 DEF PresenceInv, PresenceRestart, PresenceTypeOK, InflightMeansCall, Answers
<1> QED
  BY <1>1, <1>2, <1>3, <1>4, <1>5, SocketStep, ReadStep, ShareStep DEF PresenceNext

\* The invariant holds of every behaviour.
THEOREM PresenceInvariant == PresenceSpec => []PresenceInv
<1>1. PresenceInit => PresenceInv
  BY DEF PresenceInit, PresenceInv, PresenceTypeOK, InflightMeansCall, Answers
<1>2. PresenceInv /\ UNCHANGED presenceVars => PresenceInv'
  BY DEF presenceVars, PresenceInv, PresenceTypeOK, InflightMeansCall
<1>3. PresenceInv /\ [PresenceNext \/ PresenceRestart]_presenceVars => PresenceInv'
  BY <1>2, PresenceSteps
<1> QED
  BY <1>1, <1>3, PTL DEF PresenceSpec

\* Sockets, questions and the map keep their types.
THEOREM PresenceTypeCorrect == PresenceSpec => []PresenceTypeOK
  BY PresenceInvariant, PTL DEF PresenceInv

\* ZaloZcaService.getLastOnline: whoever waits for a promise waits for a call that is
\* under way, and no answer stays in the map but the one of an unregistered account.
THEOREM PromisesAreCalls == PresenceSpec => []InflightMeansCall
  BY PresenceInvariant, PTL DEF PresenceInv

-----------------------------------------------------------------------------
(* Names                                                                   *)

\* What the kind and the step of an errand say of the name it has.
Carries(x) ==
    LET n == x.got["thread"] IN
    /\ x.kind = "alias" => x.step \in {"call", "save", "find", "title"} /\ n \in Names
    /\ x.kind = "unalias" =>
          /\ x.step \in {"read", "call", "save", "find", "title"}
          /\ x.step \in {"read", "call"} => n = Unnamed
          /\ x.step \in {"call", "save"} => x.copy.name # Unnamed
          /\ x.step \in {"find", "title"} => n \in Called
    /\ x.kind \in {"message", "echo"} => x.step \in {"resolve", "member"}
    /\ x.kind = "open" => x.step \in {"title", "member"} /\ n \in Names
    /\ x.kind = "sync" =>
          /\ x.step \in {"fetch", "read", "save"}
          /\ x.step # "fetch" => n \in Names /\ x.zalo \in Names
    /\ x.kind = "add" =>
          x.step \in {"profile", "save", "find"} /\ (x.step # "profile" => n \in Called)
    /\ x.copy.name = Unnamed <=> x.copy.id = 0
    /\ x.copy.name = Unnamed => x.copy.zalo = Unnamed

\* What an undisturbed errand has is the contact's name, if there is a contact.
Agrees(x) ==
    contact.id # 0 =>
        /\ x.kind \in {"alias", "unalias"} /\ x.step \in {"find", "title"} =>
              x.got["thread"] = contact.name
        /\ x.kind = "open" /\ x.step = "title" => x.got["thread"] = contact.name
        /\ x.step = "resolve" =>
              /\ x.ask["thread"] \in {"contact", "done"}
              /\ x.ask["thread"] = "done" => x.got["thread"] = contact.name

Busy == {e \in Errands : errand[e] # Free}
ErrandsInv ==
    /\ errand \in [Errands -> ErrandRecords \cup {Free}]
    /\ \A e \in Busy :
          /\ Carries(errand[e])
          /\ errand[e].alone => Busy = {e} /\ Agrees(errand[e])

\* TitleAgrees, while errands are under way: one may be about to write the title.
TitleInv ==
    contact.id # 0 /\ title # Unnamed =>
        title = contact.name \/ behind \/ \E e \in Errands : HalfWritten(e)

RowsInv ==
    /\ person \in [name : Names, alias : Names \cup {Unnamed}]
    /\ profile \in Names \cup {Unnamed}
    /\ contact \in ContactRows /\ contact.id \in 0 .. ids
    /\ contact.name = Unnamed <=> contact.id = 0
    /\ contact.name = Unnamed => contact.zalo = Unnamed
    /\ {title, member} \subseteq Called \cup {Unnamed}
    /\ ids \in Nat /\ wanted \in Names \cup {Unnamed} /\ {lost, behind} \subseteq BOOLEAN

NamesInv == ErrandsInv /\ RowsInv /\ TitleInv /\ AliasKept

\* An errand goes on: what it knew of the contact stays right, and if it was alone
\* it still is.
LEMMA ErrandGoesOn ==
  ASSUME ErrandsInv, NEW e \in Busy, NEW x \in ErrandRecords,
         Proceeds(e, x), Carries(x), x.alone = errand[e].alone,
         x.alone => Agrees(x)'
  PROVE  /\ ErrandsInv' /\ errand'[e] = x
         /\ \A d \in Errands \ {e} : errand'[d] = errand[d]
<1>1. /\ Busy' = Busy /\ errand'[e] = x
      /\ \A d \in Errands \ {e} : errand'[d] = errand[d]
      /\ errand' \in [Errands -> ErrandRecords \cup {Free}]
  BY NamesAssumption DEF Proceeds, ErrandsInv, Busy
<1>2. ASSUME NEW d \in Busy' PROVE Carries(errand'[d])
  BY <1>1, <1>2 DEF ErrandsInv, Busy
<1>3. ASSUME NEW d \in Busy', errand'[d].alone PROVE Busy' = {d} /\ Agrees(errand[d])'
  <2>1. CASE d = e
    BY <1>1, <1>3, <2>1 DEF ErrandsInv
  <2>2. CASE d # e
    BY <1>1, <1>3, <2>2 DEF ErrandsInv, Busy
  <2> QED
    BY <2>1, <2>2
<1> QED
  BY <1>1, <1>2, <1>3 DEF ErrandsInv, Carries, Agrees

\* An errand ends: no other one was alone.
LEMMA ErrandEnds ==
  ASSUME ErrandsInv, NEW e \in Busy, Finishes(e)
  PROVE  /\ ErrandsInv'
         /\ errand'[e] = Free /\ \A d \in Errands \ {e} : errand'[d] = errand[d]
<1>1. /\ Busy' = Busy \ {e} /\ errand'[e] = Free
      /\ \A d \in Errands \ {e} : errand'[d] = errand[d]
      /\ errand' \in [Errands -> ErrandRecords \cup {Free}]
  BY DEF Finishes, ErrandsInv, Busy
<1>2. ASSUME NEW d \in Busy' PROVE Carries(errand'[d]) /\ ~errand'[d].alone
  BY <1>1, <1>2 DEF ErrandsInv, Busy
<1> QED
  BY <1>1, <1>2 DEF ErrandsInv, Carries, Agrees

\* After a disturbance nothing is alone.
LEMMA Disturbs ==
  ASSUME ErrandsInv
  PROVE  /\ Disturbed \in [Errands -> ErrandRecords \cup {Free}]
         /\ \A e \in Errands : Disturbed[e] = Free <=> errand[e] = Free
         /\ \A e \in Busy :
               /\ Carries(Disturbed[e]) /\ ~Disturbed[e].alone
               /\ Disturbed[e].kind = errand[e].kind /\ Disturbed[e].step = errand[e].step
<1>1. ASSUME NEW e \in Busy
      PROVE  /\ Disturbed[e] = [errand[e] EXCEPT !.alone = FALSE]
             /\ errand[e] \in ErrandRecords /\ Carries(errand[e])
  BY DEF Disturbed, Busy, ErrandsInv
<1>2. ASSUME NEW e \in Busy
      PROVE  /\ Disturbed[e] \in ErrandRecords /\ Disturbed[e].alone = FALSE
             /\ Disturbed[e].kind = errand[e].kind /\ Disturbed[e].step = errand[e].step
             /\ Disturbed[e].got = errand[e].got /\ Disturbed[e].copy = errand[e].copy
             /\ Disturbed[e].zalo = errand[e].zalo
  BY <1>1 DEF ErrandRecords
<1>3. ASSUME NEW e \in Busy PROVE Carries(Disturbed[e])
  BY <1>1, <1>2 DEF Carries
<1>4. \A e \in Errands \ Busy : Disturbed[e] = Free /\ errand[e] = Free
  BY DEF Disturbed, Busy
<1>5. \A e \in Busy : Disturbed[e] # Free /\ errand[e] # Free
  BY <1>2, NamesAssumption DEF Busy
<1>6. Disturbed \in [Errands -> ErrandRecords \cup {Free}]
  BY <1>2, <1>4 DEF Disturbed, Busy
<1> QED
  BY <1>2, <1>3, <1>4, <1>5, <1>6 DEF Busy

\* Rows that are not written keep what is said of them.
LEMMA RowsStay ==
  ASSUME RowsInv, AliasKept, UNCHANGED <<person, nameRows, namesHistory>>,
         profile' \in Names \cup {Unnamed}
  PROVE  RowsInv' /\ AliasKept'
  BY DEF RowsInv, AliasKept, nameRows, namesHistory

\* A title that lags behind is excused for as long as whoever will write it is busy.
LEMMA TitleStays ==
  ASSUME TitleInv, UNCHANGED <<contact, title, behind>>,
         \A d \in Errands : HalfWritten(d) => HalfWritten(d)'
  PROVE  TitleInv'
  BY DEF TitleInv

\* A new errand.
LEMMA StartStep ==
  ASSUME NamesInv, NEW e \in Errands, NEW kind, NEW step, NEW ask, NEW n,
         Starts(e, kind, step, ask, n),
         \/ kind = "alias" /\ step = "call" /\ n \in Names
         \/ kind = "unalias" /\ step = "read" /\ n = Unnamed
         \/ /\ kind \in {"message", "echo"} /\ step = "resolve" /\ "thread" \in ask
            /\ n \in Called \cup {Unnamed}
         \/ kind = "open" /\ step = "title" /\ n \in Names
         \/ kind = "sync" /\ step = "fetch" /\ n = Unnamed
         \/ kind = "add" /\ step = "profile" /\ n = Unnamed
  PROVE  NamesInv'
<1> USE DEF NamesInv
<1> DEFINE x == [kind |-> kind, step |-> step,
                 ask |-> [s \in Subjects |-> IF s \in ask THEN "contact" ELSE "done"],
                 got |-> [s \in Subjects |-> n], copy |-> NoContact, zalo |-> Unnamed,
                 alone |-> /\ \A d \in Errands : errand[d] = Free
                           /\ kind = "open" /\ contact.id # 0 => n = contact.name]
<1>1. errand[e] = Free /\ errand' = [Disturbed EXCEPT ![e] = x]
  BY DEF Starts
<1>2. UNCHANGED <<zaloSide, nameRows, namesHistory>>
  BY DEF Starts
<1>3. x \in ErrandRecords
  <2>1. n \in Called \cup {Unnamed} /\ NoContact \in ContactRows
    BY DEF Called, NoContact, ContactRows
  <2>2. /\ [s \in Subjects |-> IF s \in ask THEN "contact" ELSE "done"] \in [Subjects -> Lookups]
        /\ [s \in Subjects |-> n] \in [Subjects -> Called \cup {Unnamed}]
    BY <2>1 DEF Lookups
  <2> QED
    BY <2>1, <2>2 DEF ErrandRecords
<1>4. PICK y \in ErrandRecords : y = x
  BY <1>3
<1>5. /\ y.got["thread"] = n /\ y.kind = kind /\ y.step = step /\ y.copy = NoContact
      /\ y.ask["thread"] = IF "thread" \in ask THEN "contact" ELSE "done"
      /\ y.alone <=> /\ \A d \in Errands : errand[d] = Free
                     /\ kind = "open" /\ contact.id # 0 => n = contact.name
  BY <1>4 DEF Subjects
<1>6. Carries(y)
  BY <1>5 DEF Carries, NoContact, Called
<1>7. y.alone => Agrees(y)'
  BY <1>2, <1>5 DEF Agrees, nameRows
<1>8. /\ errand'[e] = y /\ \A d \in Errands \ {e} : errand'[d] = Disturbed[d]
      /\ errand' \in [Errands -> ErrandRecords \cup {Free}] /\ Busy' = Busy \cup {e}
      /\ e \notin Busy
  BY <1>1, <1>4, Disturbs, NamesAssumption DEF Busy
<1>9. ErrandsInv'
  <2>1. ASSUME NEW d \in Busy' PROVE Carries(errand'[d])
    BY <1>6, <1>8, <2>1, Disturbs DEF Busy
  <2>2. ASSUME NEW d \in Busy', errand'[d].alone PROVE Busy' = {d} /\ Agrees(errand[d])'
    <3>1. d = e
      BY <1>8, <2>2, Disturbs DEF Busy
    <3>2. Busy = {}
      BY <1>5, <1>8, <2>2, <3>1 DEF Busy
    <3> QED
      BY <1>7, <1>8, <2>2, <3>1, <3>2 DEF Agrees
  <2> QED
    BY <1>8, <2>1, <2>2 DEF ErrandsInv, Carries, Agrees
<1>10. \A d \in Errands : HalfWritten(d) => HalfWritten(d)'
  <2>1. ASSUME NEW d \in Errands, HalfWritten(d) PROVE HalfWritten(d)'
    <3>1. d \in Busy /\ d # e
      BY <1>1, <2>1 DEF HalfWritten, Takes, Busy
    <3> QED
      BY <1>8, <2>1, <3>1, Disturbs, NamesAssumption DEF HalfWritten, Takes, Doing, Busy
  <2> QED
    BY <2>1
<1> QED
  BY <1>2, <1>9, <1>10, RowsStay, TitleStays DEF zaloSide, nameRows, namesHistory, RowsInv

\* A request, a message, a sync or an event.
LEMMA AskErrand == ASSUME NamesInv, NEW e \in Errands, Ask(e) PROVE NamesInv'
<1>1. Displayed \subseteq Names
  BY DEF NamesInv, RowsInv, Displayed
<1> QED
  BY <1>1, StartStep DEF Ask, Subjects, Called

\* What is known of an errand that is under way.
LEMMA BusyErrand ==
  ASSUME ErrandsInv, NEW e \in Errands, errand[e] # Free
  PROVE  /\ e \in Busy /\ errand[e] \in ErrandRecords /\ Carries(errand[e])
         /\ errand[e].alone => Agrees(errand[e])
  BY DEF Busy, ErrandsInv

\* An errand that reads, or asks Zalo.
LEMMA QuietStep ==
  ASSUME NamesInv, NEW e \in Busy, NEW x \in ErrandRecords, Proceeds(e, x),
         Carries(x), x.alone = errand[e].alone, x.alone => Agrees(x),
         UNCHANGED <<nameRows, namesHistory>>,
         person' \in [name : Names, alias : Names \cup {Unnamed}],
         profile' \in Names \cup {Unnamed},
         HalfWritten(e) => x.kind \in {"alias", "unalias"} /\ x.step \in {"find", "title"}
  PROVE  NamesInv'
<1> USE DEF NamesInv
<1>1. x.alone => Agrees(x)'
  BY DEF Agrees, nameRows
<1>2. /\ ErrandsInv' /\ errand'[e] = x
      /\ \A d \in Errands \ {e} : errand'[d] = errand[d]
  BY <1>1, ErrandGoesOn
<1>3. \A d \in Errands : HalfWritten(d) => HalfWritten(d)'
  BY <1>2, NamesAssumption DEF HalfWritten, Takes, Doing
<1>4. TitleInv'
  BY <1>3, TitleStays DEF nameRows, namesHistory
<1> QED
  BY <1>2, <1>4 DEF RowsInv, AliasKept, nameRows, namesHistory

\* An errand that ends without having written: if it meant to write a title there
\* is no chat.
LEMMA QuietEnd ==
  ASSUME NamesInv, NEW e \in Busy, Finishes(e), UNCHANGED <<zaloSide, nameRows, namesHistory>>,
         title = Unnamed \/ ~HalfWritten(e)
  PROVE  NamesInv'
<1> USE DEF NamesInv
<1>1. ErrandsInv' /\ \A d \in Errands \ {e} : errand'[d] = errand[d]
  BY ErrandEnds
<1>2. RowsInv' /\ AliasKept'
  BY RowsStay DEF zaloSide, RowsInv
<1>3. CASE title = Unnamed
  BY <1>1, <1>2, <1>3 DEF TitleInv, nameRows
<1>4. CASE ~HalfWritten(e)
  <2>1. \A d \in Errands : HalfWritten(d) => HalfWritten(d)'
    BY <1>1, <1>4 DEF HalfWritten, Takes, Doing
  <2> QED
    BY <1>1, <1>2, <2>1, TitleStays DEF nameRows, namesHistory
<1> QED
  BY <1>3, <1>4

LEMMA FailsStep == ASSUME NamesInv, NEW e \in Errands, ErrandFails(e) PROVE NamesInv'
<1> USE DEF NamesInv
<1>1. e \in Busy /\ Finishes(e) /\ behind' = (behind \/ HalfWritten(e))
      /\ UNCHANGED <<zaloSide, nameRows, ids, wanted, lost>>
  BY DEF ErrandFails, Busy
<1>2. ErrandsInv' /\ \A d \in Errands \ {e} : errand'[d] = errand[d]
  BY <1>1, ErrandEnds
<1>3. RowsInv' /\ AliasKept'
  BY <1>1 DEF RowsInv, AliasKept, zaloSide, nameRows
<1>4. TitleInv'
  BY <1>1, <1>2 DEF TitleInv, HalfWritten, Takes, Doing, nameRows
<1> QED
  BY <1>2, <1>3, <1>4

\* What is read of the contact, or told to Zalo, of an alias.
LEMMA AliasReads ==
  ASSUME NamesInv, NEW e \in Errands, ReadContact(e) \/ CallZalo(e) PROVE NamesInv'
<1> USE DEF NamesInv
<1>1. /\ e \in Busy /\ errand[e] \in ErrandRecords /\ Carries(errand[e])
  BY BusyErrand DEF ReadContact, CallZalo, Takes, Doing
<1>2. CASE ReadContact(e) /\ contact.id = 0
  <2>1. ~HalfWritten(e) /\ Finishes(e)
    BY <1>2 DEF ReadContact, HalfWritten, Doing
  <2> QED
    BY <1>1, <1>2, <2>1, QuietEnd DEF ReadContact, nameRows
<1>3. CASE ReadContact(e) /\ contact.id # 0
  <2>1. [errand[e] EXCEPT !.step = "call", !.copy = contact] \in ErrandRecords
    BY <1>1 DEF ErrandRecords, RowsInv
  <2>2. PICK x \in ErrandRecords : x = [errand[e] EXCEPT !.step = "call", !.copy = contact]
    BY <2>1
  <2>3. /\ x.kind = "unalias" /\ x.step = "call" /\ x.copy = contact /\ x.got = errand[e].got
        /\ x.alone = errand[e].alone /\ Proceeds(e, x) /\ errand[e].step = "read"
    BY <1>1, <1>3, <2>2 DEF ReadContact, Takes, Doing, ErrandRecords
  <2>4. Carries(x) /\ Agrees(x) /\ ~HalfWritten(e)
    BY <1>1, <1>3, <2>3 DEF Carries, Agrees, RowsInv, ReadContact, Takes, HalfWritten, Doing
  <2> QED
    BY <1>1, <1>3, <2>3, <2>4, QuietStep DEF ReadContact, zaloSide, RowsInv
<1>4. CASE CallZalo(e)
  <2>1. [errand[e] EXCEPT !.step = "save"] \in ErrandRecords
    BY <1>1 DEF ErrandRecords
  <2>2. PICK x \in ErrandRecords : x = [errand[e] EXCEPT !.step = "save"]
    BY <2>1
  <2>3. /\ x.kind = errand[e].kind /\ x.step = "save" /\ x.copy = errand[e].copy
        /\ x.got = errand[e].got /\ x.zalo = errand[e].zalo /\ x.alone = errand[e].alone
        /\ Proceeds(e, x) /\ errand[e].step = "call"
    BY <1>1, <1>4, <2>2 DEF CallZalo, Doing, ErrandRecords
  <2>4. errand[e].kind \in {"alias", "unalias"} /\ Name(e) \in Names \cup {Unnamed}
    BY <1>1, <2>3 DEF Carries, Name, ErrandRecords
  <2>5. Carries(x) /\ Agrees(x) /\ ~HalfWritten(e)
    BY <1>1, <2>3, <2>4 DEF Carries, Agrees, HalfWritten, Doing
  <2>6. person' \in [name : Names, alias : Names \cup {Unnamed}]
    BY <1>4, <2>4 DEF CallZalo, RowsInv
  <2> QED
    BY <1>1, <1>4, <2>3, <2>5, <2>6, QuietStep DEF CallZalo, RowsInv
<1> QED
  BY <1>2, <1>3, <1>4

\* The contact's name is written; the title is about to be.
LEMMA SaveStep == ASSUME NamesInv, NEW e \in Errands, SaveAlias(e) PROVE NamesInv'
<1> USE DEF NamesInv
<1>1. /\ e \in Busy /\ errand[e] \in ErrandRecords /\ Carries(errand[e])
  BY BusyErrand DEF SaveAlias, Takes
<1>2. [errand[e] EXCEPT !.step = "find"] \in ErrandRecords
  BY <1>1 DEF ErrandRecords
<1>3. PICK x \in ErrandRecords : x = [errand[e] EXCEPT !.step = "find"]
  BY <1>2
<1>4. /\ x.kind = "alias" /\ x.step = "find" /\ x.copy = errand[e].copy /\ x.got = errand[e].got
      /\ x.alone = errand[e].alone /\ Proceeds(e, x) /\ Name(e) \in Names
      /\ Name(e) = x.got["thread"]
  BY <1>1, <1>3 DEF SaveAlias, Takes, ErrandRecords, Carries, Name
<1>5. Carries(x)
  BY <1>1, <1>4 DEF Carries, Name
<1>6. /\ contact' = IF contact.id # 0 THEN [contact EXCEPT !.name = Name(e)] ELSE contact
      /\ contact.id # 0 => wanted' = Name(e) /\ lost' = FALSE
      /\ contact.id = 0 => UNCHANGED <<wanted, lost>>
      /\ UNCHANGED <<zaloSide, title, member, ids, behind>>
  BY DEF SaveAlias
<1>7. /\ contact' \in ContactRows /\ contact'.id = contact.id /\ contact'.zalo = contact.zalo
      /\ contact.id # 0 => contact'.name = Name(e)
      /\ contact.id = 0 => contact' = contact
  BY <1>4, <1>6 DEF RowsInv, ContactRows, Called
<1>8. Agrees(x)'
  BY <1>4, <1>7 DEF Agrees
<1>9. ErrandsInv' /\ errand'[e] = x
  BY <1>1, <1>4, <1>5, <1>8, ErrandGoesOn
<1>10. RowsInv'
  BY <1>4, <1>6, <1>7, NamesAssumption DEF RowsInv, zaloSide, Called
<1>11. AliasKept'
  BY <1>6, <1>7 DEF AliasKept
<1>12. TitleInv'
  BY <1>4, <1>9, NamesAssumption DEF TitleInv, HalfWritten, Takes, Doing
<1> QED
  BY <1>9, <1>10, <1>11, <1>12

LEMMA RestoreStep == ASSUME NamesInv, NEW e \in Errands, RestoreName(e) PROVE NamesInv'
<1> USE DEF NamesInv
<1> DEFINE c == errand[e].copy
<1>1. /\ e \in Busy /\ errand[e] \in ErrandRecords /\ Carries(errand[e])
      /\ errand[e].kind = "unalias" /\ errand[e].step = "save"
  BY BusyErrand DEF RestoreName, Takes, Doing
<1>2. /\ c \in ContactRows /\ c.name # Unnamed /\ c.id # 0
      /\ Restored(c) \in Called
  <2>1. c \in ContactRows /\ c.name # Unnamed /\ c.id # 0
    BY <1>1 DEF Carries, ErrandRecords
  <2>2. c.zalo \in Names \cup {Unnamed} /\ c.name \in Called
    BY <2>1 DEF ContactRows
  <2> QED
    BY <2>1, <2>2 DEF Restored, Called
<1>3. CASE contact.id # c.id
  <2>1. Finishes(e) /\ ~HalfWritten(e)
    BY <1>1, <1>3 DEF RestoreName, HalfWritten, Doing
  <2> QED
    BY <1>1, <1>3, <2>1, QuietEnd DEF RestoreName, nameRows, namesHistory
<1>4. CASE contact.id = c.id
  <2>1. [errand[e] EXCEPT !.step = "find", !.got["thread"] = Restored(c)] \in ErrandRecords
    BY <1>1, <1>2 DEF ErrandRecords, Subjects
  <2>2. PICK x \in ErrandRecords :
            x = [errand[e] EXCEPT !.step = "find", !.got["thread"] = Restored(c)]
    BY <2>1
  <2>3. errand[e].got \in [Subjects -> Called \cup {Unnamed}] /\ "thread" \in Subjects
    BY <1>1 DEF ErrandRecords, Subjects
  <2>4. /\ x.kind = "unalias" /\ x.step = "find" /\ x.copy = c
        /\ x.alone = errand[e].alone
    BY <1>1, <2>2 DEF ErrandRecords
  <2>5. x.got["thread"] = Restored(c)
    BY <1>1, <2>2, <2>3 DEF ErrandRecords
  <2>6. Proceeds(e, x) /\ contact' = [contact EXCEPT !.name = Restored(c)] /\ wanted' = Unnamed
    BY <1>4, <2>2 DEF RestoreName
  <2>7. Carries(x)
    BY <1>1, <1>2, <2>4, <2>5 DEF Carries
  <2>8. /\ contact' \in ContactRows /\ contact'.id = contact.id /\ contact'.zalo = contact.zalo
        /\ contact'.name = Restored(c)
    BY <1>2, <2>6 DEF RowsInv, ContactRows
  <2>9. Agrees(x)'
    BY <2>4, <2>5, <2>8 DEF Agrees
  <2>10. ErrandsInv' /\ errand'[e] = x
    BY <1>1, <2>4, <2>6, <2>7, <2>9, ErrandGoesOn
  <2>11. RowsInv'
    BY <1>2, <1>4, <2>6, <2>8, NamesAssumption DEF RestoreName, RowsInv, zaloSide, Called
  <2>12. AliasKept'
    BY <2>6 DEF AliasKept
  <2>13. TitleInv'
    BY <2>4, <2>10, NamesAssumption DEF TitleInv, HalfWritten, Takes, Doing
  <2> QED
    BY <2>10, <2>11, <2>12, <2>13
<1> QED
  BY <1>3, <1>4

\* The chat is looked up.
LEMMA FindChatStep == ASSUME NamesInv, NEW e \in Errands, FindChat(e) PROVE NamesInv'
<1> USE DEF NamesInv
<1>1. /\ e \in Busy /\ errand[e] \in ErrandRecords /\ Carries(errand[e])
      /\ errand[e].alone => Agrees(errand[e])
      /\ errand[e].kind \in {"alias", "unalias"} /\ errand[e].step = "find"
  BY BusyErrand DEF FindChat, Takes, Doing
<1>2. CASE title = Unnamed
  BY <1>1, <1>2, QuietEnd DEF FindChat
<1>3. CASE title # Unnamed
  <2>1. [errand[e] EXCEPT !.step = "title"] \in ErrandRecords
    BY <1>1 DEF ErrandRecords
  <2>2. PICK x \in ErrandRecords : x = [errand[e] EXCEPT !.step = "title"]
    BY <2>1
  <2>3. /\ x.kind = errand[e].kind /\ x.step = "title" /\ x.copy = errand[e].copy
        /\ x.got = errand[e].got /\ x.zalo = errand[e].zalo /\ x.alone = errand[e].alone
        /\ Proceeds(e, x)
    BY <1>1, <1>3, <2>2 DEF FindChat, ErrandRecords
  <2>4. Carries(x) /\ (x.alone => Agrees(x))
    BY <1>1, <2>3 DEF Carries, Agrees
  <2> QED
    BY <1>1, <2>3, <2>4, QuietStep DEF FindChat, zaloSide, RowsInv
<1> QED
  BY <1>2, <1>3

\* The title is written by the last step of an errand, or the last but one.
LEMMA TitleWritten ==
  ASSUME NamesInv, NEW e \in Busy, NEW n \in Called, title' = n, Settled(e), ErrandsInv',
         errand[e].alone => (contact.id # 0 => n = contact.name),
         UNCHANGED <<zaloSide, contact, member, ids, wanted, lost>>
  PROVE  NamesInv'
<1> USE DEF NamesInv
<1>1. errand[e].alone \in BOOLEAN
  BY DEF Busy, ErrandsInv, ErrandRecords
<1>2. RowsInv'
  BY <1>1 DEF RowsInv, zaloSide, Settled, Called
<1>3. AliasKept'
  BY DEF AliasKept
<1>4. TitleInv'
  BY <1>1 DEF TitleInv, Settled
<1> QED
  BY <1>2, <1>3, <1>4

LEMMA SaveTitleStep == ASSUME NamesInv, NEW e \in Errands, SaveTitle(e) PROVE NamesInv'
<1> USE DEF NamesInv
<1>1. /\ e \in Busy /\ errand[e] \in ErrandRecords /\ Carries(errand[e])
      /\ errand[e].alone => Agrees(errand[e])
      /\ errand[e].kind \in {"alias", "unalias"} /\ errand[e].step = "title"
  BY BusyErrand DEF SaveTitle, Takes, Doing
<1>2. Name(e) \in Called /\ (errand[e].alone => (contact.id # 0 => Name(e) = contact.name))
  BY <1>1 DEF Carries, Agrees, Name, Called
<1>3. ErrandsInv'
  BY <1>1, ErrandEnds DEF SaveTitle
<1> QED
  BY <1>1, <1>2, <1>3, TitleWritten DEF SaveTitle

\* One answer of a look-up: while an errand is alone a contact answers first.
LEMMA LooksStep ==
  ASSUME NamesInv, NEW e \in Busy, errand[e].step = "resolve",
         NEW subject \in Subjects, NEW stage \in Lookups, NEW n \in Called \cup {Unnamed},
         Looks(e, subject, stage, n),
         errand[e].alone /\ subject = "thread" /\ contact.id # 0 =>
             stage = "done" /\ n = contact.name,
         UNCHANGED <<person, nameRows, namesHistory>>, profile' \in Names \cup {Unnamed}
  PROVE  NamesInv'
<1> USE DEF NamesInv
<1>1. /\ errand[e] \in ErrandRecords /\ Carries(errand[e])
      /\ errand[e].alone => Agrees(errand[e])
  BY BusyErrand DEF Busy
<1>2. /\ errand[e].ask \in [Subjects -> Lookups]
      /\ errand[e].got \in [Subjects -> Called \cup {Unnamed}]
  BY <1>1 DEF ErrandRecords
<1>3. [errand[e] EXCEPT !.ask[subject] = stage, !.got[subject] = n] \in ErrandRecords
  BY <1>1 DEF ErrandRecords
<1>4. PICK x \in ErrandRecords :
          x = [errand[e] EXCEPT !.ask[subject] = stage, !.got[subject] = n]
  BY <1>3
<1>5. /\ x.kind = errand[e].kind /\ x.step = "resolve" /\ x.copy = errand[e].copy
      /\ x.zalo = errand[e].zalo /\ x.alone = errand[e].alone
      /\ x.ask = [errand[e].ask EXCEPT ![subject] = stage]
      /\ x.got = [errand[e].got EXCEPT ![subject] = n]
      /\ Proceeds(e, x)
  BY <1>1, <1>4 DEF Looks, ErrandRecords
<1>6. errand[e].kind \in {"message", "echo"}
  BY <1>1 DEF Carries, ErrandRecords
<1>7. Carries(x) /\ ~HalfWritten(e)
  BY <1>1, <1>5, <1>6 DEF Carries, HalfWritten, Takes
<1>8. ASSUME x.alone PROVE Agrees(x)
  <2>1. CASE subject = "thread"
    BY <1>2, <1>5, <1>6, <1>8, <2>1 DEF Agrees
  <2>2. CASE subject # "thread"
    <3>1. x.ask["thread"] = errand[e].ask["thread"] /\ x.got["thread"] = errand[e].got["thread"]
      BY <1>2, <1>5, <2>2 DEF Subjects
    <3> QED
      BY <1>1, <1>5, <1>6, <1>8, <3>1 DEF Agrees
  <2> QED
    BY <2>1, <2>2
<1> QED
  BY <1>5, <1>7, <1>8, QuietStep DEF RowsInv

LEMMA ResolveStep ==
  ASSUME NamesInv, NEW e \in Errands, NEW s \in Subjects, Resolve(e, s) PROVE NamesInv'
<1> USE DEF NamesInv
<1>1. /\ e \in Busy /\ errand[e] \in ErrandRecords /\ errand[e].step = "resolve"
      /\ errand[e].alone => Agrees(errand[e])
  BY BusyErrand DEF Resolve, Doing
<1>2. /\ errand[e].got[s] \in Called \cup {Unnamed} /\ member \in Called \cup {Unnamed}
      /\ contact.name \in Called \cup {Unnamed}
      /\ UNCHANGED <<person, nameRows, namesHistory>>
  BY <1>1 DEF ErrandRecords, RowsInv, ContactRows, Resolve
<1>3. errand[e].alone /\ s = "thread" /\ contact.id # 0 =>
          errand[e].ask[s] \in {"contact", "done"}
  BY <1>1 DEF Agrees
<1>4. CASE errand[e].ask[s] = "contact" /\ UNCHANGED profile
  <2>1. CASE contact.name # Unnamed
    BY <1>1, <1>2, <1>4, <2>1, LooksStep DEF Resolve, ContactFirst, RowsInv, Lookups
  <2>2. CASE contact.name = Unnamed
    BY <1>1, <1>2, <1>4, <2>2, LooksStep DEF Resolve, ContactFirst, RowsInv, Lookups
  <2> QED
    BY <2>1, <2>2
<1>5. CASE errand[e].ask[s] = "member" /\ UNCHANGED profile
  <2>1. CASE member # Unnamed
    BY <1>1, <1>2, <1>3, <1>5, <2>1, LooksStep DEF Resolve, RowsInv, Lookups
  <2>2. CASE member = Unnamed
    BY <1>1, <1>2, <1>3, <1>5, <2>2, LooksStep DEF Resolve, RowsInv, Lookups
  <2> QED
    BY <2>1, <2>2
<1>6. ASSUME errand[e].ask[s] = "zalo", NEW n \in Names \cup {Unnamed}, GetUserProfile(n),
             Looks(e, s, "done", IF n # Unnamed THEN n ELSE errand[e].got[s])
      PROVE  NamesInv'
  <2>1. profile' \in Names \cup {Unnamed}
    BY <1>6 DEF GetUserProfile, RowsInv
  <2>2. PICK m \in Called \cup {Unnamed} : m = IF n # Unnamed THEN n ELSE errand[e].got[s]
    BY <1>2 DEF Called
  <2>3. Looks(e, s, "done", m)
    BY <1>6, <2>2
  <2> QED
    BY <1>1, <1>2, <1>3, <1>6, <2>1, <2>3, LooksStep DEF Lookups
<1> QED
  BY <1>4, <1>5, <1>6 DEF Resolve

\* A conversation is written, and after it its participant.
LEMMA ToMember ==
  ASSUME NamesInv, NEW e \in Busy, errand[e].kind \in {"message", "open"}, UNCHANGED contact,
         Proceeds(e, [errand[e] EXCEPT !.step = "member"])
  PROVE  ErrandsInv'
<1> USE DEF NamesInv
<1>1. errand[e] \in ErrandRecords /\ Carries(errand[e])
  BY BusyErrand DEF Busy
<1>2. [errand[e] EXCEPT !.step = "member"] \in ErrandRecords
  BY <1>1 DEF ErrandRecords
<1>3. PICK x \in ErrandRecords : x = [errand[e] EXCEPT !.step = "member"]
  BY <1>2
<1>4. /\ x.kind = errand[e].kind /\ x.step = "member" /\ x.copy = errand[e].copy
      /\ x.got = errand[e].got /\ x.alone = errand[e].alone /\ Proceeds(e, x)
  BY <1>1, <1>3 DEF ErrandRecords
<1>5. Carries(x)
  BY <1>1, <1>4 DEF Carries
<1>6. Agrees(x)'
  BY <1>4 DEF Agrees
<1> QED
  BY <1>4, <1>5, <1>6, ErrandGoesOn

LEMMA ChatStep ==
  ASSUME NamesInv, NEW e \in Errands, UpsertChat(e) \/ OpenChat(e) PROVE NamesInv'
<1> USE DEF NamesInv
<1>1. /\ e \in Busy /\ errand[e] \in ErrandRecords /\ Carries(errand[e])
      /\ errand[e].alone => Agrees(errand[e])
  BY BusyErrand DEF UpsertChat, OpenChat, Takes, Doing
<1>2. Name(e) \in Called \cup {Unnamed} /\ title \in Called \cup {Unnamed}
  BY <1>1 DEF Name, ErrandRecords, RowsInv, Subjects
<1>3. CASE UpsertChat(e)
  <2>1. PICK n \in Called :
            n = IF Name(e) # Unnamed THEN Name(e)
                ELSE IF title = Unnamed THEN Placeholder ELSE title
    BY <1>2 DEF Called
  <2>2. title' = n /\ Settled(e) /\ UNCHANGED <<zaloSide, contact, member, ids, wanted, lost>>
    BY <1>3, <2>1 DEF UpsertChat
  <2>3. errand[e].alone /\ contact.id # 0 => n = contact.name
    <3>1. errand[e].step = "resolve" /\ errand[e].ask["thread"] = "done"
      BY <1>3 DEF UpsertChat, Doing, Subjects
    <3>2. contact.id # 0 => contact.name # Unnamed
      BY DEF RowsInv
    <3> QED
      BY <1>1, <2>1, <3>1, <3>2 DEF Agrees, Name
  <2>4. ErrandsInv'
    <3>1. CASE Finishes(e)
      BY <1>1, <3>1, ErrandEnds
    <3>2. CASE Takes(e, {"message"}) /\ Proceeds(e, [errand[e] EXCEPT !.step = "member"])
      BY <1>1, <2>2, <3>2, ToMember DEF Takes
    <3> QED
      BY <1>3, <3>1, <3>2 DEF UpsertChat
  <2> QED
    BY <1>1, <2>2, <2>3, <2>4, TitleWritten
<1>4. CASE OpenChat(e)
  <2>1. errand[e].kind = "open" /\ errand[e].step = "title"
    BY <1>4 DEF OpenChat, Takes, Doing
  <2>2. Name(e) \in Called /\ (errand[e].alone => (contact.id # 0 => Name(e) = contact.name))
    BY <1>1, <2>1 DEF Carries, Agrees, Name, Called
  <2>3. ErrandsInv'
    BY <1>1, <1>4, <2>1, ToMember DEF OpenChat
  <2> QED
    BY <1>1, <1>4, <2>2, <2>3, TitleWritten DEF OpenChat
<1> QED
  BY <1>3, <1>4

LEMMA MemberStep == ASSUME NamesInv, NEW e \in Errands, UpsertMember(e) PROVE NamesInv'
<1> USE DEF NamesInv
<1>1. /\ e \in Busy /\ errand[e] \in ErrandRecords /\ Finishes(e) /\ ~HalfWritten(e)
  BY BusyErrand DEF UpsertMember, Doing, HalfWritten
<1>2. errand[e].got["sender"] \in Called \cup {Unnamed}
  BY <1>1 DEF ErrandRecords, Subjects
<1>3. ErrandsInv' /\ \A d \in Errands \ {e} : errand'[d] = errand[d]
  BY <1>1, ErrandEnds
<1>4. RowsInv' /\ AliasKept'
  BY <1>2 DEF UpsertMember, RowsInv, AliasKept, zaloSide, namesHistory
<1>5. \A d \in Errands : HalfWritten(d) => HalfWritten(d)'
  BY <1>1, <1>3 DEF HalfWritten, Takes, Doing
<1> QED
  BY <1>3, <1>4, <1>5, TitleStays DEF UpsertMember, namesHistory

\* What is fetched for a sync or an event, and the message that announces a friend.
LEMMA FetchErrand ==
  ASSUME NamesInv, NEW e \in Errands,
         FetchFriend(e) \/ ReadForSync(e) \/ ReadProfile(e) \/ AnnounceFriend(e)
  PROVE  NamesInv'
<1> USE DEF NamesInv
<1>1. /\ e \in Busy /\ errand[e] \in ErrandRecords /\ Carries(errand[e])
      /\ UNCHANGED <<person, nameRows, namesHistory>>
      /\ errand[e].kind \in {"sync", "add"} /\ ~HalfWritten(e)
  <2>1. e \in Busy /\ errand[e] \in ErrandRecords /\ Carries(errand[e])
    BY BusyErrand DEF FetchFriend, ReadForSync, ReadProfile, AnnounceFriend, Takes, Doing
  <2>2. errand[e].kind \in {"sync", "add"}
    BY <2>1 DEF FetchFriend, ReadForSync, ReadProfile, AnnounceFriend, Takes, Doing, Carries,
                ErrandRecords
  <2> QED
    BY <2>1, <2>2 DEF FetchFriend, ReadForSync, ReadProfile, AnnounceFriend, HalfWritten, Takes,
                      zaloSide
<1>2. errand[e].got \in [Subjects -> Called \cup {Unnamed}] /\ Subjects = {"thread", "sender"}
  BY <1>1 DEF ErrandRecords, Subjects
<1>3. CASE UNCHANGED profile /\ Finishes(e)
  BY <1>1, <1>3, QuietEnd DEF zaloSide
<1>4. ASSUME NEW x \in ErrandRecords, Proceeds(e, x), Carries(x), x.alone = errand[e].alone,
             x.kind \in {"sync", "add"} \/ (x.step = "resolve" /\ x.ask["thread"] = "contact"
                                            /\ x.kind = "message"),
             x.kind = "sync" => x.step # "resolve", x.kind = "add" => x.step # "resolve",
             profile' \in Names \cup {Unnamed}
      PROVE  NamesInv'
  <2>1. Agrees(x)
    BY <1>4 DEF Agrees
  <2> QED
    BY <1>1, <1>4, <2>1, QuietStep DEF RowsInv
<1>5. ASSUME NEW n \in Displayed, Doing(e, "fetch"), UNCHANGED profile,
             Proceeds(e, [errand[e] EXCEPT !.step = "read", !.got["thread"] = n,
                                           !.zalo = person.name])
      PROVE  NamesInv'
  <2>1. n \in Names /\ person.name \in Names
    BY <1>5 DEF Displayed, RowsInv
  <2>2. [errand[e] EXCEPT !.step = "read", !.got["thread"] = n, !.zalo = person.name]
            \in ErrandRecords
    BY <1>1, <1>2, <2>1 DEF ErrandRecords, Called
  <2>3. PICK x \in ErrandRecords :
            x = [errand[e] EXCEPT !.step = "read", !.got["thread"] = n, !.zalo = person.name]
    BY <2>2
  <2>4. /\ x.kind = "sync" /\ x.step = "read" /\ x.copy = errand[e].copy /\ x.zalo = person.name
        /\ x.alone = errand[e].alone /\ x.got["thread"] = n /\ Proceeds(e, x)
    BY <1>1, <1>2, <1>5, <2>3 DEF ErrandRecords, Carries, Doing
  <2>5. Carries(x)
    BY <1>1, <2>1, <2>4 DEF Carries
  <2> QED
    BY <1>4, <1>5, <2>4, <2>5 DEF RowsInv
<1>6. CASE ReadForSync(e)
  <2>1. [errand[e] EXCEPT !.step = "save", !.copy = contact] \in ErrandRecords
    BY <1>1 DEF ErrandRecords, RowsInv
  <2>2. PICK x \in ErrandRecords : x = [errand[e] EXCEPT !.step = "save", !.copy = contact]
    BY <2>1
  <2>3. /\ x.kind = "sync" /\ x.step = "save" /\ x.copy = contact /\ x.zalo = errand[e].zalo
        /\ x.alone = errand[e].alone /\ x.got = errand[e].got /\ Proceeds(e, x)
        /\ errand[e].kind = "sync" /\ errand[e].step = "read"
    BY <1>1, <1>6, <2>2 DEF ErrandRecords, ReadForSync, Takes, Doing
  <2>4. Carries(x)
    BY <1>1, <2>3 DEF Carries, RowsInv
  <2> QED
    BY <1>4, <1>6, <2>3, <2>4 DEF ReadForSync, zaloSide, RowsInv
<1>7. ASSUME NEW n \in Names \cup {Unnamed}, GetUserProfile(n), Doing(e, "profile"),
             Proceeds(e, [errand[e] EXCEPT !.step = "save",
                              !.got["thread"] = IF n # Unnamed THEN n ELSE Placeholder])
      PROVE  NamesInv'
  <2>1. PICK m \in Called : m = IF n # Unnamed THEN n ELSE Placeholder
    BY DEF Called
  <2>2. [errand[e] EXCEPT !.step = "save", !.got["thread"] = m] \in ErrandRecords
    BY <1>1, <1>2, <2>1 DEF ErrandRecords
  <2>3. PICK x \in ErrandRecords : x = [errand[e] EXCEPT !.step = "save", !.got["thread"] = m]
    BY <2>2
  <2>4. /\ x.kind = "add" /\ x.step = "save" /\ x.copy = errand[e].copy
        /\ x.alone = errand[e].alone /\ x.got["thread"] = m /\ Proceeds(e, x)
    BY <1>1, <1>2, <1>7, <2>1, <2>3 DEF ErrandRecords, Carries, Doing
  <2>5. Carries(x)
    BY <1>1, <2>4 DEF Carries
  <2>6. profile' \in Names \cup {Unnamed}
    BY <1>7 DEF GetUserProfile, RowsInv
  <2> QED
    BY <1>4, <2>4, <2>5, <2>6
<1>8. ASSUME AnnounceFriend(e), title # Unnamed PROVE NamesInv'
  <2> DEFINE y == [errand[e] EXCEPT !.kind = "message", !.step = "resolve",
                       !.ask = [s \in Subjects |-> "contact"], !.got["sender"] = Name(e)]
  <2>1. Name(e) \in Called \cup {Unnamed}
    BY <1>2 DEF Name
  <2>2. [s \in Subjects |-> "contact"] \in [Subjects -> Lookups]
    BY DEF Lookups
  <2>3. y \in ErrandRecords
    BY <1>1, <1>2, <2>1, <2>2 DEF ErrandRecords
  <2>4. PICK x \in ErrandRecords : x = y
    BY <2>3
  <2>5. /\ x.kind = "message" /\ x.step = "resolve" /\ x.copy = errand[e].copy
        /\ x.alone = errand[e].alone /\ x.ask = [s \in Subjects |-> "contact"]
    BY <1>1, <2>4 DEF ErrandRecords
  <2>6. Carries(x) /\ x.ask["thread"] = "contact" /\ Proceeds(e, x)
    BY <1>1, <1>8, <2>4, <2>5 DEF Carries, Subjects, AnnounceFriend
  <2> QED
    BY <1>4, <1>8, <2>5, <2>6 DEF AnnounceFriend, zaloSide, RowsInv
<1> QED
  BY <1>3, <1>5, <1>6, <1>7, <1>8 DEF FetchFriend, ReadProfile, AnnounceFriend, zaloSide

\* The contact is written anew, or made.
LEMMA ContactWritten ==
  ASSUME NamesInv, NEW n \in Called, NEW zalo \in Names \cup {Unnamed}, PutContact(n, zalo),
         ErrandsInv', AliasKept', lost' \in BOOLEAN,
         \A d \in Errands : HalfWritten(d) => HalfWritten(d)'
  PROVE  NamesInv'
<1> USE DEF NamesInv
<1>1. /\ ids \in Nat /\ contact.id \in 0 .. ids /\ ids' = IF contact.id = 0 THEN ids + 1 ELSE ids
      /\ contact' = [id |-> IF contact.id = 0 THEN ids + 1 ELSE contact.id,
                     name |-> n, zalo |-> zalo]
  BY DEF PutContact, RowsInv
<1>2. contact' \in ContactRows /\ contact'.id \in 1 .. ids' /\ ids' \in Nat
  BY <1>1 DEF ContactRows
<1>3. contact'.name = n /\ contact'.name # Unnamed
  BY <1>1, NamesAssumption
<1>4. RowsInv'
  BY <1>2, <1>3 DEF PutContact, RowsInv, zaloSide
<1>5. TitleInv'
  BY <1>3 DEF TitleInv, PutContact, RowsInv
<1> QED
  BY <1>4, <1>5

LEMMA SyncStep == ASSUME NamesInv, NEW e \in Errands, SyncContact(e) PROVE NamesInv'
<1> USE DEF NamesInv
<1> DEFINE c == errand[e].copy
<1>1. /\ e \in Busy /\ errand[e] \in ErrandRecords /\ Carries(errand[e])
      /\ errand[e].kind = "sync" /\ errand[e].step = "save"
  BY BusyErrand DEF SyncContact, Takes, Doing
<1>2. c \in ContactRows /\ Name(e) \in Names /\ errand[e].zalo \in Names
      /\ (c.name = Unnamed => c.zalo = Unnamed)
  BY <1>1 DEF Carries, ErrandRecords, Name
<1>3. PICK n \in Called : n = NameToSet(e)
  BY <1>2 DEF NameToSet, HasCustomAlias, Called, ContactRows
<1>4. PICK z \in Names : z = errand[e].zalo
  BY <1>2
<1>5. /\ PutContact(n, z) /\ Finishes(e) /\ wanted' = wanted
      /\ lost' = (lost \/ contact # c \/ contact.zalo \in {contact.name, Unnamed})
  BY <1>3, <1>4 DEF SyncContact, PutContact
<1>6. ErrandsInv' /\ \A d \in Errands \ {e} : errand'[d] = errand[d]
  BY <1>1, <1>5, ErrandEnds
<1>7. \A d \in Errands : HalfWritten(d) => HalfWritten(d)'
  BY <1>1, <1>6 DEF HalfWritten, Takes, Doing
<1>8. contact'.name = n
  BY <1>5 DEF PutContact
<1>9. AliasKept'
  <2>1. CASE contact = c /\ contact.zalo \notin {contact.name, Unnamed}
    <3>1. n = contact.name
      BY <1>3, <2>1 DEF NameToSet, HasCustomAlias
    <3> QED
      BY <1>5, <1>8, <3>1 DEF AliasKept
  <2>2. CASE ~(contact = c /\ contact.zalo \notin {contact.name, Unnamed})
    BY <1>5, <2>2 DEF AliasKept
  <2> QED
    BY <2>1, <2>2
<1>10. lost' \in BOOLEAN
  BY <1>5 DEF RowsInv
<1> QED
  BY <1>4, <1>5, <1>6, <1>7, <1>9, <1>10, ContactWritten

LEMMA AddStep == ASSUME NamesInv, NEW e \in Errands, AddContact(e) PROVE NamesInv'
<1> USE DEF NamesInv
<1>1. /\ e \in Busy /\ errand[e] \in ErrandRecords /\ Carries(errand[e])
      /\ errand[e].kind = "add" /\ errand[e].step = "save"
  BY BusyErrand DEF AddContact, Takes, Doing
<1>2. Name(e) \in Called
  BY <1>1 DEF Carries, Name
<1>3. [errand[e] EXCEPT !.step = "find"] \in ErrandRecords
  BY <1>1 DEF ErrandRecords
<1>4. PICK x \in ErrandRecords : x = [errand[e] EXCEPT !.step = "find"]
  BY <1>3
<1>5. /\ x.kind = "add" /\ x.step = "find" /\ x.copy = errand[e].copy
      /\ x.alone = errand[e].alone /\ x.got = errand[e].got /\ Proceeds(e, x)
  BY <1>1, <1>4 DEF AddContact, ErrandRecords
<1>6. Carries(x) /\ Agrees(x)'
  BY <1>1, <1>2, <1>5 DEF Carries, Agrees, Name
<1>7. ErrandsInv' /\ errand'[e] = x /\ \A d \in Errands \ {e} : errand'[d] = errand[d]
  BY <1>1, <1>5, <1>6, ErrandGoesOn
<1>8. \A d \in Errands : HalfWritten(d) => HalfWritten(d)'
  BY <1>1, <1>7 DEF HalfWritten, Takes, Doing
<1>9. AliasKept' /\ lost' \in BOOLEAN
  BY DEF AddContact, AliasKept
<1>10. PICK n \in Called : n = Name(e)
  BY <1>2
<1> QED
  BY <1>7, <1>8, <1>9, <1>10, ContactWritten DEF AddContact

\* After a disturbance every errand is where it was.
LEMMA DisturbStep ==
  ASSUME ErrandsInv, errand' = Disturbed
  PROVE  ErrandsInv' /\ \A d \in Errands : HalfWritten(d) => HalfWritten(d)'
<1>1. Busy' = Busy
  BY Disturbs DEF Busy
<1>2. \A d \in Busy : Carries(errand'[d]) /\ ~errand'[d].alone
  BY Disturbs
<1>3. ErrandsInv'
  BY <1>1, <1>2, Disturbs DEF ErrandsInv, Carries, Agrees
<1>4. ASSUME NEW d \in Errands, HalfWritten(d) PROVE HalfWritten(d)'
  <2>1. d \in Busy /\ errand'[d] # Free
    BY <1>1, <1>4 DEF HalfWritten, Takes, Busy
  <2> QED
    BY <1>4, <2>1, Disturbs DEF HalfWritten, Takes, Doing
<1> QED
  BY <1>3, <1>4

\* Friendships that begin and end, and what happens at Zalo.
LEMMA FriendStep ==
  ASSUME NamesInv,
         AcceptFriend \/ RemoveFriend \/ ProfileLapses \/ \E n \in Names : Rename(n)
  PROVE  NamesInv'
<1> USE DEF NamesInv
<1>1. CASE AcceptFriend
  <2>1. PICK n \in Called : contact' = [id |-> ids + 1, name |-> n, zalo |-> Unnamed]
    BY <1>1 DEF AcceptFriend
  <2>2. /\ contact' \in ContactRows /\ contact'.id = ids + 1 /\ contact'.name = n
        /\ contact'.zalo = Unnamed /\ ids' = ids + 1 /\ ids \in Nat
    BY <1>1, <2>1 DEF AcceptFriend, RowsInv, ContactRows
  <2>3. RowsInv'
    BY <1>1, <2>2, NamesAssumption DEF AcceptFriend, RowsInv, zaloSide
  <2>4. wanted # Unnamed => lost
    BY <1>1 DEF AcceptFriend, AliasKept, RowsInv
  <2>5. AliasKept' /\ TitleInv'
    BY <1>1, <2>4 DEF AcceptFriend, AliasKept, TitleInv
  <2> QED
    BY <1>1, <2>3, <2>5, DisturbStep DEF AcceptFriend
<1>2. CASE RemoveFriend
  <2>1. RowsInv'
    BY <1>2, NamesAssumption DEF RemoveFriend, RowsInv, NoContact, ContactRows, zaloSide
  <2>2. AliasKept' /\ TitleInv'
    BY <1>2 DEF RemoveFriend, AliasKept, TitleInv, NoContact
  <2> QED
    BY <1>2, <2>1, <2>2, DisturbStep DEF RemoveFriend
<1>3. ASSUME ProfileLapses \/ \E n \in Names : Rename(n) PROVE NamesInv'
  <2>1. UNCHANGED <<nameRows, errand, namesHistory>>
    BY <1>3 DEF ProfileLapses, Rename
  <2>2. RowsInv'
    BY <1>3, <2>1 DEF ProfileLapses, Rename, RowsInv, nameRows, namesHistory
  <2>3. ErrandsInv'
    BY <2>1 DEF ErrandsInv, Busy, Carries, Agrees, nameRows
  <2>4. AliasKept' /\ TitleInv'
    BY <2>1 DEF AliasKept, TitleInv, HalfWritten, Takes, Doing, nameRows, namesHistory
  <2> QED
    BY <2>2, <2>3, <2>4
<1> QED
  BY <1>1, <1>2, <1>3

LEMMA NamesRestartStep == ASSUME NamesInv, NamesRestart PROVE NamesInv'
<1> USE DEF NamesInv
<1>1. Busy' = {} /\ errand' \in [Errands -> ErrandRecords \cup {Free}]
  BY DEF NamesRestart, Busy
<1>2. ErrandsInv'
  BY <1>1 DEF ErrandsInv
<1>3. RowsInv' /\ AliasKept'
  BY DEF NamesRestart, RowsInv, AliasKept, zaloSide, nameRows
<1>4. TitleInv'
  BY DEF NamesRestart, TitleInv, nameRows
<1> QED
  BY <1>2, <1>3, <1>4

\* Every step of Names preserves the invariant.
LEMMA NamesSteps == ASSUME NamesInv, NamesNext \/ NamesRestart PROVE NamesInv'
<1>1. ASSUME NEW e \in Errands, Errand(e) PROVE NamesInv'
  BY <1>1, AskErrand, FailsStep, AliasReads, SaveStep, RestoreStep, FindChatStep, SaveTitleStep,
     ResolveStep, ChatStep, MemberStep, FetchErrand, SyncStep, AddStep DEF Errand
<1> QED
  BY <1>1, FriendStep, NamesRestartStep DEF NamesNext

\* The invariant holds of every behaviour.
THEOREM NamesInvariant == NamesSpec => []NamesInv
<1>1. NamesInit => NamesInv
  <2>1. NamesInit => ErrandsInv
    BY DEF NamesInit, ErrandsInv, Busy
  <2>2. ASSUME NamesInit PROVE RowsInv
    <3>1. person \in [name : Names, alias : Names \cup {Unnamed}]
      BY <2>2 DEF NamesInit
    <3>2. NoContact \in ContactRows /\ NoContact.id = 0 /\ NoContact.name = Unnamed
          /\ NoContact.zalo = Unnamed
      BY DEF NoContact, ContactRows
    <3>3. contact = NoContact /\ contact.id \in 0 .. ids /\ ids \in Nat
      BY <2>2, <3>2 DEF NamesInit
    <3>4. /\ profile \in Names \cup {Unnamed} /\ wanted \in Names \cup {Unnamed}
          /\ {title, member} \subseteq Called \cup {Unnamed}
      BY <2>2 DEF NamesInit
    <3>5. lost \in BOOLEAN /\ behind \in BOOLEAN
      BY <2>2 DEF NamesInit
    <3> QED
      BY <3>1, <3>2, <3>3, <3>4, <3>5 DEF RowsInv
  <2>3. NamesInit => TitleInv /\ AliasKept
    BY DEF NamesInit, TitleInv, AliasKept, NoContact
  <2> QED
    BY <2>1, <2>2, <2>3 DEF NamesInv
<1>2. ASSUME NamesInv, UNCHANGED namesVars PROVE NamesInv'
  <2>1. UNCHANGED <<person, profile, contact, title, member, errand, ids, wanted, lost, behind>>
    BY <1>2 DEF namesVars, zaloSide, nameRows, namesHistory
  <2>2. ErrandsInv'
    BY <1>2, <2>1 DEF NamesInv, ErrandsInv, Busy, Carries, Agrees
  <2>3. RowsInv' /\ AliasKept' /\ TitleInv'
    BY <1>2, <2>1 DEF NamesInv, RowsInv, AliasKept, TitleInv, HalfWritten, Takes, Doing
  <2> QED
    BY <2>2, <2>3 DEF NamesInv
<1>3. NamesInv /\ [NamesNext \/ NamesRestart]_namesVars => NamesInv'
  BY <1>2, NamesSteps
<1> QED
  BY <1>1, <1>3, PTL DEF NamesSpec

\* Names keep their types, and a contact has a name.
THEOREM NamesTypeCorrect == NamesSpec => []NamesTypeOK
<1>1. NamesInv => NamesTypeOK
  BY DEF NamesInv, ErrandsInv, RowsInv, NamesTypeOK
<1> QED
  BY <1>1, NamesInvariant, PTL

\* changeFriendAlias, resolveUserProfile and syncFriends together: an alias stays the
\* contact's name and the chat bears that name when nothing is under way, with the
\* named exceptions, for any number of requests, messages, syncs and events.
THEOREM NamesAreKept == NamesSpec => []NamesKept
<1>1. NamesInv => AliasKept
  BY DEF NamesInv
<1>2. NamesInv => TitleAgrees
  BY DEF NamesInv, TitleInv, TitleAgrees, HalfWritten, Takes
<1> QED
  BY <1>1, <1>2, NamesInvariant, PTL DEF NamesKept

=============================================================================
