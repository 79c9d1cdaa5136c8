--------------------------- MODULE AutoReplyProofs ---------------------------
(***************************************************************************)
(* Proofs about AutoReply for every set of messages and every value of the *)
(* history, recent, trigger and rate limits: type correctness, no gap in   *)
(* what the model is told, the message to be answered among it, and no     *)
(* more replies than the limiter's windows pay for.                        *)
(***************************************************************************)
EXTENDS AutoReply, FiniteSetTheorems, TLAPS

\* S is no summary, or it covers a history that ended at message k or before
\* and was long enough to be folded.
Covers(S, k) ==
    S = {} \/ \E n \in 1 .. k : FoldsOlder(n) /\ First(n) .. (n - 1) \subseteq S

\* The summary in the conversation's row and the copies that inbound messages
\* are about to write back.
SummaryInv == Covers(summary, rows) /\ \A e \in Events : Covers(meta[e], rows)

\* The message to be answered is stored, and so is in the history read later.
PlaceInv ==
    \A e \in Events :
        /\ stage[e] \in {"limit", "retrieve"} => place[e] \in 1 .. rows
        /\ stage[e] \in {"summary", "fold", "chat"} => place[e] \in 1 .. seen[e]

\* What generateReply knows of the conversation.
KnowsInv ==
    \A e \in Events :
        /\ stage[e] = "fold" => FoldsOlder(seen[e])
        /\ stage[e] = "chat" =>
              \/ First(seen[e]) .. (seen[e] - 1) \subseteq used[e]
              \/ ~FoldsOlder(seen[e]) /\ Covers(used[e], late[e])

Inv == TypeOK /\ SummaryInv /\ PlaceInv /\ KnowsInv

-----------------------------------------------------------------------------
\* A longer conversation covers what a shorter one did.
LEMMA CoversLater ==
    ASSUME NEW S, NEW j \in Nat, NEW k \in Nat, j <= k, Covers(S, j)
    PROVE  Covers(S, k)
  BY DEF Covers

\* A history that is folded goes into the summary up to its last message but one.
LEMMA FoldIsWhole ==
    ASSUME NEW n \in Nat, NEW i \in First(n) .. (n - 1)
    PROVE  i \in OlderMessages(n) \cup RecentMessages(n)
  BY AutoReplyAssumption DEF First, OlderMessages, RecentMessages

\* The initial state satisfies the invariant.
LEMMA InitInv == Init => Inv
  BY DEF Init, Inv, TypeOK, Stages, SummaryInv, PlaceInv, KnowsInv, Covers

\* What a step that ends e's handling leaves true, when no row is lost and the
\* summary stays covered.
LEMMA EndsInv ==
    ASSUME Inv, NEW e \in Events, Ends(e), summary' = summary, UNCHANGED settings,
           rows' \in {rows, rows + 1}, count' \in Nat, windows' \in Nat, replied' \in SUBSET Events
    PROVE  Inv'
<1>1. rows \in Nat /\ rows' \in Nat /\ rows <= rows'
  BY DEF Inv, TypeOK
<1>2. TypeOK'
  BY <1>1 DEF Inv, TypeOK, Ends, Stages, settings
<1>3. SummaryInv'
  <2>1. Covers(summary, rows)'
    BY <1>1, CoversLater DEF Inv, SummaryInv, Covers, FoldsOlder, First
  <2>2. ASSUME NEW d \in Events PROVE Covers(meta'[d], rows')
    <3>1. CASE d = e
      BY <3>1 DEF Ends, Covers, Inv, TypeOK
    <3>2. CASE d # e
      BY <3>2, <1>1, CoversLater DEF Ends, Inv, TypeOK, SummaryInv
    <3> QED
      BY <3>1, <3>2
  <2> QED
    BY <2>1, <2>2 DEF SummaryInv, Covers, FoldsOlder, First
<1>4. PlaceInv'
  BY <1>1 DEF Inv, TypeOK, PlaceInv, Ends
<1>5. KnowsInv'
  BY DEF Inv, TypeOK, KnowsInv, Ends, Covers, FoldsOlder, First
<1> QED
  BY <1>2, <1>3, <1>4, <1>5 DEF Inv

\* The steps of handle() before the message is stored.
LEMMA UpsertInv ==
    ASSUME Inv, NEW e \in Events,
           ReadBot(e) \/ ReadMetadata(e) \/ UpsertConversation(e)
    PROVE  Inv'
<1>1. /\ TypeOK' /\ UNCHANGED <<rows, place, seen, used, late>>
      /\ \A d \in Events : stage'[d] # stage[d] => stage'[d] \in {"metadata", "upsert", "store"}
  BY DEF Inv, TypeOK, Stages, ReadBot, ReadMetadata, UpsertConversation, Moves, settings, limiter
<1>2. /\ Covers(summary', rows)
      /\ \A d \in Events : Covers(meta'[d], rows)
  <2>1. summary' \in {summary, meta[e]}
    BY DEF ReadBot, ReadMetadata, UpsertConversation
  <2>2. \A d \in Events : meta'[d] \in {summary, meta[d], {}}
    BY DEF Inv, TypeOK, ReadBot, ReadMetadata, UpsertConversation
  <2>3. Covers({}, rows)
    BY DEF Covers
  <2> QED
    BY <2>1, <2>2, <2>3 DEF Inv, SummaryInv
<1>3. SummaryInv'
  BY <1>1, <1>2 DEF SummaryInv, Covers, FoldsOlder, First
<1>4. PlaceInv' /\ KnowsInv'
  BY <1>1 DEF Inv, PlaceInv, KnowsInv, Covers, FoldsOlder, First
<1> QED
  BY <1>1, <1>3, <1>4 DEF Inv

\* The message is stored.
LEMMA StoreInv == ASSUME Inv, NEW e \in Events, StoreAndEmit(e) PROVE Inv'
<1>1. CASE Ends(e)
  BY <1>1, EndsInv DEF StoreAndEmit, Inv, TypeOK, limiter
<1>2. CASE /\ Moves(e, "store", "limit")
           /\ place' = [place EXCEPT ![e] = rows + 1]
           /\ UNCHANGED <<on, meta, seen, used, late>>
  <2>1. rows \in Nat /\ rows' = rows + 1 /\ UNCHANGED <<summary, meta>>
    BY <1>2 DEF Inv, TypeOK, StoreAndEmit
  <2>2. TypeOK'
    BY <1>2, <2>1 DEF Inv, TypeOK, Stages, StoreAndEmit, Moves, settings, limiter
  <2>3. Covers(summary, rows') /\ \A d \in Events : Covers(meta[d], rows')
    BY <2>1, CoversLater DEF Inv, SummaryInv
  <2>4. SummaryInv'
    BY <2>1, <2>3 DEF SummaryInv, Covers, FoldsOlder, First
  <2>5. PlaceInv' /\ KnowsInv'
    BY <1>2, <2>1 DEF Inv, TypeOK, PlaceInv, KnowsInv, Moves, Covers, FoldsOlder, First
  <2> QED
    BY <2>2, <2>4, <2>5 DEF Inv
<1> QED
  BY <1>1, <1>2 DEF StoreAndEmit

\* The limiter and the history.
LEMMA AdmitInv == ASSUME Inv, NEW e \in Events, CheckRateLimit(e) PROVE Inv'
<1>1. CASE Ends(e)
  BY <1>1, EndsInv DEF CheckRateLimit, Inv, TypeOK
<1>2. CASE Moves(e, "limit", "retrieve") /\ UNCHANGED locals
  BY <1>2 DEF CheckRateLimit, Moves, Inv, TypeOK, Stages, SummaryInv, PlaceInv, KnowsInv,
     Covers, FoldsOlder, First, locals, settings
<1> QED
  BY <1>1, <1>2 DEF CheckRateLimit

LEMMA ReadHistoryInv == ASSUME Inv, NEW e \in Events, ReadHistory(e) PROVE Inv'
<1>1. TypeOK'
  BY DEF Inv, TypeOK, Stages, ReadHistory, Moves, settings, limiter
<1>2. SummaryInv'
  BY DEF Inv, SummaryInv, ReadHistory, Covers, FoldsOlder, First
<1>3. PlaceInv' /\ KnowsInv'
  BY DEF Inv, TypeOK, PlaceInv, KnowsInv, ReadHistory, Moves, Covers, FoldsOlder, First
<1> QED
  BY <1>1, <1>2, <1>3 DEF Inv

\* The summary is read.
LEMMA ReadSummaryInv == ASSUME Inv, NEW e \in Events, ReadSummary(e) PROVE Inv'
<1>1. TypeOK'
  BY DEF Inv, TypeOK, Stages, ReadSummary, Moves, settings, limiter
<1>2. SummaryInv'
  BY DEF Inv, SummaryInv, ReadSummary, Covers, FoldsOlder, First
<1>3. PlaceInv'
  BY DEF Inv, TypeOK, PlaceInv, ReadSummary, Moves
<1>4. KnowsInv'
  <2> SUFFICES ASSUME NEW d \in Events
               PROVE  /\ stage'[d] = "fold" => FoldsOlder(seen[d])
                      /\ stage'[d] = "chat" =>
                            \/ First(seen[d]) .. (seen[d] - 1) \subseteq used'[d]
                            \/ ~FoldsOlder(seen[d]) /\ Covers(used'[d], late'[d])
    BY DEF KnowsInv, ReadSummary, FoldsOlder, First, Covers
  <2>1. CASE d # e
    BY <2>1 DEF Inv, TypeOK, KnowsInv, ReadSummary, Moves
  <2>2. CASE d = e
    <3>1. stage'[e] = IF FoldsOlder(seen[e]) THEN "fold" ELSE "chat"
      BY DEF ReadSummary, Moves, Inv, TypeOK
    <3>2. used'[e] = summary /\ late'[e] = rows
      BY DEF ReadSummary, Inv, TypeOK
    <3>3. Covers(summary, rows)
      BY DEF Inv, SummaryInv
    <3> QED
      BY <2>2, <3>1, <3>2, <3>3
  <2> QED
    BY <2>1, <2>2
<1> QED
  BY <1>1, <1>2, <1>3, <1>4 DEF Inv

\* The summary is extended and written.
LEMMA UpdateInv == ASSUME Inv, NEW e \in Events, UpdateRollingSummary(e) PROVE Inv'
<1> DEFINE n == seen[e]
           folded == used[e] \cup OlderMessages(n) \cup RecentMessages(n)
<1>1. n \in 0 .. rows /\ rows \in Nat /\ used[e] \subseteq 1 .. rows /\ FoldsOlder(n)
  BY DEF Inv, TypeOK, KnowsInv, UpdateRollingSummary, Moves
<1>2. /\ summary' = folded /\ used' = [used EXCEPT ![e] = folded]
      /\ stage' = [stage EXCEPT ![e] = "chat"]
      /\ UNCHANGED <<settings, rows, limiter, on, meta, place, seen, late, replied>>
  BY DEF UpdateRollingSummary, Moves
<1>3. First(n) .. (n - 1) \subseteq folded
  BY <1>1, FoldIsWhole
<1>4. folded \subseteq 1 .. rows
  BY <1>1, AutoReplyAssumption DEF OlderMessages, RecentMessages, First
<1>5. Covers(folded, rows)
  <2>1. n \in 1 .. rows
    BY <1>1, AutoReplyAssumption DEF FoldsOlder, First
  <2> QED
    BY <1>1, <1>3, <2>1 DEF Covers
<1> HIDE DEF folded, n
<1>6. TypeOK'
  BY <1>2, <1>4 DEF Inv, TypeOK, Stages, settings, limiter
<1>7. SummaryInv'
  BY <1>2, <1>5 DEF Inv, SummaryInv, Covers, FoldsOlder, First
<1>8. PlaceInv'
  BY <1>2, UpdateRollingSummary(e) DEF Inv, TypeOK, PlaceInv, UpdateRollingSummary, Moves
<1>9. KnowsInv'
  <2> SUFFICES ASSUME NEW d \in Events
               PROVE  /\ stage'[d] = "fold" => FoldsOlder(seen[d])
                      /\ stage'[d] = "chat" =>
                            \/ First(seen[d]) .. (seen[d] - 1) \subseteq used'[d]
                            \/ ~FoldsOlder(seen[d]) /\ Covers(used'[d], late[d])
    BY <1>2 DEF KnowsInv, FoldsOlder, First, Covers
  <2>1. CASE d # e
    BY <1>2, <2>1 DEF Inv, TypeOK, KnowsInv
  <2>2. CASE d = e
    BY <1>2, <1>3, <2>2 DEF Inv, TypeOK, n
  <2> QED
    BY <2>1, <2>2
<1> QED
  BY <1>6, <1>7, <1>8, <1>9 DEF Inv

\* Every step keeps the invariant.
LEMMA NextInv == ASSUME Inv, [Next]_vars PROVE Inv'
<1>1. ASSUME NEW e \in Events, OutOfHours(e) \/ Reply(e) \/ GiveUp(e) PROVE Inv'
  <2>1. /\ Ends(e) /\ summary' = summary /\ UNCHANGED settings
        /\ rows' = rows /\ count' = count /\ windows' = windows
    BY <1>1 DEF OutOfHours, Reply, GiveUp, limiter
  <2>2. replied' \in SUBSET Events
    BY <1>1 DEF OutOfHours, Reply, GiveUp, Inv, TypeOK
  <2>3. count \in Nat /\ windows \in Nat
    BY DEF Inv, TypeOK
  <2> QED
    BY <2>1, <2>2, <2>3, EndsInv
<1>2. ASSUME NEW e \in Events, Handle(e) PROVE Inv'
  BY <1>1, <1>2, UpsertInv, StoreInv, AdmitInv, ReadHistoryInv, ReadSummaryInv, UpdateInv
     DEF Handle
<1>3. CASE SwitchAutoReply \/ WindowExpires
  <2>1. UNCHANGED <<summary, rows, stage, on, meta, place, seen, used, late, replied>>
    BY <1>3 DEF SwitchAutoReply, WindowExpires, locals
  <2>2. botOn' \in BOOLEAN /\ chatOn' \in BOOLEAN
    BY <1>3 DEF SwitchAutoReply, WindowExpires, Inv, TypeOK, settings
  <2>3. count' \in Nat /\ windows' \in Nat
    BY <1>3 DEF SwitchAutoReply, WindowExpires, Inv, TypeOK, limiter
  <2>4. TypeOK'
    BY <2>1, <2>2, <2>3 DEF Inv, TypeOK
  <2>5. SummaryInv' /\ PlaceInv' /\ KnowsInv'
    BY <2>1 DEF Inv, SummaryInv, PlaceInv, KnowsInv, Covers, FoldsOlder, First
  <2> QED
    BY <2>4, <2>5 DEF Inv
<1>4. CASE UNCHANGED vars
  BY <1>4 DEF vars, Inv, TypeOK, SummaryInv, PlaceInv, KnowsInv,
     Covers, FoldsOlder, First, locals, settings, limiter
<1> QED
  BY <1>2, <1>3, <1>4 DEF Next

\* Inv is an invariant of automatic replies.
LEMMA Invariance == Spec => []Inv
<1>1. Init => Inv
  BY InitInv
<1>2. Inv /\ [Next]_vars => Inv'
  BY NextInv
<1> QED
  BY <1>1, <1>2, PTL DEF Spec

-----------------------------------------------------------------------------
\* A summary that may be used with a history too short to be folded covers
\* all of it, unless its reader was overtaken.
LEMMA ShortHistoryCovered ==
    ASSUME NEW n \in Nat, NEW k \in Nat, NEW S, NEW i \in Window(n),
           ~FoldsOlder(n), Covers(S, k), S # {}, ~(n + History < k + Recent + Trigger)
    PROVE  i \in S \/ i \in RecentMessages(n) \/ i = n
<1>1. PICK w \in 1 .. k : FoldsOlder(w) /\ First(w) .. (w - 1) \subseteq S
  BY DEF Covers
<1>2. First(w) = 1 /\ n < w
  BY <1>1, AutoReplyAssumption DEF FoldsOlder, First, Window
<1>3. i \in First(w) .. (w - 1)
  BY <1>2, AutoReplyAssumption DEF Window, First
<1> QED
  BY <1>1, <1>3

\* Every state of the bot's variables is one the code can hold.
THEOREM TypeCorrect == Spec => []TypeOK
BY Invariance, PTL DEF Inv

\* The invariant leaves no gap in what the model is told.
LEMMA NoGap == Inv => ContextComplete
<1> SUFFICES ASSUME Inv, NEW e \in Events, stage[e] = "chat", ~Overtaken(e), NEW i \in Window(seen[e])
             PROVE  i \in Context(e)
  BY DEF ContextComplete
<1>1. seen[e] \in Nat /\ late[e] \in Nat
  BY DEF Inv, TypeOK
<1>2. CASE used[e] = {}
  BY <1>2 DEF Context
<1>3. CASE used[e] # {} /\ First(seen[e]) .. (seen[e] - 1) \subseteq used[e]
  <2>1. i \in First(seen[e]) .. (seen[e] - 1) \/ i = seen[e]
    BY <1>1, AutoReplyAssumption DEF Window, First
  <2> QED
    BY <1>3, <2>1 DEF Context
<1>4. CASE used[e] # {} /\ ~FoldsOlder(seen[e]) /\ Covers(used[e], late[e])
  BY <1>1, <1>4, ShortHistoryCovered DEF Context, Overtaken
<1> QED
  BY <1>2, <1>3, <1>4 DEF Inv, KnowsInv

\* For every limit the bot is configured with and however many replies,
\* summaries and inbound messages overlap, the language model is told of every
\* message of the history that generateReply read.
THEOREM NoGapInContext == Spec => []ContextComplete
  BY Invariance, NoGap, PTL

\* And so it is told of the message that it is to answer.
THEOREM TriggerAnswered == Spec => []TriggerInContext
<1>1. Inv => TriggerInContext
  <2> SUFFICES ASSUME Inv, NEW e \in Events, stage[e] = "chat", ~Overtaken(e),
                      ~(place[e] + History <= seen[e])
               PROVE  place[e] \in Context(e)
    BY DEF TriggerInContext
  <2>1. place[e] \in 1 .. seen[e] /\ seen[e] \in Nat
    BY DEF Inv, PlaceInv, TypeOK
  <2>2. place[e] \in Window(seen[e])
    BY <2>1, AutoReplyAssumption DEF Window, First
  <2> QED
    BY <2>2, NoGap DEF ContextComplete
<1> QED
  BY <1>1, Invariance, PTL

-----------------------------------------------------------------------------
\* Messages that the limiter let through: a reply was published or may still be.
Admitted == replied \cup {e \in Events : stage[e] \in {"retrieve", "summary", "fold", "chat"}}

\* They are paid for by the windows opened, of which the last may be partly spent.
QuotaInv ==
    /\ IsFiniteSet(Admitted)
    /\ count = 0 => Cardinality(Admitted) <= RateMax * windows
    /\ count > 0 => Cardinality(Admitted) + RateMax
                        <= RateMax * windows + (IF count < RateMax THEN count ELSE RateMax)

\* A step that admits nothing and leaves the limiter alone.
LEMMA QuotaKept ==
    ASSUME TypeOK, QuotaInv, Admitted' \subseteq Admitted, UNCHANGED limiter
    PROVE  QuotaInv'
<1>1. IsFiniteSet(Admitted') /\ Cardinality(Admitted') <= Cardinality(Admitted)
  BY FS_Subset DEF QuotaInv
<1>2. Cardinality(Admitted) \in Nat /\ Cardinality(Admitted') \in Nat
  BY <1>1, FS_CardinalityType DEF QuotaInv
<1> DEFINE paid == RateMax * windows
<1>3. paid \in Nat
  BY AutoReplyAssumption DEF TypeOK
<1>4. count' = count /\ windows' = windows /\ count \in Nat
  BY DEF limiter, TypeOK
<1>5. RateMax \in Nat
  BY AutoReplyAssumption
<1>6. /\ count = 0 => Cardinality(Admitted) <= paid
      /\ count > 0 => Cardinality(Admitted) + RateMax
                          <= paid + (IF count < RateMax THEN count ELSE RateMax)
  BY DEF QuotaInv
<1>7. RateMax * windows' = paid
  BY <1>4
<1> HIDE DEF paid
<1> QED
  BY <1>1, <1>2, <1>3, <1>4, <1>5, <1>6, <1>7 DEF QuotaInv

\* The limiter's own step.
LEMMA QuotaSpent ==
    ASSUME TypeOK, QuotaInv, NEW e \in Events, CheckRateLimit(e)
    PROVE  QuotaInv'
<1> DEFINE paid == RateMax * windows
           size == Cardinality(Admitted)
           size2 == Cardinality(Admitted')
<1>1. Admitted' \subseteq Admitted \cup {e} /\ (count >= RateMax => Admitted' \subseteq Admitted)
  <2>1. replied' = replied /\ count \in Nat /\ RateMax \in Nat
    BY AutoReplyAssumption DEF CheckRateLimit, TypeOK
  <2>2. CASE count < RateMax /\ stage' = [stage EXCEPT ![e] = "retrieve"]
    BY <2>1, <2>2 DEF Admitted, TypeOK
  <2>3. CASE count >= RateMax /\ stage' = [stage EXCEPT ![e] = "done"]
    BY <2>1, <2>3 DEF Admitted, TypeOK
  <2> QED
    BY <2>2, <2>3 DEF CheckRateLimit, Moves, Ends
<1>2. IsFiniteSet(Admitted \cup {e}) /\ Cardinality(Admitted \cup {e}) \in {size, size + 1}
  BY FS_AddElement DEF QuotaInv
<1>3. size \in Nat
  BY FS_CardinalityType DEF QuotaInv
<1>4. IsFiniteSet(Admitted') /\ size2 <= Cardinality(Admitted \cup {e})
  BY <1>1, <1>2, FS_Subset
<1>5. size2 \in Nat /\ size2 <= size + 1
  BY <1>2, <1>3, <1>4, FS_CardinalityType
<1>6. count >= RateMax => size2 <= size
  BY <1>1, FS_Subset DEF QuotaInv
<1>7. paid \in Nat /\ RateMax * (windows + 1) = paid + RateMax
  BY AutoReplyAssumption DEF TypeOK
<1>8. /\ count' = count + 1 /\ windows' = IF count = 0 THEN windows + 1 ELSE windows
      /\ count \in Nat /\ windows \in Nat /\ RateMax \in Nat \ {0}
  BY AutoReplyAssumption DEF CheckRateLimit, TypeOK
<1>9. RateMax * windows' = IF count = 0 THEN paid + RateMax ELSE paid
  BY <1>7, <1>8
<1>10. /\ count = 0 => size <= paid
       /\ count > 0 => size + RateMax <= paid + (IF count < RateMax THEN count ELSE RateMax)
  BY DEF QuotaInv
<1>11. size2 + RateMax
          <= RateMax * windows' + (IF count' < RateMax THEN count' ELSE RateMax)
  <2> HIDE DEF paid, size, size2
  <2> QED
    BY <1>3, <1>5, <1>6, <1>7, <1>8, <1>9, <1>10
<1> QED
  BY <1>4, <1>8, <1>11 DEF QuotaInv

\* However many replies are under way when a window of the limiter ends, and
\* whatever fails, RateMax replies are published for each window at most.
THEOREM RepliesBounded == Spec => []RepliesWithinWindows
<1>1. Init => QuotaInv
  <2> SUFFICES ASSUME Init PROVE QuotaInv
    OBVIOUS
  <2>1. Admitted = {}
    BY DEF Init, Admitted
  <2> QED
    BY <2>1, FS_EmptySet, AutoReplyAssumption DEF Init, QuotaInv
<1>2. TypeOK /\ QuotaInv /\ [Next]_vars => QuotaInv'
  <2> SUFFICES ASSUME TypeOK, QuotaInv, [Next]_vars PROVE QuotaInv'
    OBVIOUS
  <2>1. ASSUME NEW e \in Events, Handle(e), ~CheckRateLimit(e) PROVE QuotaInv'
    <3>1. UNCHANGED limiter
      BY <2>1 DEF Handle, ReadBot, ReadMetadata, UpsertConversation, StoreAndEmit, OutOfHours,
         ReadHistory, ReadSummary, UpdateRollingSummary, Reply, GiveUp
    <3>2. CASE ReadBot(e) \/ ReadMetadata(e) \/ UpsertConversation(e) \/ StoreAndEmit(e)
      <4>1. Admitted' \subseteq Admitted
        BY <3>2 DEF Admitted, TypeOK, ReadBot, ReadMetadata, UpsertConversation,
           StoreAndEmit, Moves, Ends
      <4> QED
        BY <3>1, <4>1, QuotaKept
    <3>3. CASE ReadHistory(e) \/ ReadSummary(e) \/ UpdateRollingSummary(e)
      <4>1. Admitted' \subseteq Admitted
        BY <3>3 DEF Admitted, TypeOK, ReadHistory, ReadSummary, UpdateRollingSummary, Moves
      <4> QED
        BY <3>1, <4>1, QuotaKept
    <3>4. CASE OutOfHours(e) \/ Reply(e) \/ GiveUp(e)
      <4>1. Admitted' \subseteq Admitted
        BY <3>4 DEF Admitted, TypeOK, OutOfHours, Reply, GiveUp, Ends
      <4> QED
        BY <3>1, <4>1, QuotaKept
    <3> QED
      BY <2>1, <3>2, <3>3, <3>4 DEF Handle
  <2>2. CASE SwitchAutoReply \/ UNCHANGED vars
    <3>1. Admitted' = Admitted /\ UNCHANGED limiter
      BY <2>2 DEF SwitchAutoReply, vars, Admitted
    <3> QED
      BY <3>1, QuotaKept
  <2>3. CASE WindowExpires
    <3>1. Admitted' = Admitted /\ count > 0 /\ count' = 0 /\ windows' = windows
      BY <2>3 DEF WindowExpires, Admitted
    <3> DEFINE paid == RateMax * windows
    <3>2. paid \in Nat /\ RateMax * windows' = paid /\ count \in Nat /\ RateMax \in Nat
      BY <3>1, AutoReplyAssumption DEF TypeOK
    <3>3. Cardinality(Admitted) \in Nat
      BY FS_CardinalityType DEF QuotaInv
    <3>4. Cardinality(Admitted) + RateMax <= paid + (IF count < RateMax THEN count ELSE RateMax)
      BY <3>1 DEF QuotaInv
    <3> HIDE DEF paid
    <3>5. Cardinality(Admitted) <= paid
      BY <3>2, <3>3, <3>4
    <3> QED
      BY <3>1, <3>2, <3>5 DEF QuotaInv
  <2> QED
    BY <2>1, <2>2, <2>3, QuotaSpent DEF Next
<1>3. TypeOK /\ QuotaInv => RepliesWithinWindows
  <2> SUFFICES ASSUME TypeOK, QuotaInv PROVE RepliesWithinWindows
    OBVIOUS
  <2>1. Cardinality(replied) <= Cardinality(Admitted) /\ IsFiniteSet(replied)
    BY FS_Subset DEF QuotaInv, Admitted
  <2>2. Cardinality(replied) \in Nat /\ Cardinality(Admitted) \in Nat
    BY <2>1, FS_CardinalityType DEF QuotaInv
  <2> DEFINE paid == RateMax * windows
  <2>3. paid \in Nat /\ count \in Nat /\ RateMax \in Nat
    BY AutoReplyAssumption DEF TypeOK
  <2>4. /\ count = 0 => Cardinality(Admitted) <= paid
        /\ count > 0 => Cardinality(Admitted) + RateMax
                            <= paid + (IF count < RateMax THEN count ELSE RateMax)
    BY DEF QuotaInv
  <2>5. Cardinality(replied) <= paid
    <3> HIDE DEF paid
    <3> QED
      BY <2>1, <2>2, <2>3, <2>4
  <2> QED
    BY <2>5 DEF RepliesWithinWindows
<1> QED
  BY <1>1, <1>2, <1>3, TypeCorrect, PTL DEF Spec
=============================================================================
