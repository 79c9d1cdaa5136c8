---------------------------- MODULE ConsoleProofs ----------------------------
(***************************************************************************)
(* Proofs about Console: every behaviour of the whole is one of each part,  *)
(* so that what is proved of the parts holds of the whole for any plans,    *)
(* however the parts are interleaved and whenever the process dies.  The    *)
(* log (MessageLog) and the report are proved about here; the other parts   *)
(* in PartsProofs.                                                         *)
(***************************************************************************)
EXTENDS Console, PartsProofs, SequenceTheorems, FiniteSetTheorems, WellFoundedInduction, TLAPS

-----------------------------------------------------------------------------
(* The log's types                                                         *)

LogRows == [m : Messages, at : Nat, raw : BOOLEAN, auto : BOOLEAN, by : SUBSET People,
            recalled : BOOLEAN, type : Types]

\* The messages that were sent.
Known == {m \in Messages : sent[m] # Nil}

LogStateInv ==
    /\ clock \in Nat /\ serial \in Nat /\ agenda \in Agendas
    /\ sent \in [Messages -> [at : Nat, content : RawKinds] \cup {Nil}]
    /\ zalo \in [Messages -> [by : SUBSET People, recalled : BOOLEAN]]
    /\ pushed \in [Messages -> (SUBSET People) \cup {Nil}]
    /\ rows \in Seq(LogRows)
    /\ events \subseteq Reactions \cup Undos
    /\ handler \in [Handlers -> Handlings \cup {Nil}]
    /\ disturbed \subseteq Messages /\ unmarked \subseteq Messages

\* A message that was sent has one row, no older than the clock.
OneRowInv ==
    /\ \A i \in RowIds : rows[i].m \in Known /\ rows[i].at <= clock
    /\ \A i, j \in RowIds : rows[i].m = rows[j].m => i = j

\* Only what was sent has events and handlers.
KnownInv ==
    /\ agenda.messages \cap Known = {}
    /\ \A m \in Known : sent[m].at <= clock
    /\ \A e \in events : e.m \in Known /\ e.n \in 1 .. serial
    /\ \A h \in Handlers : handler[h] # Nil =>
          /\ handler[h].row \in RowIds /\ handler[h].e.m \in Known
          /\ handler[h].e.n \in 1 .. serial
          /\ handler[h].step = "push" => handler[h].e.type = "reaction"

\* A listing imports what was sent.
ReaderInv ==
    reader # Nil =>
        /\ reader = [step |-> reader.step, cursor |-> reader.cursor, got |-> reader.got,
                     before |-> reader.before, todo |-> reader.todo, listed |-> reader.listed]
        /\ reader.todo \subseteq Known

\* A row has the type of its message, as it comes live or with the history.
KindsInv ==
    \A i \in RowIds :
        LET content == sent[rows[i].m].content IN
        rows[i].type \in {LiveType(content), HistoryType(content)}

LogTypesInv == LogStateInv /\ OneRowInv /\ KnownInv /\ ReaderInv /\ KindsInv

LEMMA OneAttachment ==
    ASSUME NEW k \in 1 .. 6, NEW type
    PROVE  RowType(type, <<TypeOrder[k]>>) =
              IF type \in {"pin", "unknown"} THEN type ELSE TypeOrder[k]
<1>1. Len(TypeOrder) = 6 /\ \A i, j \in 1 .. 6 : TypeOrder[i] = TypeOrder[j] => i = j
  BY DEF TypeOrder
<1>2. ToSet(<<TypeOrder[k]>>) = {TypeOrder[k]}
  BY DEF ToSet
<1>3. {i \in 1 .. Len(TypeOrder) : TypeOrder[i] \in ToSet(<<TypeOrder[k]>>)} = {k}
  BY <1>1, <1>2
<1>4. Min({k}) = k
  <2>1. Min({k}) = CHOOSE x \in {k} : \A y \in {k} : x =< y
    BY DEF Min
  <2> QED
    BY <2>1
<1>5. SelectInSeq(TypeOrder, LAMBDA t : t \in ToSet(<<TypeOrder[k]>>)) = k
  <2>1. PICK I : I = {i \in 1 .. Len(TypeOrder) : TypeOrder[i] \in ToSet(<<TypeOrder[k]>>)}
    OBVIOUS
  <2>2. SelectInSeq(TypeOrder, LAMBDA t : t \in ToSet(<<TypeOrder[k]>>)) =
           IF I # {} THEN Min(I) ELSE 0
    BY <2>1 DEF SelectInSeq
  <2> QED
    BY <1>3, <1>4, <2>1, <2>2
<1>6. <<TypeOrder[k]>> # <<>>
  OBVIOUS
<1> QED
  BY <1>5, <1>6 DEF RowType

\* The types of the rows, whichever way the message comes, are the table's.
LEMMA TypesAreDocumented ==
    ASSUME NEW raw \in RawKinds, NEW type \in {LiveType(raw), HistoryType(raw)}
    PROVE  /\ type \in Types
           /\ raw \in DOMAIN Documented => type = Documented[raw]
<1>1. /\ TypeOrder[1] = "image" /\ TypeOrder[2] = "video" /\ TypeOrder[3] = "file"
      /\ TypeOrder[4] = "voice" /\ TypeOrder[5] = "sticker" /\ TypeOrder[6] = "link"
  BY DEF TypeOrder
<1>2. CASE Attachments(raw) = <<>>
  <2>1. raw \in {"string", "other"}
    BY <1>2 DEF Attachments
  <2>2. \A t \in {"webchat", "none"} : RowType(t, <<>>) = "webchat"
    BY DEF RowType
  <2>3. type = "webchat"
    BY <1>2, <2>2 DEF LiveType, HistoryType, Normalized, NormalizedType
  <2> QED
    BY <2>1, <2>3 DEF Types, Documented
<1>3. ASSUME NEW k \in 1 .. 6, Attachments(raw) = <<TypeOrder[k]>>
      PROVE  type = TypeOrder[k]
  <2>1. TypeOrder[k] \in Types \ {"pin", "unknown"}
    BY <1>1 DEF Types
  <2>2. NormalizedType(<<TypeOrder[k]>>) = TypeOrder[k]
    BY <2>1 DEF NormalizedType
  <2>3. LiveType(raw) = RowType(TypeOrder[k], <<TypeOrder[k]>>)
    BY <1>3, <2>2 DEF LiveType, Normalized
  <2>4. HistoryType(raw) = RowType("none", <<TypeOrder[k]>>)
    BY <1>3 DEF HistoryType
  <2> QED
    BY <2>1, <2>3, <2>4, OneAttachment
<1>4. CASE raw = "chat.photo"
  BY <1>1, <1>3, <1>4 DEF Attachments, Types, Documented
<1>5. CASE raw = "chat.video.msg"
  BY <1>1, <1>3, <1>5 DEF Attachments, Extracted, Types, Documented
<1>6. CASE raw \in {"chat.attach", "share.file"}
  BY <1>1, <1>3, <1>6 DEF Attachments, Extracted, Types, Documented
<1>7. CASE raw = "chat.voice"
  BY <1>1, <1>3, <1>7 DEF Attachments, Extracted, Types, Documented
<1>8. CASE raw = "chat.sticker"
  BY <1>1, <1>3, <1>8 DEF Attachments, Types, Documented
<1>9. CASE raw \in {"chat.link", "chat.recommended", "chat.location.new"}
  BY <1>1, <1>3, <1>9 DEF Attachments, Extracted, Types, Documented
<1>10. CASE raw \in {"string", "other"}
  BY <1>2, <1>10 DEF Attachments
<1> QED
  BY <1>4, <1>5, <1>6, <1>7, <1>8, <1>9, <1>10 DEF RawKinds

\* A sequence with one element replaced, and with one more.
LEMMA RowReplaced ==
    ASSUME rows \in Seq(LogRows), NEW i \in RowIds, NEW r \in LogRows,
           rows' = [rows EXCEPT ![i] = r]
    PROVE  /\ rows' \in Seq(LogRows) /\ RowIds' = RowIds
           /\ \A j \in RowIds : rows'[j] = IF j = i THEN r ELSE rows[j]
<1>1. rows \in [1 .. Len(rows) -> LogRows] /\ Len(rows) \in Nat
  OBVIOUS
<1>2. rows' \in [1 .. Len(rows) -> LogRows]
  BY <1>1 DEF RowIds
<1>3. rows' \in Seq(LogRows)
  BY <1>1, <1>2, SeqDef
<1> QED
  BY <1>1, <1>2, <1>3 DEF RowIds

LEMMA RowAdded ==
    ASSUME rows \in Seq(LogRows), NEW r \in LogRows, rows' = Append(rows, r)
    PROVE  /\ rows' \in Seq(LogRows) /\ RowIds' = RowIds \cup {Len(rows) + 1}
           /\ Len(rows) + 1 \notin RowIds /\ rows'[Len(rows) + 1] = r
           /\ \A j \in RowIds : rows'[j] = rows[j]
  BY DEF RowIds

LEMMA RowFields ==
    ASSUME rows \in Seq(LogRows), NEW i \in RowIds
    PROVE  /\ rows[i] \in LogRows /\ i \in Nat
           /\ rows[i].m \in Messages /\ rows[i].at \in Nat /\ rows[i].raw \in BOOLEAN
           /\ rows[i].by \subseteq People /\ rows[i].recalled \in BOOLEAN /\ rows[i].type \in Types
<1>1. rows[i] \in LogRows /\ i \in Nat
  BY DEF RowIds
<1> QED
  BY <1>1 DEF LogRows

\* What a rewritten row keeps, and what a new one has.
LEMMA RewrittenTypes ==
    ASSUME LogTypesInv, UNCHANGED <<clock, sent>>, NEW i \in RowIds, NEW r \in LogRows,
           r.m = rows[i].m, r.at = rows[i].at, r.type = rows[i].type,
           rows' = [rows EXCEPT ![i] = r]
    PROVE  rows' \in Seq(LogRows) /\ RowIds' = RowIds /\ OneRowInv' /\ KindsInv'
<1>1. /\ rows' \in Seq(LogRows) /\ RowIds' = RowIds
      /\ \A j \in RowIds : rows'[j] = IF j = i THEN r ELSE rows[j]
  BY RowReplaced DEF LogTypesInv, LogStateInv
<1>2. \A j \in RowIds : rows'[j].m = rows[j].m /\ rows'[j].at = rows[j].at /\ rows'[j].type = rows[j].type
  BY <1>1
<1>3. OneRowInv'
  BY <1>1, <1>2 DEF LogTypesInv, OneRowInv, Known
<1>4. KindsInv'
  BY <1>1, <1>2 DEF LogTypesInv, KindsInv
<1> QED
  BY <1>1, <1>3, <1>4

LEMMA AddedTypes ==
    ASSUME LogTypesInv, UNCHANGED <<clock, sent>>, NEW m \in Known, Rows(m) = {},
           NEW live \in BOOLEAN, NEW auto \in BOOLEAN, rows' = Append(rows, Row(m, live, auto))
    PROVE  rows' \in Seq(LogRows) /\ RowIds \subseteq RowIds' /\ OneRowInv' /\ KindsInv'
<1>1. PICK r : r = Row(m, live, auto)
  OBVIOUS
<1>2. sent[m].content \in RawKinds /\ m \in Messages /\ clock \in Nat
  BY DEF LogTypesInv, LogStateInv, Known
<1>3. /\ r.m = m /\ r.at = clock
      /\ r.type \in {LiveType(sent[m].content), HistoryType(sent[m].content)}
  BY <1>1 DEF Row
<1>4. r.type \in Types
  BY <1>2, <1>3, TypesAreDocumented
<1>5. r \in LogRows
  <2>1. PICK t : /\ r = [m |-> m, at |-> clock, raw |-> live, auto |-> auto, by |-> {},
                          recalled |-> FALSE, type |-> t]
    BY <1>1 DEF Row
  <2>2. t \in Types
    BY <1>4, <2>1
  <2> QED
    BY <1>2, <2>1, <2>2 DEF LogRows
<1>6. /\ rows' \in Seq(LogRows) /\ RowIds' = RowIds \cup {Len(rows) + 1}
      /\ Len(rows) + 1 \notin RowIds /\ rows'[Len(rows) + 1] = r
      /\ \A j \in RowIds : rows'[j] = rows[j]
  BY <1>1, <1>5, RowAdded DEF LogTypesInv, LogStateInv
<1>7. \A j \in RowIds : rows[j].m # m
  BY DEF Rows
<1>8. OneRowInv'
  <2>1. /\ \A j \in RowIds : rows[j].m \in Known /\ rows[j].at <= clock
        /\ \A j, k \in RowIds : rows[j].m = rows[k].m => j = k
    BY DEF LogTypesInv, OneRowInv
  <2>2. PICK new : new = Len(rows) + 1
    OBVIOUS
  <2>3. /\ RowIds' = RowIds \cup {new} /\ new \notin RowIds /\ rows'[new] = r
        /\ \A j \in RowIds : rows'[j] = rows[j]
    BY <1>6, <2>2
  <2>4. ASSUME NEW j \in RowIds' PROVE rows'[j].m \in Known /\ rows'[j].at <= clock
    <3>1. CASE j \in RowIds
      BY <2>1, <2>3, <3>1
    <3>2. CASE j = new
      <4>1. rows'[j] = r
        BY <2>3, <3>2
      <4> QED
        BY <1>2, <1>3, <4>1
    <3> QED
      BY <2>3, <3>1, <3>2
  <2>5. ASSUME NEW j \in RowIds', NEW k \in RowIds', rows'[j].m = rows'[k].m PROVE j = k
    <3>1. \A i \in RowIds' : i # new => i \in RowIds /\ rows'[i].m = rows[i].m /\ rows'[i].m # m
      BY <1>7, <2>3
    <3>2. rows'[new].m = m
      BY <1>3, <2>3
    <3> QED
      BY <2>1, <2>5, <3>1, <3>2
  <2>6. Known' = Known /\ clock' = clock
    BY DEF Known
  <2> QED
    BY <2>4, <2>5, <2>6 DEF OneRowInv
<1>9. KindsInv'
  BY <1>3, <1>6 DEF LogTypesInv, KindsInv
<1> QED
  BY <1>6, <1>8, <1>9

LEMMA AgendaSpent ==
    ASSUME agenda \in Agendas, Spend("reactions") \/ Spend("recalls") \/ Spend("requests")
                                 \/ Spend("listings") \/ Spend("rewrites") \/ Spend("ticks")
    PROVE  agenda' \in Agendas /\ agenda'.messages = agenda.messages
  BY DEF Agendas, Spend

\* What a step that leaves the messages, their rows and their events alone keeps.
LEMMA TypesRest ==
    ASSUME LogTypesInv, UNCHANGED <<zaloVars, listenerVars, rows>>,
           agenda' \in Agendas, agenda'.messages = agenda.messages,
           ReaderInv'
    PROVE  LogTypesInv'
<1>1. LogStateInv'
  BY DEF LogTypesInv, LogStateInv, zaloVars, listenerVars
<1>2. OneRowInv' /\ KindsInv'
  BY DEF LogTypesInv, OneRowInv, KindsInv, Known, RowIds, zaloVars
<1>3. KnownInv'
  BY DEF LogTypesInv, KnownInv, Known, RowIds, zaloVars, listenerVars
<1> QED
  BY <1>1, <1>2, <1>3 DEF LogTypesInv

\* A page leaves the listing as it was made, and what is to be imported.
LEMMA PageRead ==
    ASSUME ReaderInv, reader # Nil, UNCHANGED sent, NEW cursor, ReadsPage(cursor)
    PROVE  ReaderInv'
<1>1. PICK got, before, next, step :
         reader' = [reader EXCEPT !.got = got, !.before = before, !.cursor = next, !.step = step]
  BY DEF ReadsPage
<1>2. reader' = [step |-> step, cursor |-> next, got |-> got, before |-> before,
                 todo |-> reader.todo, listed |-> reader.listed]
  BY <1>1 DEF ReaderInv
<1>3. /\ reader'.todo = reader.todo
      /\ reader' = [step |-> reader'.step, cursor |-> reader'.cursor, got |-> reader'.got,
                    before |-> reader'.before, todo |-> reader'.todo, listed |-> reader'.listed]
  BY <1>2
<1> QED
  BY <1>3 DEF ReaderInv, Known

LEMMA ReaderMoves ==
    ASSUME ReaderInv, reader # Nil, UNCHANGED sent, NEW step, NEW todo \in SUBSET Known, NEW listed,
           \/ reader' = [reader EXCEPT !.step = step]
           \/ reader' = [reader EXCEPT !.todo = todo]
           \/ reader' = [reader EXCEPT !.step = step, !.listed = listed]
           \/ reader' = [reader EXCEPT !.step = step, !.todo = todo, !.listed = listed]
    PROVE  ReaderInv'
<1>1. PICK s, t, l : /\ t \subseteq Known
                     /\ reader' = [step |-> s, cursor |-> reader.cursor, got |-> reader.got,
                                   before |-> reader.before, todo |-> t, listed |-> l]
  <2>1. CASE reader' = [reader EXCEPT !.step = step]
    BY <2>1 DEF ReaderInv
  <2>2. CASE reader' = [reader EXCEPT !.todo = todo]
    BY <2>2 DEF ReaderInv
  <2>3. CASE reader' = [reader EXCEPT !.step = step, !.listed = listed]
    BY <2>3 DEF ReaderInv
  <2>4. CASE reader' = [reader EXCEPT !.step = step, !.todo = todo, !.listed = listed]
    BY <2>4 DEF ReaderInv
  <2> QED
    BY <2>1, <2>2, <2>3, <2>4
<1>2. /\ reader'.todo = t
      /\ reader' = [step |-> reader'.step, cursor |-> reader'.cursor, got |-> reader'.got,
                    before |-> reader'.before, todo |-> reader'.todo, listed |-> reader'.listed]
  BY <1>1
<1> QED
  BY <1>1, <1>2 DEF ReaderInv, Known

-----------------------------------------------------------------------------
(* Each action keeps the types                                             *)

\* What a step does that leaves the rows and the messages alone.
LEMMA TypesOfOthers ==
    ASSUME LogTypesInv, UNCHANGED <<clock, sent, rows, reader>>,
           LogStateInv',
           agenda'.messages = agenda.messages,
           \A e \in events' : e.m \in Known /\ e.n \in 1 .. serial',
           \A h \in Handlers : handler'[h] # Nil =>
              /\ handler'[h].row \in RowIds /\ handler'[h].e.m \in Known
              /\ handler'[h].e.n \in 1 .. serial'
              /\ handler'[h].step = "push" => handler'[h].e.type = "reaction"
    PROVE  LogTypesInv'
<1>1. Known' = Known /\ RowIds' = RowIds
  BY DEF Known, RowIds
<1>2. OneRowInv' /\ KindsInv'
  BY <1>1 DEF LogTypesInv, OneRowInv, KindsInv
<1>3. KnownInv'
  BY <1>1 DEF LogTypesInv, KnownInv
<1>4. ReaderInv'
  BY <1>1 DEF LogTypesInv, ReaderInv
<1> QED
  BY <1>2, <1>3, <1>4 DEF LogTypesInv

LEMMA HandlerFields ==
    ASSUME LogTypesInv, NEW h \in Handlers, handler[h] # Nil
    PROVE  /\ handler[h] \in Handlings
           /\ handler[h].e \in Reactions \cup Undos /\ handler[h].row \in RowIds
           /\ handler[h].by \subseteq People /\ handler[h].step \in {"write", "push"}
           /\ handler[h].e.m \in Known /\ handler[h].e.n \in 1 .. serial /\ serial \in Nat
           /\ handler[h].step = "push" => handler[h].e.type = "reaction"
<1>1. handler[h] \in Handlings
  BY DEF LogTypesInv, LogStateInv
<1> QED
  BY <1>1 DEF LogTypesInv, LogStateInv, KnownInv, Handlings

LEMMA EventFields ==
    ASSUME NEW e \in Reactions \cup Undos
    PROVE  /\ e.n \in Nat /\ e.m \in Messages
           /\ e.type = "reaction" => e \in Reactions /\ e.by \in People /\ e.on \in BOOLEAN
                                       /\ e.named \in BOOLEAN
           /\ e.type # "reaction" => e.type = "undo"
  BY DEF Reactions, Undos

\* A message is sent: by somebody, or by the account that forwards one.
LEMMA Sending ==
    ASSUME LogTypesInv, NEW m \in Messages, Send(m) \/ ConsoleForwards(m)
    PROVE  /\ UNCHANGED <<clock, zalo, events, serial, rows, listenerVars, reader>>
           /\ agenda' \in Agendas
           /\ \E x \in agenda.messages, content \in RawKinds :
                 /\ sent' = [sent EXCEPT ![x] = [at |-> clock, content |-> content]]
                 /\ agenda'.messages = agenda.messages \ {x}
<1>1. agenda \in Agendas
  BY DEF LogTypesInv, LogStateInv
<1>2. CASE Send(m)
  <2>1. /\ m \in agenda.messages /\ agenda' = [agenda EXCEPT !.messages = @ \ {m}]
        /\ UNCHANGED <<clock, zalo, events, serial, rows, listenerVars, reader>>
    BY <1>2 DEF Send
  <2>2. PICK content \in agenda.contents : sent' = [sent EXCEPT ![m] = [at |-> clock, content |-> content]]
    BY <1>2 DEF Send
  <2>3. agenda' \in Agendas /\ agenda'.messages = agenda.messages \ {m} /\ content \in RawKinds
    BY <1>1, <2>1 DEF Agendas
  <2> QED
    BY <2>1, <2>2, <2>3
<1>3. CASE ConsoleForwards(m)
  <2>1. PICK x \in Own \cap agenda.messages :
          /\ sent' = [sent EXCEPT ![x] = [at |-> clock, content |-> "string"]]
          /\ agenda' = [agenda EXCEPT !.requests = @ - 1, !.messages = @ \ {x}]
    BY <1>3 DEF ConsoleForwards
  <2>2. /\ agenda.requests > 0
        /\ UNCHANGED <<clock, zalo, events, serial, rows, listenerVars, reader>>
    BY <1>3 DEF ConsoleForwards
  <2>3. agenda' \in Agendas /\ agenda'.messages = agenda.messages \ {x}
    <3>1. PICK n, rest : n = agenda.requests - 1 /\ rest = agenda.messages \ {x}
      OBVIOUS
    <3>2. n \in Nat /\ rest \in SUBSET Messages
      BY <1>1, <2>2, <3>1 DEF Agendas
    <3>3. agenda' = [agenda EXCEPT !.requests = n, !.messages = rest]
      BY <2>1, <3>1
    <3> QED
      BY <1>1, <3>1, <3>2, <3>3 DEF Agendas
  <2>4. "string" \in RawKinds
    BY DEF RawKinds
  <2> QED
    BY <2>1, <2>2, <2>3, <2>4
<1> QED
  BY <1>2, <1>3

LEMMA TypesOfTime ==
    ASSUME LogTypesInv, Tick \/ \E m \in Messages : Send(m) \/ ConsoleForwards(m)
    PROVE  LogTypesInv'
<1>1. CASE Tick
  <2>1. agenda' \in Agendas /\ agenda'.messages = agenda.messages
    BY <1>1, AgendaSpent DEF Tick, LogTypesInv, LogStateInv
  <2>2. clock' = clock + 1 /\ clock \in Nat /\ UNCHANGED <<sent, zalo, events, serial, rows, listenerVars, reader>>
    BY <1>1 DEF Tick, LogTypesInv, LogStateInv
  <2>3. Known' = Known /\ RowIds' = RowIds
    BY <2>2 DEF Known, RowIds
  <2>4. LogStateInv'
    BY <2>1, <2>2 DEF LogTypesInv, LogStateInv, listenerVars
  <2>5. ASSUME NEW m \in Known PROVE sent[m].at <= clock'
    <3>1. sent[m].at \in Nat /\ sent[m].at <= clock
      BY DEF LogTypesInv, LogStateInv, KnownInv, Known
    <3> QED
      BY <2>2, <3>1
  <2>6. ASSUME NEW i \in RowIds PROVE rows[i].m \in Known /\ rows[i].at <= clock'
    <3>1. rows[i].at \in Nat /\ rows[i].m \in Known /\ rows[i].at <= clock
      BY RowFields DEF LogTypesInv, LogStateInv, OneRowInv
    <3> QED
      BY <2>2, <3>1
  <2>7. KnownInv'
    BY <2>1, <2>2, <2>3, <2>5 DEF LogTypesInv, KnownInv, listenerVars
  <2>8. OneRowInv' /\ KindsInv' /\ ReaderInv'
    BY <2>2, <2>3, <2>6 DEF LogTypesInv, OneRowInv, KindsInv, ReaderInv
  <2> QED
    BY <2>4, <2>7, <2>8 DEF LogTypesInv
<1>2. ASSUME NEW n \in Messages, Send(n) \/ ConsoleForwards(n) PROVE LogTypesInv'
  <2>1. /\ agenda \in Agendas /\ agenda' \in Agendas /\ clock \in Nat
        /\ UNCHANGED <<clock, zalo, events, serial, rows, listenerVars, reader>>
    BY <1>2, Sending DEF LogTypesInv, LogStateInv
  <2>2. PICK m \in agenda.messages, content \in RawKinds :
          /\ sent' = [sent EXCEPT ![m] = [at |-> clock, content |-> content]]
          /\ agenda'.messages = agenda.messages \ {m}
    BY <1>2, Sending
  <2>3. m \in Messages
    BY <2>1 DEF Agendas
  <2>4. m \notin Known
    BY <2>2 DEF LogTypesInv, KnownInv
  <2>5. sent' \in [Messages -> [at : Nat, content : RawKinds] \cup {Nil}]
    BY <2>1, <2>2, <2>3 DEF LogTypesInv, LogStateInv
  <2>6. /\ \A x \in Known : sent'[x] = sent[x]
        /\ sent'[m].at = clock
        /\ Known \subseteq Known' /\ Known' \subseteq Known \cup {m}
    BY <2>2, <2>3, <2>4 DEF LogTypesInv, LogStateInv, Known
  <2>7. LogStateInv'
    BY <2>1, <2>5 DEF LogTypesInv, LogStateInv, listenerVars
  <2>8. RowIds' = RowIds /\ \A i \in RowIds : rows[i].m \in Known
    BY <2>1 DEF RowIds, LogTypesInv, OneRowInv
  <2>9. OneRowInv' /\ KindsInv'
    BY <2>1, <2>6, <2>8 DEF LogTypesInv, OneRowInv, KindsInv
  <2>10. ReaderInv'
    BY <2>1, <2>6 DEF LogTypesInv, ReaderInv
  <2>11. \A x \in Known' : sent'[x].at <= clock
    BY <2>1, <2>6 DEF LogTypesInv, KnownInv
  <2>12. agenda'.messages \cap Known' = {}
    BY <2>2, <2>6 DEF LogTypesInv, KnownInv
  <2>13. KnownInv'
    BY <2>1, <2>6, <2>8, <2>11, <2>12 DEF LogTypesInv, KnownInv, listenerVars
  <2> QED
    BY <2>7, <2>9, <2>10, <2>13 DEF LogTypesInv
<1> QED
  BY <1>1, <1>2

\* Storing adds the row of a message that was sent, or marks it anew.
LEMMA StoresOrMarks ==
    ASSUME LogTypesInv, NEW m \in Messages,
           Store(m) \/ ImportMessage(m)
    PROVE  /\ UNCHANGED <<zaloVars, listenerVars>> /\ m \in Known
           /\ agenda' \in Agendas /\ agenda'.messages = agenda.messages
           /\ ReaderInv'
           /\ \/ UNCHANGED rows
              \/ /\ Rows(m) = {}
                 /\ \E live, auto \in BOOLEAN : rows' = Append(rows, Row(m, live, auto))
              \/ \E i \in Rows(m), auto \in BOOLEAN : rows' = [rows EXCEPT ![i].auto = auto]
<1>1. CASE Store(m)
  <2>1. m \in Known /\ UNCHANGED <<zaloVars, listenerVars, reader>>
    BY <1>1 DEF Store, Known
  <2>2. UNCHANGED sent /\ ReaderInv /\ agenda \in Agendas
    BY <2>1 DEF zaloVars, LogTypesInv, LogStateInv
  <2>3. ReaderInv'
    BY <2>1, <2>2 DEF ReaderInv, Known
  <2>4. PICK auto \in BOOLEAN :
           \/ /\ Rows(m) = {}
              /\ rows' = Append(rows, Row(m, TRUE, auto))
              /\ UNCHANGED agenda
           \/ /\ Spend("rewrites")
              /\ \E i \in Rows(m) : rows' = [rows EXCEPT ![i].auto = auto]
    BY <1>1 DEF Store
  <2>5. agenda' \in Agendas /\ agenda'.messages = agenda.messages
    BY <2>2, <2>4, AgendaSpent
  <2> QED
    BY <2>1, <2>3, <2>4, <2>5
<1>2. CASE ImportMessage(m)
  <2>1. /\ reader # Nil /\ m \in reader.todo /\ reader' = [reader EXCEPT !.todo = @ \ {m}]
        /\ UNCHANGED <<zaloVars, listenerVars, agenda>>
        /\ rows' = IF Rows(m) = {} THEN Append(rows, Row(m, FALSE, FALSE)) ELSE rows
    BY <1>2 DEF ImportMessage
  <2>2. ReaderInv /\ agenda \in Agendas /\ UNCHANGED sent
    BY <2>1 DEF LogTypesInv, LogStateInv, zaloVars
  <2>3. reader.todo \ {m} \subseteq Known /\ m \in Known
    BY <2>1, <2>2 DEF ReaderInv
  <2>4. ReaderInv'
    BY <2>1, <2>2, <2>3, ReaderMoves
  <2> QED
    BY <2>1, <2>2, <2>3, <2>4
<1> QED
  BY <1>1, <1>2

LEMMA TypesOfRows ==
    ASSUME LogTypesInv, NEW m \in Messages, Store(m) \/ ImportMessage(m)
    PROVE  LogTypesInv'
<1>1. /\ UNCHANGED <<zaloVars, listenerVars>> /\ m \in Known
      /\ agenda' \in Agendas /\ agenda'.messages = agenda.messages
      /\ ReaderInv'
      /\ \/ UNCHANGED rows
         \/ /\ Rows(m) = {}
            /\ \E live, auto \in BOOLEAN : rows' = Append(rows, Row(m, live, auto))
         \/ \E i \in Rows(m), auto \in BOOLEAN : rows' = [rows EXCEPT ![i].auto = auto]
  BY StoresOrMarks
<1>2. UNCHANGED <<clock, sent>> /\ Known' = Known
  BY <1>1 DEF zaloVars, Known
<1>3. rows' \in Seq(LogRows) /\ RowIds \subseteq RowIds' /\ OneRowInv' /\ KindsInv'
  <2>1. CASE UNCHANGED rows
    BY <1>2, <2>1 DEF LogTypesInv, LogStateInv, OneRowInv, KindsInv, RowIds
  <2>2. CASE /\ Rows(m) = {}
             /\ \E live, auto \in BOOLEAN : rows' = Append(rows, Row(m, live, auto))
    BY <1>1, <1>2, <2>2, AddedTypes
  <2>3. ASSUME NEW i \in Rows(m), NEW auto \in BOOLEAN, rows' = [rows EXCEPT ![i].auto = auto]
        PROVE  rows' \in Seq(LogRows) /\ RowIds \subseteq RowIds' /\ OneRowInv' /\ KindsInv'
    <3>1. i \in RowIds /\ rows[i] \in LogRows
      BY RowFields DEF Rows, LogTypesInv, LogStateInv
    <3>2. PICK r : r = [rows[i] EXCEPT !.auto = auto]
      OBVIOUS
    <3>3. r \in LogRows /\ r.m = rows[i].m /\ r.at = rows[i].at /\ r.type = rows[i].type
      BY <3>1, <3>2 DEF LogRows
    <3>4. rows' = [rows EXCEPT ![i] = r]
      BY <2>3, <3>2
    <3> QED
      BY <1>2, <3>1, <3>3, <3>4, RewrittenTypes
  <2> QED
    BY <1>1, <2>1, <2>2, <2>3
<1>4. LogStateInv'
  BY <1>1, <1>3 DEF LogTypesInv, LogStateInv, zaloVars, listenerVars
<1>5. KnownInv'
  BY <1>1, <1>2, <1>3 DEF LogTypesInv, KnownInv, zaloVars, listenerVars
<1> QED
  BY <1>1, <1>3, <1>4, <1>5 DEF LogTypesInv

\* What a reaction and a recall do to Zalo's state and to the events.
LEMMA Reacting ==
    ASSUME LogTypesInv, NEW p \in People, NEW m \in Messages, m \in Known, Reacts(p, m)
    PROVE  \E e \in Reactions :
              /\ e.m = m /\ e.by = p /\ e.n = serial + 1 /\ (e.on <=> p \notin zalo[m].by)
              /\ events' = events \cup {e} /\ serial' = serial + 1
              /\ zalo' = [zalo EXCEPT ![m].by = IF p \in @ THEN @ \ {p} ELSE @ \cup {p}]
<1>1. serial \in Nat /\ zalo[m] \in [by : SUBSET People, recalled : BOOLEAN]
  BY DEF LogTypesInv, LogStateInv
<1>2. PICK named \in IF m \in Own THEN BOOLEAN ELSE {TRUE} :
         events' = events \cup {[type |-> "reaction", n |-> serial + 1, m |-> m, by |-> p,
                                 on |-> p \notin zalo[m].by, named |-> named]}
  BY DEF Reacts
<1>3. PICK on : on = (p \notin zalo[m].by)
  OBVIOUS
<1>4. PICK e : e = [type |-> "reaction", n |-> serial + 1, m |-> m, by |-> p,
                    on |-> on, named |-> named]
  OBVIOUS
<1>5. e \in Reactions /\ e.m = m /\ e.by = p /\ e.n = serial + 1 /\ (e.on <=> p \notin zalo[m].by)
  <2>1. on \in BOOLEAN /\ named \in BOOLEAN
    BY <1>2, <1>3
  <2>2. e \in Reactions /\ e.m = m /\ e.by = p /\ e.n = serial + 1 /\ e.on = on
    BY <1>1, <1>4, <2>1 DEF Reactions
  <2> QED
    BY <1>3, <2>2
<1>6. events' = events \cup {e}
  BY <1>2, <1>3, <1>4
<1> QED
  BY <1>5, <1>6 DEF Reacts

LEMMA Recalling ==
    ASSUME LogTypesInv, NEW m \in Messages, Recalls(m)
    PROVE  \E e \in Undos :
              /\ e.m = m /\ e.n = serial + 1 /\ e.type = "undo"
              /\ events' = events \cup {e} /\ serial' = serial + 1
              /\ zalo' = [zalo EXCEPT ![m].recalled = TRUE]
<1>1. PICK e : e = [type |-> "undo", n |-> serial + 1, m |-> m]
  OBVIOUS
<1>2. e \in Undos /\ e.m = m /\ e.n = serial + 1 /\ e.type = "undo"
  BY <1>1 DEF Undos, LogTypesInv, LogStateInv
<1> QED
  BY <1>1, <1>2 DEF Recalls

\* Which actions are reactions, and which are recalls.
LEMMA ReactionSteps ==
    ASSUME LogTypesInv, NEW m \in Messages,
           ConsoleReacts(m) \/ \E p \in People : PeerReacts(p, m)
    PROVE  /\ \E p \in People, x \in Known : Reacts(p, x)
           /\ UNCHANGED <<clock, sent, rows, listenerVars, reader>>
           /\ agenda' \in Agendas /\ agenda'.messages = agenda.messages
<1>1. agenda \in Agendas
  BY DEF LogTypesInv, LogStateInv
<1>2. CASE ConsoleReacts(m)
  <2>1. PICK time \in {ClientId(m), Nil} :
           \E x \in IF time = Nil THEN {m} ELSE {y \in Own : sent[y] # Nil /\ sent[y].at = time} :
              Reacts(Me, x)
    BY <1>2 DEF ConsoleReacts
  <2>2. PICK x \in IF time = Nil THEN {m} ELSE {y \in Own : sent[y] # Nil /\ sent[y].at = time} :
            Reacts(Me, x)
    BY <2>1
  <2>3. x \in Known /\ Me \in People
    BY <1>2, <2>2, MessageLogAssumption DEF ConsoleReacts, Known
  <2>4. /\ UNCHANGED <<clock, sent, rows, listenerVars, reader>>
        /\ agenda' \in Agendas /\ agenda'.messages = agenda.messages
    BY <1>1, <1>2, AgendaSpent DEF ConsoleReacts
  <2> QED
    BY <2>1, <2>2, <2>3, <2>4
<1>3. ASSUME NEW p \in People, PeerReacts(p, m)
      PROVE  /\ \E q \in People, x \in Known : Reacts(q, x)
             /\ UNCHANGED <<clock, sent, rows, listenerVars, reader>>
             /\ agenda' \in Agendas /\ agenda'.messages = agenda.messages
  BY <1>1, <1>3, AgendaSpent DEF PeerReacts, Known
<1> QED
  BY <1>1, <1>2, <1>3

LEMMA RecallSteps ==
    ASSUME LogTypesInv, NEW m \in Messages, ConsoleRecalls(m) \/ PeerRecalls(m)
    PROVE  /\ Recalls(m) /\ m \in Known
           /\ UNCHANGED <<clock, sent, rows, listenerVars, reader>>
           /\ agenda' \in Agendas /\ agenda'.messages = agenda.messages
<1>1. agenda \in Agendas
  BY DEF LogTypesInv, LogStateInv
<1>2. CASE ConsoleRecalls(m)
  BY <1>1, <1>2, AgendaSpent DEF ConsoleRecalls, Known
<1>3. CASE PeerRecalls(m)
  BY <1>1, <1>3, AgendaSpent DEF PeerRecalls, Known
<1> QED
  BY <1>2, <1>3

\* One more event of a message that was sent.
LEMMA TypesOfEvent ==
    ASSUME LogTypesInv, UNCHANGED <<clock, sent, rows, listenerVars, reader>>,
           agenda' \in Agendas, agenda'.messages = agenda.messages,
           zalo' \in [Messages -> [by : SUBSET People, recalled : BOOLEAN]],
           NEW e \in Reactions \cup Undos, e.m \in Known, e.n = serial + 1,
           events' = events \cup {e}, serial' = serial + 1
    PROVE  LogTypesInv'
<1>1. serial \in Nat /\ serial' \in Nat
  BY DEF LogTypesInv, LogStateInv
<1>2. LogStateInv'
  BY <1>1 DEF LogTypesInv, LogStateInv, listenerVars
<1>3. \A f \in events' : f.m \in Known /\ f.n \in 1 .. serial'
  BY <1>1 DEF LogTypesInv, KnownInv
<1>4. ASSUME NEW h \in Handlers, handler'[h] # Nil
      PROVE  /\ handler'[h].row \in RowIds /\ handler'[h].e.m \in Known
             /\ handler'[h].e.n \in 1 .. serial'
             /\ handler'[h].step = "push" => handler'[h].e.type = "reaction"
  <2>1. handler' = handler
    BY DEF listenerVars
  <2> QED
    BY <1>1, <1>4, <2>1, HandlerFields
<1> QED
  BY <1>2, <1>3, <1>4, TypesOfOthers

LEMMA TypesOfEvents ==
    ASSUME LogTypesInv, NEW m \in Messages,
           \/ ConsoleReacts(m) \/ (\E p \in People : PeerReacts(p, m))
           \/ ConsoleRecalls(m) \/ PeerRecalls(m)
    PROVE  LogTypesInv'
<1>1. CASE ConsoleReacts(m) \/ \E p \in People : PeerReacts(p, m)
  <2>1. /\ UNCHANGED <<clock, sent, rows, listenerVars, reader>>
        /\ agenda' \in Agendas /\ agenda'.messages = agenda.messages
    BY <1>1, ReactionSteps
  <2>2. PICK p \in People, x \in Known : Reacts(p, x)
    BY <1>1, ReactionSteps
  <2>3. x \in Messages
    BY DEF Known
  <2>4. PICK e \in Reactions :
              /\ e.m = x /\ e.by = p /\ e.n = serial + 1 /\ (e.on <=> p \notin zalo[x].by)
              /\ events' = events \cup {e} /\ serial' = serial + 1
              /\ zalo' = [zalo EXCEPT ![x].by = IF p \in @ THEN @ \ {p} ELSE @ \cup {p}]
    BY <2>2, <2>3, Reacting
  <2>5. zalo' \in [Messages -> [by : SUBSET People, recalled : BOOLEAN]]
    BY <2>3, <2>4 DEF LogTypesInv, LogStateInv
  <2>6. e \in Reactions \cup Undos /\ e.m \in Known
    BY <2>4
  <2> QED
    BY <2>1, <2>4, <2>5, <2>6, TypesOfEvent
<1>2. CASE ConsoleRecalls(m) \/ PeerRecalls(m)
  <2>1. /\ Recalls(m) /\ m \in Known
        /\ UNCHANGED <<clock, sent, rows, listenerVars, reader>>
        /\ agenda' \in Agendas /\ agenda'.messages = agenda.messages
    BY <1>2, RecallSteps
  <2>2. PICK e \in Undos :
              /\ e.m = m /\ e.n = serial + 1 /\ e.type = "undo"
              /\ events' = events \cup {e} /\ serial' = serial + 1
              /\ zalo' = [zalo EXCEPT ![m].recalled = TRUE]
    BY <2>1, Recalling
  <2>3. zalo' \in [Messages -> [by : SUBSET People, recalled : BOOLEAN]]
    BY <2>2 DEF LogTypesInv, LogStateInv
  <2>4. e \in Reactions \cup Undos /\ e.m \in Known
    BY <2>1, <2>2
  <2> QED
    BY <2>1, <2>2, <2>3, <2>4, TypesOfEvent
<1> QED
  BY <1>1, <1>2

\* Among the rows near a time one is the earliest.
LEMMA EarliestRow ==
    ASSUME rows \in Seq(LogRows), NEW S \in SUBSET RowIds, S # {}
    PROVE  \E i \in S : \A j \in S :
              rows[i].at < rows[j].at \/ (rows[i].at = rows[j].at /\ i <= j)
<1>1. \A i \in S : i \in Nat /\ rows[i].at \in Nat
  BY RowFields
<1>2. ASSUME NEW T \in SUBSET Nat, T # {}
      PROVE  \E x \in T : \A y \in T : x <= y
  <2>1. IsWellFoundedOn(OpToRel(<, Nat), Nat)
    BY NatLessThanWellFounded
  <2>2. PICK x \in T : \A y \in T : ~ (<<y, x>> \in OpToRel(<, Nat))
    BY <1>2, <2>1, WFMin
  <2>3. \A y \in T : ~ (y < x)
    BY <2>2 DEF OpToRel
  <2> QED
    BY <2>3
<1>3. PICK T : T = {rows[i].at : i \in S}
  OBVIOUS
<1>4. T \in SUBSET Nat /\ T # {}
  BY <1>1, <1>3
<1>5. PICK t \in T : \A y \in T : t <= y
  BY <1>2, <1>4
<1>6. PICK U : U = {i \in S : rows[i].at = t}
  OBVIOUS
<1>7. U \in SUBSET Nat /\ U # {}
  BY <1>1, <1>3, <1>5, <1>6
<1>8. PICK i \in U : \A y \in U : i <= y
  BY <1>2, <1>7
<1>9. i \in S /\ rows[i].at = t
  BY <1>6
<1>10. ASSUME NEW j \in S
       PROVE  rows[i].at < rows[j].at \/ (rows[i].at = rows[j].at /\ i <= j)
  <2>1. t <= rows[j].at /\ rows[j].at \in Nat /\ t \in Nat
    BY <1>1, <1>3, <1>5, <1>9
  <2>2. rows[j].at = t => i <= j
    BY <1>6, <1>8
  <2> QED
    BY <1>9, <2>1, <2>2
<1> QED
  BY <1>9, <1>10

\* A listener finds rows, and for a recall only those of the message.
LEMMA FoundRows ==
    ASSUME rows \in Seq(LogRows), NEW e, NEW i \in FoundRow(e)
    PROVE  i \in RowIds /\ (e.type = "undo" => rows[i].m = e.m)
<1>1. CASE i \in Rows(e.m)
  BY <1>1 DEF Rows
<1>2. CASE e.type # "undo" /\ i \in NearestRow(e.m)
  <2>1. PICK near : near = {k \in RowIds : rows[k].at - sent[e.m].at \in -Window .. Window}
    OBVIOUS
  <2>2. /\ near # {}
        /\ i = CHOOSE k \in near : \A j \in near :
                  rows[k].at < rows[j].at \/ (rows[k].at = rows[j].at /\ k <= j)
    BY <1>2, <2>1 DEF NearestRow
  <2>3. \E k \in near : \A j \in near :
                  rows[k].at < rows[j].at \/ (rows[k].at = rows[j].at /\ k <= j)
    BY <2>1, <2>2, EarliestRow
  <2>4. i \in near
    BY <2>2, <2>3
  <2> QED
    BY <1>2, <2>1, <2>4
<1> QED
  BY <1>1, <1>2 DEF FoundRow

\* What a handler does when it takes an event: it ends without a row, or holds one.
LEMMA Finding ==
    ASSUME LogTypesInv, NEW h \in Handlers, NEW e \in events, FindMessage(h, e)
    PROVE  /\ handler[h] = Nil /\ events' = events \ {e}
           /\ UNCHANGED <<clock, sent, zalo, serial, rows, pushed, reader, agenda>>
           /\ e \in Reactions \cup Undos /\ e.m \in Known
           /\ disturbed \subseteq disturbed' /\ unmarked \subseteq unmarked'
           /\ disturbed' \subseteq Messages /\ unmarked' \subseteq Messages
           /\ \/ /\ UNCHANGED handler
                 /\ e.type = "reaction" => e.m \in disturbed'
                 /\ e.type = "undo" => e.m \in unmarked'
              \/ \E i \in RowIds, H \in Handlings :
                    /\ H = [e |-> e, row |-> i, by |-> rows[i].by, step |-> "write"]
                    /\ handler' = [handler EXCEPT ![h] = H]
                    /\ e.type = "undo" => rows[i].m = e.m
                    /\ rows[i].m # e.m => {rows[i].m, e.m} \subseteq disturbed'
                    /\ Overtakes(e) => e.m \in disturbed'
<1>1. /\ handler[h] = Nil /\ events' = events \ {e}
      /\ UNCHANGED <<clock, sent, zalo, serial, rows, pushed, reader, agenda>>
  BY DEF FindMessage
<1>2. e \in Reactions \cup Undos /\ e.m \in Known /\ e.m \in Messages
  BY DEF LogTypesInv, LogStateInv, KnownInv, Known
<1>3. disturbed \subseteq Messages /\ unmarked \subseteq Messages
  BY DEF LogTypesInv, LogStateInv
<1>4. CASE FoundRow(e) = {}
  BY <1>1, <1>2, <1>3, <1>4 DEF FindMessage
<1>5. CASE FoundRow(e) # {}
  <2>1. PICK i \in FoundRow(e) :
            /\ handler' = [handler EXCEPT ![h] =
                  [e |-> e, row |-> i, by |-> rows[i].by, step |-> "write"]]
            /\ disturbed' = disturbed \cup (IF rows[i].m # e.m THEN {e.m, rows[i].m} ELSE {})
                                      \cup (IF Overtakes(e) THEN {e.m} ELSE {})
            /\ UNCHANGED unmarked
    BY <1>5 DEF FindMessage
  <2>2. rows \in Seq(LogRows)
    BY DEF LogTypesInv, LogStateInv
  <2>3. i \in RowIds /\ (e.type = "undo" => rows[i].m = e.m)
    BY <2>2, FoundRows
  <2>4. i \in Nat /\ rows[i].by \subseteq People /\ rows[i].m \in Messages
    BY <2>2, <2>3, RowFields
  <2>5. PICK H : H = [e |-> e, row |-> i, by |-> rows[i].by, step |-> "write"]
    OBVIOUS
  <2>6. H \in Handlings
    BY <1>2, <2>4, <2>5 DEF Handlings
  <2>7. handler' = [handler EXCEPT ![h] = H]
    BY <2>1, <2>5
  <2>8. /\ disturbed \subseteq disturbed' /\ unmarked \subseteq unmarked'
        /\ disturbed' \subseteq Messages /\ unmarked' \subseteq Messages
        /\ rows[i].m # e.m => {rows[i].m, e.m} \subseteq disturbed'
        /\ Overtakes(e) => e.m \in disturbed'
    BY <1>2, <1>3, <2>1, <2>4
  <2> QED
    BY <1>1, <1>2, <2>3, <2>5, <2>6, <2>7, <2>8
<1> QED
  BY <1>4, <1>5

LEMMA TypesOfFinding ==
    ASSUME LogTypesInv, NEW h \in Handlers, NEW e \in events, FindMessage(h, e)
    PROVE  LogTypesInv'
<1>1. /\ events' = events \ {e} /\ e \in events
      /\ UNCHANGED <<clock, sent, zalo, serial, rows, pushed, reader, agenda>>
      /\ disturbed' \subseteq Messages /\ unmarked' \subseteq Messages
  BY Finding
<1>2. /\ handler \in [Handlers -> Handlings \cup {Nil}] /\ e.m \in Known /\ e.n \in 1 .. serial
      /\ \A f \in events : f.m \in Known /\ f.n \in 1 .. serial
  BY DEF LogTypesInv, LogStateInv, KnownInv
<1>3. PICK H : /\ handler' = handler \/ handler' = [handler EXCEPT ![h] = H]
               /\ H = Nil \/ /\ H \in Handlings /\ H.row \in RowIds /\ H.e = e /\ H.step = "write"
  <2>1. CASE UNCHANGED handler
    BY <2>1
  <2>2. ASSUME NEW i \in RowIds, NEW H \in Handlings,
               H = [e |-> e, row |-> i, by |-> rows[i].by, step |-> "write"],
               handler' = [handler EXCEPT ![h] = H]
        PROVE  H.row \in RowIds /\ H.e = e /\ H.step = "write"
    BY <2>2
  <2> QED
    BY <2>1, <2>2, Finding
<1>4. handler' \in [Handlers -> Handlings \cup {Nil}]
  BY <1>2, <1>3
<1>5. LogStateInv'
  BY <1>1, <1>4 DEF LogTypesInv, LogStateInv
<1>6. ASSUME NEW k \in Handlers, handler'[k] # Nil
      PROVE  /\ handler'[k].row \in RowIds /\ handler'[k].e.m \in Known
             /\ handler'[k].e.n \in 1 .. serial'
             /\ handler'[k].step = "push" => handler'[k].e.type = "reaction"
  <2>1. CASE handler'[k] = handler[k]
    BY <1>1, <1>6, <2>1, HandlerFields
  <2>2. CASE handler'[k] # handler[k]
    <3>1. handler'[k] = H
      BY <1>2, <1>3, <2>2
    <3> QED
      BY <1>1, <1>2, <1>3, <1>6, <3>1
  <2> QED
    BY <2>1, <2>2
<1> QED
  BY <1>1, <1>2, <1>5, <1>6, TypesOfOthers

\* A handler goes on or ends; it may write the row it holds.
LEMMA TypesOfHandler ==
    ASSUME LogTypesInv, NEW h \in Handlers, handler[h] # Nil,
           UNCHANGED <<clock, sent, zalo, serial, events, reader, agenda>>,
           NEW H, handler' = [handler EXCEPT ![h] = H],
           \/ H = Nil
           \/ H \in Handlings /\ H.row = handler[h].row /\ H.e = handler[h].e
                /\ handler[h].e.type = "reaction",
           pushed' \in [Messages -> (SUBSET People) \cup {Nil}],
           disturbed' \subseteq Messages, unmarked' \subseteq Messages,
           \/ UNCHANGED rows
           \/ \E r \in LogRows : LET i == handler[h].row IN
                /\ rows' = [rows EXCEPT ![i] = r]
                /\ r.m = rows[i].m /\ r.at = rows[i].at /\ r.type = rows[i].type
    PROVE  LogTypesInv'
<1>1. /\ handler[h].row \in RowIds /\ handler[h].e.m \in Known /\ handler[h].e.n \in 1 .. serial
      /\ handler \in [Handlers -> Handlings \cup {Nil}]
  BY HandlerFields DEF LogTypesInv, LogStateInv
<1>2. rows' \in Seq(LogRows) /\ RowIds' = RowIds /\ OneRowInv' /\ KindsInv'
  <2>1. CASE UNCHANGED rows
    BY <2>1 DEF LogTypesInv, LogStateInv, OneRowInv, KindsInv, RowIds, Known
  <2>2. CASE ~ UNCHANGED rows
    <3>1. PICK r, i :
             /\ r \in LogRows /\ i = handler[h].row /\ rows' = [rows EXCEPT ![i] = r]
             /\ r.m = rows[i].m /\ r.at = rows[i].at /\ r.type = rows[i].type
      BY <2>2
    <3> QED
      BY <1>1, <3>1, RewrittenTypes
  <2> QED
    BY <2>1, <2>2
<1>3. handler' \in [Handlers -> Handlings \cup {Nil}]
  BY <1>1
<1>4. LogStateInv'
  BY <1>2, <1>3 DEF LogTypesInv, LogStateInv
<1>5. ReaderInv' /\ Known' = Known
  BY DEF LogTypesInv, ReaderInv, Known
<1>6. ASSUME NEW k \in Handlers, handler'[k] # Nil
      PROVE  /\ handler'[k].row \in RowIds /\ handler'[k].e.m \in Known
             /\ handler'[k].e.n \in 1 .. serial
             /\ handler'[k].step = "push" => handler'[k].e.type = "reaction"
  <2>1. CASE k # h
    <3>1. handler'[k] = handler[k]
      BY <1>1, <2>1
    <3> QED
      BY <1>6, <3>1, HandlerFields
  <2>2. CASE k = h
    <3>1. handler'[k] = H
      BY <1>1, <2>2
    <3> QED
      BY <1>1, <1>6, <3>1
  <2> QED
    BY <2>1, <2>2
<1>7. KnownInv'
  BY <1>2, <1>5, <1>6 DEF LogTypesInv, KnownInv
<1> QED
  BY <1>2, <1>4, <1>5, <1>7 DEF LogTypesInv

\* The four ways in which a handler goes on.
LEMMA Writings ==
    ASSUME LogTypesInv, NEW h \in Handlers, WriteReaction(h)
    PROVE  \E i \in RowIds, H \in Handlings, r \in LogRows :
              /\ handler[h] # Nil /\ handler[h].step = "write" /\ handler[h].e.type = "reaction"
              /\ i = handler[h].row /\ rows' = [rows EXCEPT ![i] = r]
              /\ r = [rows[i] EXCEPT !.by = NewList(h)]
              /\ handler' = [handler EXCEPT ![h] = H] /\ H \in Handlings
              /\ H.row = i /\ H.e = handler[h].e /\ H.by = NewList(h) /\ H.step = "push"
              /\ disturbed' = IF rows[i].by # handler[h].by
                              THEN disturbed \cup {rows[i].m} ELSE disturbed
              /\ UNCHANGED <<zaloVars, pushed, unmarked, reader, agenda>>
<1>1. handler[h] # Nil /\ handler[h].step = "write" /\ handler[h].e.type = "reaction"
  BY DEF WriteReaction
<1>2. PICK i : i = handler[h].row
  OBVIOUS
<1>3. /\ handler[h] \in Handlings /\ handler[h].e \in Reactions \cup Undos /\ i \in RowIds
      /\ handler[h].by \subseteq People
  BY <1>1, <1>2, HandlerFields
<1>4. handler[h].e.by \in People
  BY <1>1, <1>3, EventFields
<1>5. NewList(h) \subseteq People
  BY <1>3, <1>4 DEF NewList
<1>6. PICK r : r = [rows[i] EXCEPT !.by = NewList(h)]
  OBVIOUS
<1>7. r \in LogRows
  <2>1. rows[i] \in LogRows
    BY <1>3, RowFields DEF LogTypesInv, LogStateInv
  <2> QED
    BY <1>5, <1>6, <2>1 DEF LogRows
<1>8. PICK H : H = [handler[h] EXCEPT !.step = "push", !.by = NewList(h)]
  OBVIOUS
<1>9. H \in Handlings /\ H.row = i /\ H.e = handler[h].e /\ H.by = NewList(h) /\ H.step = "push"
  BY <1>2, <1>3, <1>5, <1>8 DEF Handlings
<1>10. rows' = [rows EXCEPT ![i] = r] /\ handler' = [handler EXCEPT ![h] = H]
  BY <1>2, <1>6, <1>8 DEF WriteReaction
<1>11. /\ disturbed' = IF rows[i].by # handler[h].by
                       THEN disturbed \cup {rows[i].m} ELSE disturbed
       /\ UNCHANGED <<zaloVars, pushed, unmarked, reader, agenda>>
  BY <1>2 DEF WriteReaction
<1> QED
  BY <1>1, <1>2, <1>3, <1>6, <1>7, <1>9, <1>10, <1>11

LEMMA RecallWritings ==
    ASSUME LogTypesInv, NEW h \in Handlers, WriteRecall(h)
    PROVE  \E i \in RowIds, r \in LogRows :
              /\ handler[h] # Nil /\ handler[h].e.type = "undo"
              /\ i = handler[h].row /\ rows' = [rows EXCEPT ![i] = r]
              /\ r = [rows[i] EXCEPT !.recalled = TRUE]
              /\ handler' = [handler EXCEPT ![h] = Nil]
              /\ UNCHANGED <<zaloVars, pushed, disturbed, unmarked, reader, agenda>>
<1>1. handler[h] # Nil /\ handler[h].e.type = "undo"
  BY DEF WriteRecall
<1>2. PICK i : i = handler[h].row
  OBVIOUS
<1>3. i \in RowIds
  BY <1>1, <1>2, HandlerFields
<1>4. PICK r : r = [rows[i] EXCEPT !.recalled = TRUE]
  OBVIOUS
<1>5. r \in LogRows
  <2>1. rows[i] \in LogRows
    BY <1>3, RowFields DEF LogTypesInv, LogStateInv
  <2> QED
    BY <1>4, <2>1 DEF LogRows
<1>6. rows' = [rows EXCEPT ![i] = r]
  BY <1>2, <1>4 DEF WriteRecall
<1> QED
  BY <1>1, <1>2, <1>3, <1>4, <1>5, <1>6 DEF WriteRecall

\* A reaction that goes astray disturbs its message; a recall leaves it unmarked.
LEMMA MissedEvents ==
    ASSUME NEW E
    PROVE  \A type : \A e \in E : e.type = type => e.m \in Missed(type, E)
  BY DEF Missed

LEMMA MissedMessages ==
    ASSUME NEW E \in SUBSET (Reactions \cup Undos), NEW type
    PROVE  Missed(type, E) \subseteq Messages
  BY EventFields DEF Missed

LEMMA TypesOfHandlers ==
    ASSUME LogTypesInv, NEW h \in Handlers,
           WriteReaction(h) \/ PushReaction(h) \/ WriteRecall(h) \/ HandlerThrows(h)
    PROVE  LogTypesInv'
<1>0. /\ handler[h] # Nil /\ disturbed \subseteq Messages /\ unmarked \subseteq Messages
      /\ pushed \in [Messages -> (SUBSET People) \cup {Nil}] /\ rows \in Seq(LogRows)
  BY DEF WriteReaction, PushReaction, WriteRecall, HandlerThrows, LogTypesInv, LogStateInv
<1>1. /\ handler[h].row \in RowIds /\ handler[h].by \subseteq People
      /\ handler[h].e \in Reactions \cup Undos
  BY <1>0, HandlerFields
<1>2. CASE WriteReaction(h)
  <2>1. PICK i \in RowIds, H \in Handlings, r \in LogRows :
              /\ handler[h] # Nil /\ handler[h].step = "write" /\ handler[h].e.type = "reaction"
              /\ i = handler[h].row /\ rows' = [rows EXCEPT ![i] = r]
              /\ r = [rows[i] EXCEPT !.by = NewList(h)]
              /\ handler' = [handler EXCEPT ![h] = H] /\ H \in Handlings
              /\ H.row = i /\ H.e = handler[h].e /\ H.by = NewList(h) /\ H.step = "push"
              /\ disturbed' = IF rows[i].by # handler[h].by
                              THEN disturbed \cup {rows[i].m} ELSE disturbed
              /\ UNCHANGED <<zaloVars, pushed, unmarked, reader, agenda>>
    BY <1>2, Writings
  <2>2. rows[i] \in LogRows /\ rows[i].m \in Messages
    BY <1>0, RowFields
  <2>3. r.m = rows[i].m /\ r.at = rows[i].at /\ r.type = rows[i].type
    BY <2>1, <2>2 DEF LogRows
  <2>4. disturbed' \subseteq Messages
    BY <1>0, <2>1, <2>2
  <2>5. UNCHANGED <<clock, sent, zalo, serial, events>>
    BY <2>1 DEF zaloVars
  <2>6. \E s \in LogRows : LET j == handler[h].row IN
                /\ rows' = [rows EXCEPT ![j] = s]
                /\ s.m = rows[j].m /\ s.at = rows[j].at /\ s.type = rows[j].type
    BY <2>1, <2>3
  <2> QED
    BY <1>0, <2>1, <2>4, <2>5, <2>6, TypesOfHandler
<1>3. CASE PushReaction(h)
  <2>1. PICK i : i = handler[h].row
    OBVIOUS
  <2>2. i \in RowIds /\ rows[i].m \in Messages
    BY <1>0, <1>1, <2>1, RowFields
  <2>3. /\ pushed' = [pushed EXCEPT ![rows[i].m] = handler[h].by]
        /\ disturbed' = IF rows[i].by # handler[h].by THEN disturbed \cup {rows[i].m} ELSE disturbed
        /\ handler' = [handler EXCEPT ![h] = Nil]
        /\ UNCHANGED <<zaloVars, rows, unmarked, reader, agenda>>
    BY <1>3, <2>1 DEF PushReaction
  <2>4. pushed' \in [Messages -> (SUBSET People) \cup {Nil}] /\ disturbed' \subseteq Messages
    BY <1>0, <1>1, <2>2, <2>3
  <2>5. UNCHANGED <<clock, sent, zalo, serial, events>>
    BY <2>3 DEF zaloVars
  <2> QED
    BY <1>0, <2>3, <2>4, <2>5, TypesOfHandler
<1>4. CASE WriteRecall(h)
  <2>1. PICK i \in RowIds, r \in LogRows :
              /\ handler[h] # Nil /\ handler[h].e.type = "undo"
              /\ i = handler[h].row /\ rows' = [rows EXCEPT ![i] = r]
              /\ r = [rows[i] EXCEPT !.recalled = TRUE]
              /\ handler' = [handler EXCEPT ![h] = Nil]
              /\ UNCHANGED <<zaloVars, pushed, disturbed, unmarked, reader, agenda>>
    BY <1>4, RecallWritings
  <2>2. rows[i] \in LogRows
    BY <1>0, RowFields
  <2>3. r.m = rows[i].m /\ r.at = rows[i].at /\ r.type = rows[i].type
    BY <2>1, <2>2 DEF LogRows
  <2>4. UNCHANGED <<clock, sent, zalo, serial, events>>
    BY <2>1 DEF zaloVars
  <2>5. \E s \in LogRows : LET j == handler[h].row IN
                /\ rows' = [rows EXCEPT ![j] = s]
                /\ s.m = rows[j].m /\ s.at = rows[j].at /\ s.type = rows[j].type
    BY <2>1, <2>3
  <2> QED
    BY <1>0, <2>1, <2>4, <2>5, TypesOfHandler
<1>5. CASE HandlerThrows(h)
  <2>1. /\ disturbed' = disturbed \cup Missed("reaction", {handler[h].e})
        /\ unmarked' = unmarked \cup Missed("undo", {handler[h].e})
        /\ handler' = [handler EXCEPT ![h] = Nil]
        /\ UNCHANGED <<zaloVars, rows, pushed, reader, agenda>>
    BY <1>5 DEF HandlerThrows
  <2>2. disturbed' \subseteq Messages /\ unmarked' \subseteq Messages
    <3>1. {handler[h].e} \in SUBSET (Reactions \cup Undos)
      BY <1>1
    <3> QED
      BY <1>0, <2>1, <3>1, MissedMessages
  <2>3. UNCHANGED <<clock, sent, zalo, serial, events>>
    BY <2>1 DEF zaloVars
  <2> QED
    BY <1>0, <2>1, <2>2, <2>3, TypesOfHandler
<1> QED
  BY <1>2, <1>3, <1>4, <1>5

LEMMA TypesOfReader ==
    ASSUME LogTypesInv,
           Opens \/ ListPage \/ FetchHistory \/ EndImport
    PROVE  LogTypesInv'
<1>1. ReaderInv /\ agenda \in Agendas
  BY DEF LogTypesInv, LogStateInv
<1>2. CASE Opens
  <2>1. /\ UNCHANGED <<zaloVars, rows, listenerVars>> /\ Spend("listings")
        /\ reader' = [step |-> "page", cursor |-> Nil, got |-> <<>>, before |-> {}, todo |-> {},
                      listed |-> {}]
    BY <1>2 DEF Opens
  <2>2. /\ reader'.todo = {}
        /\ reader' = [step |-> reader'.step, cursor |-> reader'.cursor, got |-> reader'.got,
                      before |-> reader'.before, todo |-> reader'.todo, listed |-> reader'.listed]
    BY <2>1
  <2>3. ReaderInv'
    BY <2>2 DEF ReaderInv
  <2>4. agenda' \in Agendas /\ agenda'.messages = agenda.messages
    BY <1>1, <2>1, AgendaSpent
  <2> QED
    BY <1>1, <2>1, <2>3, <2>4, TypesRest
<1>3. CASE ListPage
  <2>1. /\ UNCHANGED <<zaloVars, rows, listenerVars, agenda>> /\ reader # Nil
        /\ (reader' = [reader EXCEPT !.step = "history"]) \/ ReadsPage(reader.cursor)
    BY <1>3 DEF ListPage
  <2>2. UNCHANGED sent /\ {} \in SUBSET Known
    BY <2>1 DEF zaloVars
  <2>3. ReaderInv'
    <3>1. CASE reader' = [reader EXCEPT !.step = "history"]
      BY <1>1, <2>1, <2>2, <3>1, ReaderMoves
    <3>2. CASE ReadsPage(reader.cursor)
      BY <1>1, <2>1, <2>2, <3>2, PageRead
    <3> QED
      BY <2>1, <3>1, <3>2
  <2> QED
    BY <1>1, <2>1, <2>3, TypesRest
<1>4. CASE FetchHistory
  <2>1. /\ UNCHANGED <<zaloVars, rows, listenerVars, agenda>> /\ reader # Nil
        /\ \/ \E some \in SUBSET Known :
                 reader' = [reader EXCEPT !.step = "import", !.todo = some, !.listed = some]
           \/ reader' = [reader EXCEPT !.step = "done"]
    BY <1>4 DEF FetchHistory, Known
  <2>2. UNCHANGED sent /\ {} \in SUBSET Known
    BY <2>1 DEF zaloVars
  <2>3. ReaderInv'
    BY <1>1, <2>1, <2>2, ReaderMoves
  <2> QED
    BY <1>1, <2>1, <2>3, TypesRest
<1>5. CASE EndImport
  <2>1. /\ UNCHANGED <<zaloVars, rows, listenerVars, agenda>> /\ reader # Nil
        /\ (reader' = [reader EXCEPT !.step = "done", !.listed = {}]) \/ ReadsPage(Nil)
    BY <1>5 DEF EndImport
  <2>2. UNCHANGED sent /\ {} \in SUBSET Known
    BY <2>1 DEF zaloVars
  <2>3. ReaderInv'
    <3>1. CASE reader' = [reader EXCEPT !.step = "done", !.listed = {}]
      BY <1>1, <2>1, <2>2, <3>1, ReaderMoves
    <3>2. CASE ReadsPage(Nil)
      BY <1>1, <2>1, <2>2, <3>2, PageRead
    <3> QED
      BY <2>1, <3>1, <3>2
  <2> QED
    BY <1>1, <2>1, <2>3, TypesRest
<1> QED
  BY <1>2, <1>3, <1>4, <1>5

\* What is lost with the process.
LEMMA Restarting ==
    ASSUME LogTypesInv, MessageLogRestart
    PROVE  /\ events' = {} /\ handler' = [h \in Handlers |-> Nil] /\ reader' = Nil
           /\ UNCHANGED <<clock, sent, zalo, serial, rows, pushed, agenda>>
           /\ disturbed \subseteq disturbed' /\ disturbed' \subseteq Messages
           /\ unmarked \subseteq unmarked' /\ unmarked' \subseteq Messages
           /\ \A e \in events : /\ e.type = "reaction" => e.m \in disturbed'
                                /\ e.type = "undo" => e.m \in unmarked'
           /\ \A h \in Handlers : handler[h] # Nil =>
                 /\ handler[h].e.type = "reaction" => handler[h].e.m \in disturbed'
                 /\ handler[h].e.type = "undo" => handler[h].e.m \in unmarked'
<1>1. PICK under : under = events \cup {handler[h].e : h \in {k \in Handlers : handler[k] # Nil}}
  OBVIOUS
<1>2. /\ disturbed' = disturbed \cup Missed("reaction", under)
      /\ unmarked' = unmarked \cup Missed("undo", under)
      /\ events' = {} /\ handler' = [h \in Handlers |-> Nil] /\ reader' = Nil
      /\ UNCHANGED <<clock, sent, zalo, serial, rows, pushed, agenda>>
  BY <1>1 DEF MessageLogRestart
<1>3. under \in SUBSET (Reactions \cup Undos)
  BY <1>1, HandlerFields DEF LogTypesInv, LogStateInv
<1>4. disturbed' \subseteq Messages /\ unmarked' \subseteq Messages
  BY <1>2, <1>3, MissedMessages DEF LogTypesInv, LogStateInv
<1>5. \A e \in under : /\ e.type = "reaction" => e.m \in disturbed'
                       /\ e.type = "undo" => e.m \in unmarked'
  BY <1>2, MissedEvents
<1> QED
  BY <1>1, <1>2, <1>4, <1>5

LEMMA TypesOfRestart ==
    ASSUME LogTypesInv, MessageLogRestart
    PROVE  LogTypesInv'
<1>1. /\ events' = {} /\ handler' = [h \in Handlers |-> Nil] /\ reader' = Nil
      /\ UNCHANGED <<clock, sent, zalo, serial, rows, pushed, agenda>>
      /\ disturbed' \subseteq Messages /\ unmarked' \subseteq Messages
  BY Restarting
<1>2. Known' = Known /\ RowIds' = RowIds
  BY <1>1 DEF Known, RowIds
<1>3. LogStateInv'
  BY <1>1 DEF LogTypesInv, LogStateInv
<1>4. KnownInv' /\ OneRowInv' /\ KindsInv' /\ ReaderInv'
  BY <1>1, <1>2 DEF LogTypesInv, KnownInv, OneRowInv, KindsInv, ReaderInv
<1> QED
  BY <1>3, <1>4 DEF LogTypesInv

LEMMA LogTypesInit == MessageLogInit /\ agenda \in Agendas => LogTypesInv
<1> SUFFICES ASSUME MessageLogInit, agenda \in Agendas PROVE LogTypesInv
  OBVIOUS
<1>1. LogStateInv
  <2>1. sent \in [Messages -> [at : Nat, content : RawKinds] \cup {Nil}]
    BY DEF MessageLogInit
  <2>4. zalo \in [Messages -> [by : SUBSET People, recalled : BOOLEAN]]
    BY DEF MessageLogInit
  <2>5. pushed \in [Messages -> (SUBSET People) \cup {Nil}]
    BY DEF MessageLogInit
  <2>2. rows \in Seq(LogRows)
    BY DEF MessageLogInit
  <2>3. handler \in [Handlers -> Handlings \cup {Nil}]
    BY DEF MessageLogInit
  <2> QED
    BY <2>1, <2>2, <2>3, <2>4, <2>5 DEF MessageLogInit, LogStateInv
<1>2. Known = {} /\ RowIds = {}
  BY DEF MessageLogInit, Known, RowIds
<1> QED
  BY <1>1, <1>2 DEF MessageLogInit, LogTypesInv, OneRowInv, KnownInv, ReaderInv, KindsInv

LEMMA LogTypesStep ==
    ASSUME LogTypesInv, [MessageLogNext \/ MessageLogRestart]_logVars
    PROVE  LogTypesInv'
<1>1. CASE UNCHANGED logVars
  BY <1>1 DEF logVars, zaloVars, listenerVars, LogTypesInv, LogStateInv, OneRowInv, KnownInv,
              ReaderInv, KindsInv, Known, RowIds
<1>2. CASE MessageLogRestart
  BY <1>2, TypesOfRestart
<1>3. CASE MessageLogNext
  <2>1. CASE Tick \/ \E m \in Messages : Send(m) \/ ConsoleForwards(m)
    BY <2>1, TypesOfTime
  <2>2. CASE Opens \/ ListPage \/ FetchHistory \/ EndImport
    BY <2>2, TypesOfReader
  <2>3. ASSUME NEW m \in Messages, Store(m) \/ ImportMessage(m) PROVE LogTypesInv'
    BY <2>3, TypesOfRows
  <2>4. ASSUME NEW m \in Messages,
               \/ ConsoleReacts(m) \/ (\E p \in People : PeerReacts(p, m))
               \/ ConsoleRecalls(m) \/ PeerRecalls(m)
        PROVE  LogTypesInv'
    BY <2>4, TypesOfEvents
  <2>5. ASSUME NEW h \in Handlers,
               WriteReaction(h) \/ PushReaction(h) \/ WriteRecall(h) \/ HandlerThrows(h)
        PROVE  LogTypesInv'
    BY <2>5, TypesOfHandlers
  <2>6. ASSUME NEW h \in Handlers, NEW e \in events, FindMessage(h, e) PROVE LogTypesInv'
    BY <2>6, TypesOfFinding
  <2> QED
    BY <1>3, <2>1, <2>2, <2>3, <2>4, <2>5, <2>6 DEF MessageLogNext
<1> QED
  BY <1>1, <1>2, <1>3

\* The invariant gives each row and message its type, and a message one row at most.
LEMMA LogTypesImply == LogTypesInv => MessageLogTypeOK
<1> SUFFICES ASSUME LogTypesInv PROVE MessageLogTypeOK
  OBVIOUS
<1>1. ASSUME NEW m \in Messages PROVE Cardinality(Rows(m)) <= 1
  <2>1. CASE Rows(m) = {}
    BY <2>1, FS_EmptySet
  <2>2. ASSUME NEW i \in Rows(m) PROVE Cardinality(Rows(m)) <= 1
    <3>1. Rows(m) = {i}
      BY <2>2 DEF Rows, LogTypesInv, OneRowInv
    <3> QED
      BY <3>1, FS_Singleton
  <2> QED
    BY <2>1, <2>2
<1>2. ASSUME NEW m \in Messages
      PROVE  /\ sent[m] # Nil => sent[m].at \in 0 .. clock /\ sent[m].content \in RawKinds
             /\ zalo[m].by \subseteq People /\ zalo[m].recalled \in BOOLEAN
             /\ pushed[m] = Nil \/ pushed[m] \subseteq People
  <2>1. sent[m] # Nil => sent[m].at \in Nat /\ sent[m].content \in RawKinds /\ sent[m].at <= clock
    BY DEF LogTypesInv, LogStateInv, KnownInv, Known
  <2>2. zalo[m].by \subseteq People /\ zalo[m].recalled \in BOOLEAN /\ clock \in Nat
    BY DEF LogTypesInv, LogStateInv
  <2>3. pushed[m] \in (SUBSET People) \cup {Nil}
    BY DEF LogTypesInv, LogStateInv
  <2>4. sent[m] # Nil => sent[m].at \in 0 .. clock /\ sent[m].content \in RawKinds
    BY <2>1, <2>2
  <2>5. pushed[m] = Nil \/ pushed[m] \subseteq People
    BY <2>3
  <2> QED
    BY <2>2, <2>4, <2>5
<1>3. ASSUME NEW i \in RowIds
      PROVE  /\ rows[i].m \in Messages /\ sent[rows[i].m] # Nil
             /\ rows[i].at \in 0 .. clock /\ rows[i].type \in Types
             /\ {rows[i].raw, rows[i].auto, rows[i].recalled} \subseteq BOOLEAN
             /\ rows[i].by \subseteq People
  <2>1. rows[i] \in LogRows /\ rows[i].m \in Known /\ rows[i].at <= clock /\ clock \in Nat
    BY RowFields DEF LogTypesInv, LogStateInv, OneRowInv
  <2> QED
    BY <2>1 DEF LogRows, Known
<1>4. \A e \in events : e.n \in 1 .. serial /\ e.m \in Messages
  BY DEF LogTypesInv, KnownInv, Known
<1>5. \A h \in Handlers : handler[h] = Nil \/ handler[h].row \in RowIds
  BY DEF LogTypesInv, KnownInv
<1>6. clock \in Nat /\ serial \in Nat /\ disturbed \subseteq Messages /\ unmarked \subseteq Messages
  BY DEF LogTypesInv, LogStateInv
<1> QED
  BY <1>1, <1>2, <1>3, <1>4, <1>5, <1>6 DEF MessageLogTypeOK

\* Rows, events, handlers and pushed lists keep their types, and a message has at
\* most one row, however the queue, the import and the listeners meet.
THEOREM LogTypeCorrect == MessageLogSpec => []MessageLogTypeOK
<1>1. MessageLogInit /\ agenda \in Agendas => LogTypesInv
  BY LogTypesInit
<1>2. LogTypesInv /\ [MessageLogNext \/ MessageLogRestart]_logVars => LogTypesInv'
  BY LogTypesStep
<1> QED
  BY <1>1, <1>2, LogTypesImply, PTL DEF MessageLogSpec

-----------------------------------------------------------------------------
(* The log agrees with Zalo                                                *)

\* The reactions that the row of m shows.
Shown(m) == UNION {rows[i].by : i \in Rows(m)}

\* Handler h is about to write what p did to m.
Writing(h, m, p) ==
    /\ handler[h] # Nil /\ handler[h].step = "write" /\ handler[h].e.type = "reaction"
    /\ handler[h].e.m = m /\ handler[h].e.by = p

\* The events about p and m that wait, and with them the ones to be written.
Waiting(m, p) == {e \in events : e.type = "reaction" /\ e.m = m /\ e.by = p}
About(m, p) == Waiting(m, p) \cup {handler[h].e : h \in {k \in Handlers : Writing(k, m, p)}}

\* The row says of p what Zalo does, or the last event under way says it.
Level(m, p) ==
    IF About(m, p) = {} THEN p \in zalo[m].by <=> p \in Shown(m)
    ELSE \A e \in About(m, p) :
            (\A f \in About(m, p) : f.n <= e.n) => (e.on <=> p \in zalo[m].by)

\* What is to be written about p and m came before whatever waits.
FirstCome(m, p) ==
    \A h \in Handlers : Writing(h, m, p) =>
        /\ \A k \in Handlers : k # h => ~ Writing(k, m, p)
        /\ \A e \in Waiting(m, p) : handler[h].e.n < e.n

LevelInv == \A m \in Messages \ disturbed : \A p \in People : Level(m, p) /\ FirstCome(m, p)

NumbersInv == \A e, f \in events : e.n = f.n => e = f

\* A handler that holds another message's row is a disturbance.
HeldInv ==
    \A h \in Handlers : handler[h] # Nil /\ rows[handler[h].row].m # handler[h].e.m =>
        /\ handler[h].e.type = "reaction"
        /\ {rows[handler[h].row].m, handler[h].e.m} \subseteq disturbed

\* A handler that wrote the row of m has not told the console yet.
Pushing(h, m) == handler[h] # Nil /\ handler[h].step = "push" /\ rows[handler[h].row].m = m

ToldInv ==
    \A m \in Messages \ disturbed :
        pushed[m] \in {Nil, Shown(m)} \/ \E h \in Handlers : Pushing(h, m)

\* A recall is marked, on its way, or lost.
Recall(h, m) == handler[h] # Nil /\ handler[h].e.type = "undo" /\ handler[h].e.m = m
Marked(m) == \E i \in Rows(m) : rows[i].recalled
RecallInv ==
    /\ \A m \in Messages : Marked(m) => zalo[m].recalled
    /\ \A e \in events : e.type = "undo" => zalo[e.m].recalled
    /\ \A m \in Messages, h \in Handlers : Recall(h, m) => zalo[m].recalled
    /\ \A m \in Messages \ unmarked : zalo[m].recalled =>
          \/ \E e \in events : e.type = "undo" /\ e.m = m
          \/ \E h \in Handlers : Recall(h, m)
          \/ Marked(m)

LogInv == LogTypesInv /\ NumbersInv /\ HeldInv /\ LevelInv /\ ToldInv /\ RecallInv

LEMMA ShownByRow ==
    ASSUME OneRowInv, NEW i \in RowIds
    PROVE  Rows(rows[i].m) = {i} /\ Shown(rows[i].m) = rows[i].by
<1>1. Rows(rows[i].m) = {i}
  BY DEF Rows, OneRowInv
<1> QED
  BY <1>1 DEF Shown

\* The rows keep their reactions and recalls, and new ones have none.
RowsHold ==
    /\ RowIds \subseteq RowIds'
    /\ \A i \in RowIds : /\ rows'[i].m = rows[i].m /\ rows'[i].by = rows[i].by
                         /\ rows'[i].recalled = rows[i].recalled
    /\ \A i \in RowIds' \ RowIds : rows'[i].by = {} /\ rows'[i].recalled = FALSE

LEMMA ShownHolds ==
    ASSUME RowsHold, NEW m
    PROVE  Shown(m)' = Shown(m) /\ (Marked(m)' <=> Marked(m))
<1>1. Rows(m) \subseteq Rows(m)' /\ Rows(m)' \cap RowIds = Rows(m)
  BY DEF RowsHold, Rows
<1>2. \A i \in Rows(m)' : IF i \in Rows(m) THEN rows'[i].by = rows[i].by /\ rows'[i].recalled = rows[i].recalled
                          ELSE rows'[i].by = {} /\ rows'[i].recalled = FALSE
  BY <1>1 DEF RowsHold, Rows
<1>3. \A x : x \in Shown(m)' <=> x \in Shown(m)
  BY <1>1, <1>2 DEF Shown
<1>4. Marked(m)' <=> Marked(m)
  BY <1>1, <1>2 DEF Marked
<1> QED
  BY <1>3, <1>4

\* Steps that leave events and handlers alone.
LEMMA StillAgree ==
    ASSUME LogInv, LogTypesInv', RowsHold,
           UNCHANGED <<zalo, events, handler, pushed, disturbed, unmarked>>
    PROVE  LogInv'
<1>1. NumbersInv'
  BY DEF LogInv, NumbersInv
<1>2. \A h \in Handlers : handler[h] # Nil => rows'[handler[h].row].m = rows[handler[h].row].m
  BY HandlerFields DEF LogInv, RowsHold
<1>3. HeldInv'
  BY <1>2 DEF LogInv, HeldInv
<1>4. \A m : Shown(m)' = Shown(m) /\ (Marked(m)' <=> Marked(m))
  BY ShownHolds
<1>5. \A m, p : About(m, p)' = About(m, p) /\ Waiting(m, p)' = Waiting(m, p)
  BY DEF About, Waiting, Writing
<1>6. LevelInv'
  <2> SUFFICES ASSUME NEW m \in Messages \ disturbed, NEW p \in People
               PROVE  Level(m, p)' /\ FirstCome(m, p)'
    BY DEF LevelInv
  <2>1. Level(m, p) /\ FirstCome(m, p)
    BY DEF LogInv, LevelInv
  <2>2. Level(m, p)'
    BY <1>4, <1>5, <2>1 DEF Level
  <2>3. FirstCome(m, p)'
    BY <1>5, <2>1 DEF FirstCome, Writing
  <2> QED
    BY <2>2, <2>3
<1>7. ToldInv'
  <2> SUFFICES ASSUME NEW m \in Messages \ disturbed
               PROVE  (pushed[m] \in {Nil, Shown(m)} \/ \E h \in Handlers : Pushing(h, m))'
    BY DEF ToldInv
  <2>1. pushed[m] \in {Nil, Shown(m)} \/ \E h \in Handlers : Pushing(h, m)
    BY DEF LogInv, ToldInv
  <2>2. \A h \in Handlers : Pushing(h, m) => Pushing(h, m)'
    BY <1>2 DEF Pushing
  <2> QED
    BY <1>4, <2>1, <2>2
<1>8. RecallInv'
  BY <1>4 DEF LogInv, RecallInv, Recall
<1> QED
  BY <1>1, <1>3, <1>6, <1>7, <1>8 DEF LogInv

LEMMA LogRowsStay ==
    ASSUME UNCHANGED rows
    PROVE  RowsHold
  BY DEF RowsHold, RowIds

LEMMA StoringHolds ==
    ASSUME LogTypesInv, NEW m \in Messages, Store(m) \/ ImportMessage(m)
    PROVE  RowsHold
<1>1. rows \in Seq(LogRows) /\ m \in Known
  BY StoresOrMarks DEF LogTypesInv, LogStateInv
<1>2. CASE UNCHANGED rows
  BY <1>2, LogRowsStay
<1>3. ASSUME NEW live \in BOOLEAN, NEW auto \in BOOLEAN, Rows(m) = {},
             rows' = Append(rows, Row(m, live, auto))
      PROVE  RowsHold
  <2>1. PICK r : r = Row(m, live, auto)
    OBVIOUS
  <2>2. r.by = {} /\ r.recalled = FALSE
    BY <2>1 DEF Row
  <2>3. PICK new : new = Len(rows) + 1
    OBVIOUS
  <2>4. /\ RowIds' = RowIds \cup {new} /\ rows'[new] = r
        /\ \A j \in RowIds : rows'[j] = rows[j]
    BY <1>1, <1>3, <2>1, <2>3 DEF RowIds
  <2> QED
    BY <2>2, <2>4 DEF RowsHold
<1>4. ASSUME NEW i \in Rows(m), NEW auto \in BOOLEAN, rows' = [rows EXCEPT ![i].auto = auto]
      PROVE  RowsHold
  <2>1. i \in RowIds /\ rows[i] \in LogRows
    BY <1>1, RowFields DEF Rows
  <2>2. PICK r : r = [rows[i] EXCEPT !.auto = auto]
    OBVIOUS
  <2>3. r \in LogRows /\ r.m = rows[i].m /\ r.by = rows[i].by /\ r.recalled = rows[i].recalled
    BY <2>1, <2>2 DEF LogRows
  <2>4. rows' = [rows EXCEPT ![i] = r]
    BY <1>4, <2>2
  <2>5. RowIds' = RowIds /\ \A j \in RowIds : rows'[j] = IF j = i THEN r ELSE rows[j]
    BY <1>1, <2>1, <2>3, <2>4, RowReplaced
  <2> QED
    BY <2>3, <2>5 DEF RowsHold
<1> QED
  BY <1>2, <1>3, <1>4, StoresOrMarks

\* What about p and m is the same before and after keeps them level.
LEMMA LevelKept ==
    ASSUME NEW m, NEW p, Level(m, p), FirstCome(m, p),
           Waiting(m, p)' = Waiting(m, p),
           \A h \in Handlers : /\ Writing(h, m, p)' <=> Writing(h, m, p)
                               /\ Writing(h, m, p) => handler'[h].e = handler[h].e,
           (p \in zalo[m].by)' <=> p \in zalo[m].by,
           (p \in Shown(m))' <=> p \in Shown(m)
    PROVE  Level(m, p)' /\ FirstCome(m, p)'
<1>1. \A e : e \in About(m, p)' <=> e \in About(m, p)
  BY DEF About
<1>2. About(m, p)' = About(m, p)
  BY <1>1
<1>3. Level(m, p)'
  BY <1>2 DEF Level
<1>4. FirstCome(m, p)'
  BY DEF FirstCome
<1> QED
  BY <1>3, <1>4

\* A new event: nothing of the rows, the handlers and what was told changes.
LEMMA ReactionAgrees ==
    ASSUME LogInv, LogTypesInv', NEW p \in People, NEW m \in Known,
           UNCHANGED <<rows, handler, pushed, disturbed, unmarked>>,
           NEW e \in Reactions, e.m = m, e.by = p, e.n = serial + 1, e.on <=> p \notin zalo[m].by,
           events' = events \cup {e},
           zalo' = [zalo EXCEPT ![m].by = IF p \in @ THEN @ \ {p} ELSE @ \cup {p}]
    PROVE  LogInv'
<1>1. /\ \A f \in events : f.n \in Nat /\ f.n < e.n
      /\ \A h \in Handlers : handler[h] # Nil => handler[h].e.n \in Nat /\ handler[h].e.n < e.n
      /\ m \in Messages /\ e.n \in Nat
  <2>1. serial \in Nat /\ \A f \in events : f.n \in 1 .. serial
    BY DEF LogInv, LogTypesInv, LogStateInv, KnownInv
  <2>2. \A h \in Handlers : handler[h] # Nil => handler[h].e.n \in 1 .. serial
    BY HandlerFields DEF LogInv
  <2> QED
    BY <2>1, <2>2 DEF Known
<1>2. e.type = "reaction"
  BY DEF Reactions
<1>3. NumbersInv'
  BY <1>1 DEF LogInv, NumbersInv
<1>4. HeldInv'
  BY DEF LogInv, HeldInv
<1>5. \A x : Shown(x)' = Shown(x) /\ (Marked(x)' <=> Marked(x))
  BY LogRowsStay, ShownHolds
<1>6. zalo \in [Messages -> [by : SUBSET People, recalled : BOOLEAN]]
  BY DEF LogInv, LogTypesInv, LogStateInv
<1>7. /\ \A x \in Messages : zalo'[x].recalled = zalo[x].recalled
      /\ \A x \in Messages, q \in People :
            ~ (x = m /\ q = p) => (q \in zalo'[x].by <=> q \in zalo[x].by)
      /\ p \in zalo'[m].by <=> p \notin zalo[m].by
  <2>1. \A x \in Messages : x # m => zalo'[x] = zalo[x]
    BY <1>1, <1>6
  <2>2. /\ zalo'[m].recalled = zalo[m].recalled
        /\ zalo'[m].by = IF p \in zalo[m].by THEN zalo[m].by \ {p} ELSE zalo[m].by \cup {p}
    BY <1>1, <1>6
  <2> QED
    BY <2>1, <2>2
<1>8. LevelInv'
  <2> SUFFICES ASSUME NEW x \in Messages \ disturbed, NEW q \in People
               PROVE  Level(x, q)' /\ FirstCome(x, q)'
    BY DEF LevelInv
  <2>1. Level(x, q) /\ FirstCome(x, q)
    BY DEF LogInv, LevelInv
  <2>2. CASE ~ (x = m /\ q = p)
    <3>1. Waiting(x, q)' = Waiting(x, q)
      BY <2>2 DEF Waiting
    <3>2. \A h \in Handlers : /\ Writing(h, x, q)' <=> Writing(h, x, q)
                              /\ Writing(h, x, q) => handler'[h].e = handler[h].e
      BY DEF Writing
    <3> QED
      BY <1>5, <1>7, <2>1, <2>2, <3>1, <3>2, LevelKept
  <2>3. CASE x = m /\ q = p
    <3>1. Waiting(m, p)' = Waiting(m, p) \cup {e}
      BY <1>2 DEF Waiting
    <3>2. About(m, p)' = About(m, p) \cup {e}
      BY <3>1 DEF About, Writing
    <3>3. \A f \in About(m, p) : f.n < e.n /\ f.n \in Nat
      BY <1>1 DEF About, Waiting, Writing
    <3>4. Level(m, p)'
      <4>1. ASSUME NEW f \in About(m, p)', \A g \in About(m, p)' : g.n <= f.n
            PROVE  f = e
        BY <1>1, <3>2, <3>3, <4>1
      <4>2. e.on <=> p \in zalo'[m].by
        BY <1>7
      <4> QED
        BY <3>2, <4>1, <4>2 DEF Level
    <3>5. FirstCome(m, p)'
      BY <1>1, <2>1, <2>3, <3>1 DEF FirstCome, Writing
    <3> QED
      BY <2>3, <3>4, <3>5
  <2> QED
    BY <2>2, <2>3
<1>9. ToldInv'
  BY <1>5 DEF LogInv, ToldInv, Pushing
<1>10. RecallInv'
  <2>1. \A f \in events : f.m \in Messages
    BY DEF LogInv, LogTypesInv, KnownInv, Known
  <2>2. \A f \in events' : f.type = "undo" => f \in events /\ zalo'[f.m].recalled
    BY <1>2, <1>7, <2>1 DEF LogInv, RecallInv
  <2>3. \A x \in Messages \ unmarked : zalo'[x].recalled =>
          \/ \E f \in events' : f.type = "undo" /\ f.m = x
          \/ \E h \in Handlers : Recall(h, x)'
          \/ Marked(x)'
    BY <1>5, <1>7 DEF LogInv, RecallInv, Recall
  <2>4. \A x \in Messages, h \in Handlers : Recall(h, x)' => zalo'[x].recalled
    BY <1>7 DEF LogInv, RecallInv, Recall
  <2>5. \A x \in Messages : Marked(x)' => zalo'[x].recalled
    BY <1>5, <1>7 DEF LogInv, RecallInv
  <2> QED
    BY <2>2, <2>3, <2>4, <2>5 DEF RecallInv
<1> QED
  BY <1>3, <1>4, <1>8, <1>9, <1>10 DEF LogInv

LEMMA RecallAgrees ==
    ASSUME LogInv, LogTypesInv', NEW m \in Known,
           UNCHANGED <<rows, handler, pushed, disturbed, unmarked>>,
           NEW e \in Undos, e.m = m, e.n = serial + 1, e.type = "undo",
           events' = events \cup {e},
           zalo' = [zalo EXCEPT ![m].recalled = TRUE]
    PROVE  LogInv'
<1>1. /\ \A f \in events : f.n \in Nat /\ f.n < e.n
      /\ m \in Messages /\ e.n \in Nat
  <2>1. serial \in Nat /\ \A f \in events : f.n \in 1 .. serial
    BY DEF LogInv, LogTypesInv, LogStateInv, KnownInv
  <2> QED
    BY <2>1 DEF Known
<1>2. NumbersInv'
  BY <1>1 DEF LogInv, NumbersInv
<1>3. HeldInv'
  BY DEF LogInv, HeldInv
<1>4. \A x : Shown(x)' = Shown(x) /\ (Marked(x)' <=> Marked(x))
  BY LogRowsStay, ShownHolds
<1>5. zalo \in [Messages -> [by : SUBSET People, recalled : BOOLEAN]]
  BY DEF LogInv, LogTypesInv, LogStateInv
<1>6. /\ \A x \in Messages : zalo'[x].by = zalo[x].by
      /\ \A x \in Messages : x # m => zalo'[x].recalled = zalo[x].recalled
      /\ zalo'[m].recalled = TRUE
  <2>1. \A x \in Messages : x # m => zalo'[x] = zalo[x]
    BY <1>1, <1>5
  <2>2. zalo'[m].recalled = TRUE /\ zalo'[m].by = zalo[m].by
    BY <1>1, <1>5
  <2> QED
    BY <2>1, <2>2
<1>7. LevelInv'
  <2> SUFFICES ASSUME NEW x \in Messages \ disturbed, NEW q \in People
               PROVE  Level(x, q)' /\ FirstCome(x, q)'
    BY DEF LevelInv
  <2>1. Level(x, q) /\ FirstCome(x, q)
    BY DEF LogInv, LevelInv
  <2>2. Waiting(x, q)' = Waiting(x, q)
    BY DEF Waiting
  <2>3. \A h \in Handlers : /\ Writing(h, x, q)' <=> Writing(h, x, q)
                            /\ Writing(h, x, q) => handler'[h].e = handler[h].e
    BY DEF Writing
  <2> QED
    BY <1>4, <1>6, <2>1, <2>2, <2>3, LevelKept
<1>8. ToldInv'
  BY <1>4 DEF LogInv, ToldInv, Pushing
<1>9. RecallInv'
  <2>1. \A f \in events : f.m \in Messages
    BY DEF LogInv, LogTypesInv, KnownInv, Known
  <2>2. \A x \in Messages : zalo[x].recalled => zalo'[x].recalled
    BY <1>6
  <2>3. \A f \in events' : f.type = "undo" => zalo'[f.m].recalled
    BY <1>6, <2>1, <2>2 DEF LogInv, RecallInv
  <2>4. \A x \in Messages \ unmarked : zalo'[x].recalled =>
          \/ \E f \in events' : f.type = "undo" /\ f.m = x
          \/ \E h \in Handlers : Recall(h, x)'
          \/ Marked(x)'
    BY <1>4, <1>6 DEF LogInv, RecallInv, Recall
  <2>5. \A x \in Messages, h \in Handlers : Recall(h, x)' => zalo'[x].recalled
    BY <2>2 DEF LogInv, RecallInv, Recall
  <2>6. \A x \in Messages : Marked(x)' => zalo'[x].recalled
    BY <1>4, <2>2 DEF LogInv, RecallInv
  <2> QED
    BY <2>3, <2>4, <2>5, <2>6 DEF RecallInv
<1> QED
  BY <1>2, <1>3, <1>7, <1>8, <1>9 DEF LogInv

\* A handler holds the event that it took, and it is the first of its kind unless
\* its message is disturbed.
LEMMA TakenAgrees ==
    ASSUME LogInv, LogTypesInv', NEW h \in Handlers, NEW e \in events, handler[h] = Nil,
           events' = events \ {e}, UNCHANGED <<zalo, rows, pushed>>,
           disturbed \subseteq disturbed', unmarked \subseteq unmarked',
           NEW i \in RowIds, NEW H \in Handlings, handler' = [handler EXCEPT ![h] = H],
           H = [e |-> e, row |-> i, by |-> rows[i].by, step |-> "write"],
           e.type = "undo" => rows[i].m = e.m,
           rows[i].m # e.m => {rows[i].m, e.m} \subseteq disturbed',
           Overtakes(e) => e.m \in disturbed'
    PROVE  LogInv'
<1>1. /\ e \in Reactions \cup Undos /\ e.m \in Messages /\ e.n \in Nat
      /\ \A f \in events : f.n \in Nat
  BY EventFields DEF LogInv, LogTypesInv, LogStateInv
<1>2. /\ H # Nil /\ H.e = e /\ H.row = i /\ H.step = "write"
      /\ handler'[h] = H /\ \A k \in Handlers : k # h => handler'[k] = handler[k]
  <2>1. handler \in [Handlers -> Handlings \cup {Nil}]
    BY DEF LogInv, LogTypesInv, LogStateInv
  <2>2. H # Nil
    BY MessageLogAssumption
  <2> QED
    BY <2>1, <2>2
<1>3. NumbersInv'
  BY DEF LogInv, NumbersInv
<1>4. HeldInv'
  <2> SUFFICES ASSUME NEW k \in Handlers, handler'[k] # Nil,
                      rows[handler'[k].row].m # handler'[k].e.m
               PROVE  /\ handler'[k].e.type = "reaction"
                      /\ {rows[handler'[k].row].m, handler'[k].e.m} \subseteq disturbed'
    BY DEF HeldInv
  <2>1. CASE k = h
    BY <1>1, <1>2, <2>1, EventFields
  <2>2. CASE k # h
    BY <1>2, <2>2 DEF LogInv, HeldInv
  <2> QED
    BY <2>1, <2>2
<1>5. \A x : Shown(x)' = Shown(x) /\ (Marked(x)' <=> Marked(x))
  BY LogRowsStay, ShownHolds
<1>6. LevelInv'
  <2> SUFFICES ASSUME NEW m \in Messages \ disturbed', NEW p \in People
               PROVE  Level(m, p)' /\ FirstCome(m, p)'
    BY DEF LevelInv
  <2>1. Level(m, p) /\ FirstCome(m, p)
    BY DEF LogInv, LevelInv
  <2>2. CASE ~ (e.type = "reaction" /\ e.m = m /\ e.by = p)
    <3>1. Waiting(m, p)' = Waiting(m, p)
      BY <2>2 DEF Waiting
    <3>2. ~ Writing(h, m, p) /\ ~ Writing(h, m, p)'
      BY <1>2, <2>2 DEF Writing
    <3>3. \A k \in Handlers : /\ Writing(k, m, p)' <=> Writing(k, m, p)
                              /\ Writing(k, m, p) => handler'[k].e = handler[k].e
      BY <1>2, <3>2 DEF Writing
    <3> QED
      BY <1>5, <2>1, <3>1, <3>3, LevelKept
  <2>3. CASE e.type = "reaction" /\ e.m = m /\ e.by = p
    <3>1. ~ Overtakes(e)
      BY <2>3
    <3>2. \A k \in Handlers : ~ Writing(k, m, p)
      BY <2>3, <3>1 DEF Overtakes, Writing
    <3>3. \A f \in Waiting(m, p) : ~ (f.n < e.n)
      BY <2>3, <3>1 DEF Overtakes, Waiting
    <3>4. Waiting(m, p)' = Waiting(m, p) \ {e} /\ e \in Waiting(m, p)
      BY <2>3 DEF Waiting
    <3>5. \A f \in Waiting(m, p)' : e.n < f.n
      <4>1. \A f \in Waiting(m, p)' : f \in events /\ f # e /\ f.n # e.n
        BY <3>4 DEF Waiting, LogInv, NumbersInv
      <4> QED
        BY <1>1, <3>3, <3>4, <4>1
    <3>6. Writing(h, m, p)' /\ \A k \in Handlers : k # h => ~ Writing(k, m, p)'
      BY <1>2, <2>3, <3>2 DEF Writing
    <3>7. FirstCome(m, p)'
      BY <1>2, <3>5, <3>6 DEF FirstCome
    <3>8. About(m, p)' = About(m, p)
      <4>1. About(m, p) = Waiting(m, p)
        BY <3>2 DEF About
      <4>2. About(m, p)' = Waiting(m, p)' \cup {e}
        BY <1>2, <3>6 DEF About
      <4> QED
        BY <3>4, <4>1, <4>2
    <3>9. Level(m, p)'
      BY <1>5, <2>1, <3>8 DEF Level
    <3> QED
      BY <3>7, <3>9
  <2> QED
    BY <2>2, <2>3
<1>7. ToldInv'
  <2>1. \A m : \A k \in Handlers : Pushing(k, m) => Pushing(k, m)'
    BY <1>2 DEF Pushing
  <2> QED
    BY <1>5, <2>1 DEF LogInv, ToldInv
<1>8. RecallInv'
  <2>1. \A m : \A k \in Handlers : Recall(k, m)' <=> Recall(k, m) \/ (k = h /\ e.type = "undo" /\ e.m = m)
    BY <1>2 DEF Recall
  <2>2. \A m \in Messages, k \in Handlers : Recall(k, m)' => zalo[m].recalled
    BY <2>1 DEF LogInv, RecallInv
  <2>3. \A m \in Messages \ unmarked' : zalo[m].recalled =>
          \/ \E f \in events' : f.type = "undo" /\ f.m = m
          \/ \E k \in Handlers : Recall(k, m)'
          \/ Marked(m)'
    <3> SUFFICES ASSUME NEW m \in Messages \ unmarked', zalo[m].recalled
                 PROVE  \/ \E f \in events' : f.type = "undo" /\ f.m = m
                        \/ \E k \in Handlers : Recall(k, m)'
                        \/ Marked(m)'
      OBVIOUS
    <3>1. \/ \E f \in events : f.type = "undo" /\ f.m = m
          \/ \E k \in Handlers : Recall(k, m)
          \/ Marked(m)
      BY DEF LogInv, RecallInv
    <3> QED
      BY <1>5, <2>1, <3>1
  <2> QED
    BY <1>5, <2>2, <2>3 DEF LogInv, RecallInv
<1> QED
  BY <1>3, <1>4, <1>6, <1>7, <1>8 DEF LogInv

\* An event that found no row is a disturbance, or leaves its message unmarked.
LEMMA DroppedAgrees ==
    ASSUME LogInv, LogTypesInv', NEW e \in events, events' = events \ {e},
           UNCHANGED <<zalo, rows, pushed, handler>>,
           disturbed \subseteq disturbed', unmarked \subseteq unmarked',
           e.type = "reaction" => e.m \in disturbed',
           e.type = "undo" => e.m \in unmarked'
    PROVE  LogInv'
<1>1. NumbersInv'
  BY DEF LogInv, NumbersInv
<1>2. HeldInv'
  BY DEF LogInv, HeldInv
<1>3. \A x : Shown(x)' = Shown(x) /\ (Marked(x)' <=> Marked(x))
  BY LogRowsStay, ShownHolds
<1>4. LevelInv'
  <2> SUFFICES ASSUME NEW m \in Messages \ disturbed', NEW p \in People
               PROVE  Level(m, p)' /\ FirstCome(m, p)'
    BY DEF LevelInv
  <2>1. Level(m, p) /\ FirstCome(m, p)
    BY DEF LogInv, LevelInv
  <2>2. Waiting(m, p)' = Waiting(m, p)
    BY DEF Waiting
  <2>3. \A h \in Handlers : /\ Writing(h, m, p)' <=> Writing(h, m, p)
                            /\ Writing(h, m, p) => handler'[h].e = handler[h].e
    BY DEF Writing
  <2> QED
    BY <1>3, <2>1, <2>2, <2>3, LevelKept
<1>5. ToldInv'
  BY <1>3 DEF LogInv, ToldInv, Pushing
<1>6. RecallInv'
  BY <1>3 DEF LogInv, RecallInv, Recall
<1> QED
  BY <1>1, <1>2, <1>4, <1>5, <1>6 DEF LogInv

\* So is a handler that stopped before it wrote.
LEMMA StoppedAgrees ==
    ASSUME LogInv, LogTypesInv', NEW h \in Handlers, handler[h] # Nil, handler[h].step = "write",
           handler' = [handler EXCEPT ![h] = Nil],
           UNCHANGED <<zalo, rows, pushed, events>>,
           disturbed \subseteq disturbed', unmarked \subseteq unmarked',
           handler[h].e.type = "reaction" => handler[h].e.m \in disturbed',
           handler[h].e.type = "undo" => handler[h].e.m \in unmarked'
    PROVE  LogInv'
<1>1. handler'[h] = Nil /\ \A k \in Handlers : k # h => handler'[k] = handler[k]
  BY DEF LogInv, LogTypesInv, LogStateInv
<1>2. NumbersInv'
  BY DEF LogInv, NumbersInv
<1>3. HeldInv'
  BY <1>1 DEF LogInv, HeldInv
<1>4. \A x : Shown(x)' = Shown(x) /\ (Marked(x)' <=> Marked(x))
  BY LogRowsStay, ShownHolds
<1>5. LevelInv'
  <2> SUFFICES ASSUME NEW m \in Messages \ disturbed', NEW p \in People
               PROVE  Level(m, p)' /\ FirstCome(m, p)'
    BY DEF LevelInv
  <2>1. Level(m, p) /\ FirstCome(m, p)
    BY DEF LogInv, LevelInv
  <2>2. Waiting(m, p)' = Waiting(m, p)
    BY DEF Waiting
  <2>3. \A k \in Handlers : /\ Writing(k, m, p)' <=> Writing(k, m, p)
                            /\ Writing(k, m, p) => handler'[k].e = handler[k].e
    BY <1>1 DEF Writing
  <2> QED
    BY <1>4, <2>1, <2>2, <2>3, LevelKept
<1>6. ToldInv'
  <2>1. \A m : \A k \in Handlers : Pushing(k, m) => Pushing(k, m)'
    BY <1>1 DEF Pushing
  <2> QED
    BY <1>4, <2>1 DEF LogInv, ToldInv
<1>7. RecallInv'
  <2>1. \A m : \A k \in Handlers : Recall(k, m)' <=> Recall(k, m) /\ k # h
    BY <1>1 DEF Recall
  <2>2. \A m \in Messages \ unmarked' : ~ Recall(h, m)
    BY DEF Recall
  <2>3. \A m \in Messages, k \in Handlers : Recall(k, m)' => zalo[m].recalled
    BY <2>1 DEF LogInv, RecallInv
  <2>4. \A m \in Messages \ unmarked' : zalo[m].recalled =>
          \/ \E f \in events' : f.type = "undo" /\ f.m = m
          \/ \E k \in Handlers : Recall(k, m)'
          \/ Marked(m)'
    <3> SUFFICES ASSUME NEW m \in Messages \ unmarked', zalo[m].recalled
                 PROVE  \/ \E f \in events' : f.type = "undo" /\ f.m = m
                        \/ \E k \in Handlers : Recall(k, m)'
                        \/ Marked(m)'
      OBVIOUS
    <3>1. \/ \E f \in events : f.type = "undo" /\ f.m = m
          \/ \E k \in Handlers : Recall(k, m)
          \/ Marked(m)
      BY DEF LogInv, RecallInv
    <3> QED
      BY <1>4, <2>1, <2>2, <3>1
  <2> QED
    BY <1>4, <2>3, <2>4 DEF LogInv, RecallInv
<1> QED
  BY <1>2, <1>3, <1>5, <1>6, <1>7 DEF LogInv

\* The row that is written shows the event that was the first; others keep theirs.
LEMMA WrittenAgrees ==
    ASSUME LogInv, LogTypesInv', NEW h \in Handlers, WriteReaction(h)
    PROVE  LogInv'
<1>1. PICK i \in RowIds, H \in Handlings, r \in LogRows :
              /\ handler[h] # Nil /\ handler[h].step = "write" /\ handler[h].e.type = "reaction"
              /\ i = handler[h].row /\ rows' = [rows EXCEPT ![i] = r]
              /\ r = [rows[i] EXCEPT !.by = NewList(h)]
              /\ handler' = [handler EXCEPT ![h] = H] /\ H \in Handlings
              /\ H.row = i /\ H.e = handler[h].e /\ H.by = NewList(h) /\ H.step = "push"
              /\ disturbed' = IF rows[i].by # handler[h].by
                              THEN disturbed \cup {rows[i].m} ELSE disturbed
              /\ UNCHANGED <<zaloVars, pushed, unmarked, reader, agenda>>
  BY Writings DEF LogInv
<1>2. PICK e : e = handler[h].e
  OBVIOUS
<1>3. rows \in Seq(LogRows) /\ OneRowInv /\ handler \in [Handlers -> Handlings \cup {Nil}]
  BY DEF LogInv, LogTypesInv, LogStateInv
<1>4. /\ UNCHANGED <<zalo, events>> /\ H # Nil
      /\ handler'[h] = H /\ \A k \in Handlers : k # h => handler'[k] = handler[k]
  BY <1>1, <1>3, MessageLogAssumption DEF zaloVars
<1>5. /\ RowIds' = RowIds /\ \A j \in RowIds : rows'[j] = IF j = i THEN r ELSE rows[j]
  BY <1>1, <1>3, RowReplaced
<1>6. r.m = rows[i].m /\ r.by = NewList(h) /\ r.recalled = rows[i].recalled
  <2>1. rows[i] \in LogRows
    BY <1>3, RowFields
  <2> QED
    BY <1>1, <2>1 DEF LogRows
<1>7. \A j \in RowIds : rows'[j].m = rows[j].m /\ rows'[j].recalled = rows[j].recalled
  BY <1>5, <1>6
<1>8. \A m : Rows(m)' = Rows(m) /\ (Marked(m)' <=> Marked(m))
  <2> SUFFICES ASSUME NEW m PROVE Rows(m)' = Rows(m) /\ (Marked(m)' <=> Marked(m))
    OBVIOUS
  <2>1. Rows(m)' = Rows(m)
    BY <1>5, <1>7 DEF Rows
  <2> QED
    BY <1>7, <2>1 DEF Marked, Rows
<1>17. PICK w : w = rows[i].m
  OBVIOUS
<1>9. /\ \A m : m # w => Shown(m)' = Shown(m)
      /\ Shown(w) = rows[i].by /\ Shown(w)' = NewList(h)
  <2>1. Rows(w) = {i} /\ Shown(w) = rows[i].by
    BY <1>3, <1>17, ShownByRow
  <2>2. rows'[i].by = NewList(h)
    BY <1>5, <1>6
  <2>3. Shown(w)' = NewList(h)
    BY <1>8, <2>1, <2>2 DEF Shown
  <2>4. ASSUME NEW x, x # w PROVE Shown(x)' = Shown(x)
    <3>1. \A j \in Rows(x) : rows'[j].by = rows[j].by
      BY <1>5, <1>17, <2>4 DEF Rows
    <3> QED
      BY <1>8, <3>1 DEF Shown
  <2> QED
    BY <2>1, <2>3, <2>4
<1>10. NumbersInv'
  BY <1>4 DEF LogInv, NumbersInv
<1>11. disturbed \subseteq disturbed'
  BY <1>1
<1>12. HeldInv'
  <2> SUFFICES ASSUME NEW k \in Handlers, handler'[k] # Nil,
                      rows'[handler'[k].row].m # handler'[k].e.m
               PROVE  /\ handler'[k].e.type = "reaction"
                      /\ {rows'[handler'[k].row].m, handler'[k].e.m} \subseteq disturbed'
    BY DEF HeldInv
  <2>1. /\ handler[k] # Nil /\ handler'[k].row = handler[k].row /\ handler'[k].e = handler[k].e
    BY <1>1, <1>4
  <2>2. handler[k].row \in RowIds
    BY <2>1, HandlerFields DEF LogInv
  <2> QED
    BY <1>7, <1>11, <2>1, <2>2 DEF LogInv, HeldInv
<1>13. \A m \in Messages \ disturbed' :
          /\ m = rows[i].m => e.m = m /\ rows[i].by = handler[h].by
          /\ m = e.m => rows[i].m = m
  BY <1>1, <1>2 DEF LogInv, HeldInv
<1>14. LevelInv'
  <2> SUFFICES ASSUME NEW m \in Messages \ disturbed', NEW p \in People
               PROVE  Level(m, p)' /\ FirstCome(m, p)'
    BY DEF LevelInv
  <2>1. Level(m, p) /\ FirstCome(m, p)
    BY <1>11 DEF LogInv, LevelInv
  <2>2. Waiting(m, p)' = Waiting(m, p)
    BY <1>4 DEF Waiting
  <2>3. CASE ~ (e.m = m /\ e.by = p)
    <3>1. ~ Writing(h, m, p) /\ ~ Writing(h, m, p)'
      BY <1>1, <1>2, <1>4, <2>3 DEF Writing
    <3>2. \A k \in Handlers : /\ Writing(k, m, p)' <=> Writing(k, m, p)
                              /\ Writing(k, m, p) => handler'[k].e = handler[k].e
      BY <1>4, <3>1 DEF Writing
    <3>3. (p \in Shown(m))' <=> p \in Shown(m)
      <4>1. CASE m = rows[i].m
        <5>1. e.by # p /\ rows[i].by = handler[h].by
          BY <1>13, <2>3, <4>1
        <5>2. p \in NewList(h) <=> p \in rows[i].by
          BY <1>2, <5>1 DEF NewList
        <5>3. Shown(m) = rows[i].by
          BY <1>9, <1>17, <4>1
        <5>4. Shown(m)' = NewList(h)
          BY <1>9, <1>17, <4>1
        <5> QED
          BY <5>2, <5>3, <5>4
      <4>2. CASE m # rows[i].m
        BY <1>9, <1>17, <4>2
      <4> QED
        BY <4>1, <4>2
    <3>4. (p \in zalo[m].by)' <=> p \in zalo[m].by
      BY <1>4
    <3> QED
      BY <2>1, <2>2, <3>2, <3>3, <3>4, LevelKept
  <2>4. CASE e.m = m /\ e.by = p
    <3>1. m = rows[i].m /\ rows[i].by = handler[h].by
      BY <1>13, <2>4
    <3>2. Writing(h, m, p) /\ ~ Writing(h, m, p)'
      BY <1>1, <1>2, <1>4, <2>4 DEF Writing
    <3>3. \A k \in Handlers : k # h => ~ Writing(k, m, p) /\ ~ Writing(k, m, p)'
      <4>1. \A k \in Handlers : k # h => ~ Writing(k, m, p)
        BY <2>1, <3>2 DEF FirstCome
      <4> QED
        BY <1>4, <4>1 DEF Writing
    <3>4. About(m, p) = Waiting(m, p) \cup {e} /\ About(m, p)' = Waiting(m, p)
      <4>1. {handler[k].e : k \in {j \in Handlers : Writing(j, m, p)}} = {e}
        BY <1>2, <3>2, <3>3
      <4>2. {k \in Handlers : Writing(k, m, p)'} = {}
        BY <3>2, <3>3
      <4>3. About(m, p)' = Waiting(m, p)' \cup {handler'[k].e : k \in {j \in Handlers : Writing(j, m, p)'}}
        BY DEF About
      <4>4. About(m, p)' = Waiting(m, p)'
        BY <4>2, <4>3
      <4> QED
        BY <2>2, <4>1, <4>4 DEF About
    <3>5. /\ \A f \in Waiting(m, p) : e.n < f.n /\ f.n \in Nat
          /\ e.n \in Nat
      <4>1. \A f \in Waiting(m, p) : e.n < f.n
        BY <1>2, <2>1, <3>2 DEF FirstCome
      <4>2. \A f \in Waiting(m, p) : f \in Reactions \cup Undos
        BY DEF LogInv, LogTypesInv, LogStateInv, Waiting
      <4>3. e \in Reactions \cup Undos
        BY <1>1, <1>2, HandlerFields DEF LogInv
      <4> QED
        BY <4>1, <4>2, <4>3, EventFields
    <3>6. FirstCome(m, p)'
      BY <3>2, <3>3 DEF FirstCome
    <3>7. CASE Waiting(m, p) = {}
      <4>1. e.on <=> p \in zalo[m].by
        BY <2>1, <3>4, <3>5, <3>7 DEF Level
      <4>2. p \in NewList(h) <=> e.on
        BY <1>2, <2>4 DEF NewList
      <4>3. Shown(m)' = NewList(h)
        BY <1>9, <1>17, <3>1
      <4>4. (p \in zalo[m].by)' <=> p \in zalo[m].by
        BY <1>4
      <4> QED
        BY <3>4, <3>6, <3>7, <4>1, <4>2, <4>3, <4>4 DEF Level
    <3>8. CASE Waiting(m, p) # {}
      <4>1. ASSUME NEW f \in Waiting(m, p), \A g \in Waiting(m, p) : g.n <= f.n
            PROVE  f.on <=> p \in zalo[m].by
        <5>1. \A g \in About(m, p) : g.n <= f.n
          BY <3>4, <3>5, <4>1
        <5> QED
          BY <2>1, <3>4, <4>1, <5>1 DEF Level
      <4> QED
        BY <1>4, <3>4, <3>6, <3>8, <4>1 DEF Level
    <3> QED
      BY <3>7, <3>8
  <2> QED
    BY <2>3, <2>4
<1>15. ToldInv'
  <2> SUFFICES ASSUME NEW m \in Messages \ disturbed'
               PROVE  (pushed[m] \in {Nil, Shown(m)} \/ \E k \in Handlers : Pushing(k, m))'
    BY DEF ToldInv
  <2>1. CASE m = rows[i].m
    <3>1. Pushing(h, m)'
      BY <1>1, <1>4, <1>7, <2>1 DEF Pushing
    <3> QED
      BY <3>1
  <2>2. CASE m # rows[i].m
    <3>1. pushed[m] \in {Nil, Shown(m)} \/ \E k \in Handlers : Pushing(k, m)
      BY <1>11 DEF LogInv, ToldInv
    <3>2. \A k \in Handlers : Pushing(k, m) => Pushing(k, m)'
      <4> SUFFICES ASSUME NEW k \in Handlers, Pushing(k, m) PROVE Pushing(k, m)'
        OBVIOUS
      <4>1. k # h
        BY <1>1 DEF Pushing
      <4>2. handler[k].row \in RowIds
        BY HandlerFields DEF LogInv, Pushing
      <4> QED
        BY <1>4, <1>7, <4>1, <4>2 DEF Pushing
    <3> QED
      BY <1>1, <1>9, <1>17, <2>2, <3>1, <3>2
  <2> QED
    BY <2>1, <2>2
<1>16. RecallInv'
  <2>1. \A m : \A k \in Handlers : Recall(k, m)' <=> Recall(k, m)
    BY <1>1, <1>4 DEF Recall
  <2> QED
    BY <1>1, <1>4, <1>8, <2>1 DEF LogInv, RecallInv
<1> QED
  BY <1>10, <1>12, <1>14, <1>15, <1>16 DEF LogInv

\* The console is told what the row shows, or the message is disturbed.
LEMMA PushedAgrees ==
    ASSUME LogInv, LogTypesInv', NEW h \in Handlers, PushReaction(h)
    PROVE  LogInv'
<1>1. PICK w : w = rows[handler[h].row].m
  OBVIOUS
<1>2. /\ handler[h] # Nil /\ handler[h].step = "push"
      /\ pushed' = [pushed EXCEPT ![w] = handler[h].by]
      /\ disturbed' = IF rows[handler[h].row].by # handler[h].by THEN disturbed \cup {w} ELSE disturbed
      /\ handler' = [handler EXCEPT ![h] = Nil]
      /\ UNCHANGED <<zalo, events, rows, unmarked>>
  BY <1>1 DEF PushReaction, zaloVars
<1>3. handler'[h] = Nil /\ \A k \in Handlers : k # h => handler'[k] = handler[k]
  BY <1>2 DEF LogInv, LogTypesInv, LogStateInv
<1>4. handler[h].row \in RowIds /\ handler[h].e.type = "reaction" /\ OneRowInv
  BY <1>2, HandlerFields DEF LogInv, LogTypesInv
<1>5. NumbersInv'
  BY <1>2 DEF LogInv, NumbersInv
<1>6. disturbed \subseteq disturbed'
  BY <1>2
<1>7. HeldInv'
  BY <1>2, <1>3, <1>6 DEF LogInv, HeldInv
<1>8. \A x : Shown(x)' = Shown(x) /\ (Marked(x)' <=> Marked(x))
  BY <1>2, LogRowsStay, ShownHolds
<1>9. LevelInv'
  <2> SUFFICES ASSUME NEW m \in Messages \ disturbed', NEW p \in People
               PROVE  Level(m, p)' /\ FirstCome(m, p)'
    BY DEF LevelInv
  <2>1. Level(m, p) /\ FirstCome(m, p)
    BY <1>6 DEF LogInv, LevelInv
  <2>2. Waiting(m, p)' = Waiting(m, p)
    BY <1>2 DEF Waiting
  <2>3. \A k \in Handlers : /\ Writing(k, m, p)' <=> Writing(k, m, p)
                            /\ Writing(k, m, p) => handler'[k].e = handler[k].e
    BY <1>2, <1>3 DEF Writing
  <2>4. (p \in zalo[m].by)' <=> p \in zalo[m].by
    BY <1>2
  <2> QED
    BY <1>8, <2>1, <2>2, <2>3, <2>4, LevelKept
<1>10. ToldInv'
  <2> SUFFICES ASSUME NEW m \in Messages \ disturbed'
               PROVE  (pushed[m] \in {Nil, Shown(m)} \/ \E k \in Handlers : Pushing(k, m))'
    BY DEF ToldInv
  <2>1. CASE m = w
    <3>1. Shown(w) = rows[handler[h].row].by
      BY <1>1, <1>4, ShownByRow
    <3>2. rows[handler[h].row].by = handler[h].by
      BY <1>2, <2>1
    <3>3. pushed'[m] = handler[h].by
      BY <1>2, <2>1 DEF LogInv, LogTypesInv, LogStateInv
    <3> QED
      BY <1>8, <2>1, <3>1, <3>2, <3>3
  <2>2. CASE m # w
    <3>1. pushed'[m] = pushed[m]
      BY <1>2, <2>2 DEF LogInv, LogTypesInv, LogStateInv
    <3>2. \A k \in Handlers : Pushing(k, m) => Pushing(k, m)'
      BY <1>1, <1>2, <1>3, <2>2 DEF Pushing
    <3>3. pushed[m] \in {Nil, Shown(m)} \/ \E k \in Handlers : Pushing(k, m)
      BY <1>6 DEF LogInv, ToldInv
    <3> QED
      BY <1>8, <3>1, <3>2, <3>3
  <2> QED
    BY <2>1, <2>2
<1>11. RecallInv'
  <2>1. \A m : \A k \in Handlers : Recall(k, m)' <=> Recall(k, m)
    BY <1>3, <1>4 DEF Recall
  <2> QED
    BY <1>2, <1>8, <2>1 DEF LogInv, RecallInv
<1> QED
  BY <1>5, <1>7, <1>9, <1>10, <1>11 DEF LogInv

\* The row of a recalled message is marked.
LEMMA RecalledAgrees ==
    ASSUME LogInv, LogTypesInv', NEW h \in Handlers, WriteRecall(h)
    PROVE  LogInv'
<1>1. PICK i \in RowIds, r \in LogRows :
              /\ handler[h] # Nil /\ handler[h].e.type = "undo"
              /\ i = handler[h].row /\ rows' = [rows EXCEPT ![i] = r]
              /\ r = [rows[i] EXCEPT !.recalled = TRUE]
              /\ handler' = [handler EXCEPT ![h] = Nil]
              /\ UNCHANGED <<zaloVars, pushed, disturbed, unmarked, reader, agenda>>
  BY RecallWritings DEF LogInv
<1>2. rows \in Seq(LogRows) /\ UNCHANGED <<zalo, events>>
  BY <1>1 DEF LogInv, LogTypesInv, LogStateInv, zaloVars
<1>3. handler'[h] = Nil /\ \A k \in Handlers : k # h => handler'[k] = handler[k]
  BY <1>1 DEF LogInv, LogTypesInv, LogStateInv
<1>4. RowIds' = RowIds /\ \A j \in RowIds : rows'[j] = IF j = i THEN r ELSE rows[j]
  BY <1>1, <1>2, RowReplaced
<1>5. r.m = rows[i].m /\ r.by = rows[i].by /\ r.recalled = TRUE
  <2>1. rows[i] \in LogRows
    BY <1>2, RowFields
  <2> QED
    BY <1>1, <2>1 DEF LogRows
<1>6. \A j \in RowIds : rows'[j].m = rows[j].m /\ rows'[j].by = rows[j].by
  BY <1>4, <1>5
<1>7. PICK w : w = handler[h].e.m
  OBVIOUS
<1>8. rows[i].m = w
  BY <1>1, <1>7 DEF LogInv, HeldInv
<1>9. \A x : Rows(x)' = Rows(x) /\ Shown(x)' = Shown(x)
  <2> SUFFICES ASSUME NEW x PROVE Rows(x)' = Rows(x) /\ Shown(x)' = Shown(x)
    OBVIOUS
  <2>1. Rows(x)' = Rows(x)
    BY <1>4, <1>6 DEF Rows
  <2> QED
    BY <1>6, <2>1 DEF Shown, Rows
<1>10. \A x : Marked(x)' <=> Marked(x) \/ x = w
  <2> SUFFICES ASSUME NEW x PROVE Marked(x)' <=> Marked(x) \/ x = w
    OBVIOUS
  <2>1. Marked(x)' <=> \E j \in Rows(x) : rows'[j].recalled
    BY <1>9 DEF Marked
  <2>2. i \in Rows(x) <=> x = w
    BY <1>8 DEF Rows
  <2>3. \A j \in Rows(x) : j # i => rows'[j].recalled = rows[j].recalled
    BY <1>4 DEF Rows
  <2>4. rows'[i].recalled = TRUE
    BY <1>4, <1>5
  <2> QED
    BY <2>1, <2>2, <2>3, <2>4 DEF Marked
<1>11. NumbersInv'
  BY <1>2 DEF LogInv, NumbersInv
<1>12. HeldInv'
  <2> SUFFICES ASSUME NEW k \in Handlers, handler'[k] # Nil,
                      rows'[handler'[k].row].m # handler'[k].e.m
               PROVE  /\ handler'[k].e.type = "reaction"
                      /\ {rows'[handler'[k].row].m, handler'[k].e.m} \subseteq disturbed'
    BY DEF HeldInv
  <2>1. handler'[k] = handler[k] /\ handler[k].row \in RowIds
    BY <1>3, HandlerFields DEF LogInv
  <2> QED
    BY <1>1, <1>6, <2>1 DEF LogInv, HeldInv
<1>13. LevelInv'
  <2> SUFFICES ASSUME NEW m \in Messages \ disturbed', NEW p \in People
               PROVE  Level(m, p)' /\ FirstCome(m, p)'
    BY DEF LevelInv
  <2>1. Level(m, p) /\ FirstCome(m, p)
    BY <1>1 DEF LogInv, LevelInv
  <2>2. Waiting(m, p)' = Waiting(m, p)
    BY <1>2 DEF Waiting
  <2>3. \A k \in Handlers : /\ Writing(k, m, p)' <=> Writing(k, m, p)
                            /\ Writing(k, m, p) => handler'[k].e = handler[k].e
    BY <1>1, <1>3 DEF Writing
  <2>4. (p \in zalo[m].by)' <=> p \in zalo[m].by
    BY <1>2
  <2> QED
    BY <1>9, <2>1, <2>2, <2>3, <2>4, LevelKept
<1>14. ToldInv'
  <2> SUFFICES ASSUME NEW m \in Messages \ disturbed'
               PROVE  (pushed[m] \in {Nil, Shown(m)} \/ \E k \in Handlers : Pushing(k, m))'
    BY DEF ToldInv
  <2>1. pushed[m] \in {Nil, Shown(m)} \/ \E k \in Handlers : Pushing(k, m)
    BY <1>1 DEF LogInv, ToldInv
  <2>2. \A k \in Handlers : Pushing(k, m) => Pushing(k, m)'
    <3> SUFFICES ASSUME NEW k \in Handlers, Pushing(k, m) PROVE Pushing(k, m)'
      OBVIOUS
    <3>1. handler[k].row \in RowIds /\ handler[k].e.type = "reaction"
      BY HandlerFields DEF LogInv, Pushing
    <3>2. k # h
      BY <1>1, <3>1
    <3> QED
      BY <1>3, <1>6, <3>1, <3>2 DEF Pushing
  <2> QED
    BY <1>1, <1>9, <2>1, <2>2
<1>15. RecallInv'
  <2>1. \A m : \A k \in Handlers : Recall(k, m)' <=> Recall(k, m) /\ k # h
    BY <1>3 DEF Recall
  <2>2. \A m : Recall(h, m) => m = w
    BY <1>7 DEF Recall
  <2>3. w \in Messages /\ zalo[w].recalled
    <3>1. w \in Messages
      BY <1>1, <1>7, HandlerFields DEF LogInv, Known
    <3>2. Recall(h, w)
      BY <1>1, <1>7 DEF Recall
    <3> QED
      BY <3>1, <3>2 DEF LogInv, RecallInv
  <2>4. \A m \in Messages : Marked(m)' => zalo[m].recalled
    BY <1>10, <2>3 DEF LogInv, RecallInv
  <2>5. \A m \in Messages \ unmarked : zalo[m].recalled =>
          \/ \E f \in events : f.type = "undo" /\ f.m = m
          \/ \E k \in Handlers : Recall(k, m)'
          \/ Marked(m)'
    BY <1>10, <2>1, <2>2 DEF LogInv, RecallInv
  <2>6. \A m \in Messages, k \in Handlers : Recall(k, m)' => zalo[m].recalled
    BY <2>1 DEF LogInv, RecallInv
  <2> QED
    BY <1>1, <1>2, <2>4, <2>5, <2>6 DEF LogInv, RecallInv
<1> QED
  BY <1>11, <1>12, <1>13, <1>14, <1>15 DEF LogInv

\* After a restart nothing is under way but what was lost with the process.
LEMMA RestartAgrees ==
    ASSUME LogInv, LogTypesInv', MessageLogRestart
    PROVE  LogInv'
<1>1. /\ events' = {} /\ handler' = [h \in Handlers |-> Nil]
      /\ UNCHANGED <<zalo, rows, pushed>>
      /\ disturbed \subseteq disturbed' /\ unmarked \subseteq unmarked'
      /\ \A e \in events : /\ e.type = "reaction" => e.m \in disturbed'
                           /\ e.type = "undo" => e.m \in unmarked'
      /\ \A h \in Handlers : handler[h] # Nil =>
            /\ handler[h].e.type = "reaction" => handler[h].e.m \in disturbed'
            /\ handler[h].e.type = "undo" => handler[h].e.m \in unmarked'
  BY Restarting DEF LogInv
<1>2. NumbersInv' /\ HeldInv'
  BY <1>1 DEF NumbersInv, HeldInv
<1>3. \A x : Shown(x)' = Shown(x) /\ (Marked(x)' <=> Marked(x))
  BY <1>1, LogRowsStay, ShownHolds
<1>4. LevelInv'
  <2> SUFFICES ASSUME NEW m \in Messages \ disturbed', NEW p \in People
               PROVE  Level(m, p)' /\ FirstCome(m, p)'
    BY DEF LevelInv
  <2>1. Level(m, p)
    BY <1>1 DEF LogInv, LevelInv
  <2>2. Waiting(m, p) = {} /\ \A h \in Handlers : ~ Writing(h, m, p)
    BY <1>1 DEF Waiting, Writing
  <2>3. Waiting(m, p)' = {} /\ \A h \in Handlers : ~ Writing(h, m, p)'
    BY <1>1 DEF Waiting, Writing
  <2>4. About(m, p) = {} /\ About(m, p)' = {}
    BY <2>2, <2>3 DEF About
  <2>5. Level(m, p)'
    BY <1>1, <1>3, <2>1, <2>4 DEF Level
  <2> QED
    BY <2>3, <2>5 DEF FirstCome
<1>5. ToldInv'
  <2> SUFFICES ASSUME NEW m \in Messages \ disturbed'
               PROVE  (pushed[m] \in {Nil, Shown(m)})'
    BY DEF ToldInv
  <2>1. pushed[m] \in {Nil, Shown(m)} \/ \E h \in Handlers : Pushing(h, m)
    BY <1>1 DEF LogInv, ToldInv
  <2>2. ASSUME NEW h \in Handlers, Pushing(h, m) PROVE FALSE
    <3>1. handler[h] # Nil /\ rows[handler[h].row].m = m /\ handler[h].e.type = "reaction"
      BY <2>2, HandlerFields DEF LogInv, Pushing
    <3>2. handler[h].e.m = m
      BY <1>1, <3>1 DEF LogInv, HeldInv
    <3> QED
      BY <1>1, <3>1, <3>2
  <2> QED
    BY <1>1, <1>3, <2>1, <2>2
<1>6. RecallInv'
  <2>1. \A m \in Messages \ unmarked' : zalo[m].recalled => Marked(m)
    BY <1>1 DEF LogInv, RecallInv, Recall
  <2>2. \A m : \A h \in Handlers : ~ Recall(h, m)'
    BY <1>1 DEF Recall
  <2> QED
    BY <1>1, <1>3, <2>1, <2>2 DEF LogInv, RecallInv
<1> QED
  BY <1>2, <1>4, <1>5, <1>6 DEF LogInv

LEMMA LogInit == MessageLogInit /\ agenda \in Agendas => LogInv
<1> SUFFICES ASSUME MessageLogInit, agenda \in Agendas PROVE LogInv
  OBVIOUS
<1>1. LogTypesInv
  BY LogTypesInit
<1>2. /\ events = {} /\ rows = <<>> /\ handler = [h \in Handlers |-> Nil]
      /\ pushed = [m \in Messages |-> Nil]
      /\ zalo = [m \in Messages |-> [by |-> {}, recalled |-> FALSE]]
  BY DEF MessageLogInit
<1>3. \A m : Rows(m) = {}
  BY <1>2 DEF Rows, RowIds
<1>4. \A m : Shown(m) = {} /\ ~ Marked(m)
  BY <1>3 DEF Shown, Marked
<1>5. \A m : \A p : Waiting(m, p) = {} /\ \A h \in Handlers : ~ Writing(h, m, p)
  BY <1>2 DEF Waiting, Writing
<1>6. LevelInv
  <2>1. \A m : \A p : About(m, p) = {}
    BY <1>5 DEF About
  <2> QED
    BY <1>2, <1>4, <1>5, <2>1 DEF LevelInv, Level, FirstCome
<1>7. NumbersInv /\ HeldInv /\ ToldInv
  BY <1>2 DEF NumbersInv, HeldInv, ToldInv
<1>8. RecallInv
  BY <1>2, <1>4 DEF RecallInv, Recall
<1> QED
  BY <1>1, <1>6, <1>7, <1>8 DEF LogInv

LEMMA LogStep ==
    ASSUME LogInv, [MessageLogNext \/ MessageLogRestart]_logVars
    PROVE  LogInv'
<1>0. LogTypesInv /\ LogTypesInv'
  BY LogTypesStep DEF LogInv
<1>1. CASE UNCHANGED logVars
  BY <1>0, <1>1, LogRowsStay, StillAgree DEF logVars, zaloVars, listenerVars
<1>2. CASE MessageLogRestart
  BY <1>0, <1>2, RestartAgrees
<1>3. CASE MessageLogNext
  <2>1. CASE \/ Tick \/ Opens \/ ListPage \/ FetchHistory \/ EndImport
             \/ \E m \in Messages : Send(m) \/ ConsoleForwards(m)
    <3>1. UNCHANGED <<zalo, events, handler, pushed, disturbed, unmarked, rows>>
      BY <2>1 DEF Tick, Opens, ListPage, FetchHistory, EndImport, Send, ConsoleForwards,
                  zaloVars, listenerVars
    <3> QED
      BY <1>0, <3>1, LogRowsStay, StillAgree
  <2>2. ASSUME NEW m \in Messages, Store(m) \/ ImportMessage(m) PROVE LogInv'
    <3>1. UNCHANGED <<zalo, events, handler, pushed, disturbed, unmarked>>
      BY <2>2 DEF Store, ImportMessage, zaloVars, listenerVars
    <3>2. RowsHold
      BY <1>0, <2>2, StoringHolds
    <3> QED
      BY <1>0, <3>1, <3>2, StillAgree
  <2>3. ASSUME NEW m \in Messages, ConsoleReacts(m) \/ \E p \in People : PeerReacts(p, m)
        PROVE  LogInv'
    <3>1. PICK p \in People, x \in Known : Reacts(p, x)
      BY <1>0, <2>3, ReactionSteps
    <3>2. UNCHANGED <<rows, handler, pushed, disturbed, unmarked>>
      BY <1>0, <2>3, ReactionSteps DEF listenerVars
    <3>3. x \in Messages
      BY DEF Known
    <3>4. PICK e \in Reactions :
              /\ e.m = x /\ e.by = p /\ e.n = serial + 1 /\ (e.on <=> p \notin zalo[x].by)
              /\ events' = events \cup {e} /\ serial' = serial + 1
              /\ zalo' = [zalo EXCEPT ![x].by = IF p \in @ THEN @ \ {p} ELSE @ \cup {p}]
      BY <1>0, <3>1, <3>3, Reacting
    <3> QED
      BY <1>0, <3>2, <3>4, ReactionAgrees
  <2>4. ASSUME NEW m \in Messages, ConsoleRecalls(m) \/ PeerRecalls(m) PROVE LogInv'
    <3>1. /\ Recalls(m) /\ m \in Known
          /\ UNCHANGED <<rows, handler, pushed, disturbed, unmarked>>
      BY <1>0, <2>4, RecallSteps DEF listenerVars
    <3>2. PICK e \in Undos :
              /\ e.m = m /\ e.n = serial + 1 /\ e.type = "undo"
              /\ events' = events \cup {e} /\ serial' = serial + 1
              /\ zalo' = [zalo EXCEPT ![m].recalled = TRUE]
      BY <1>0, <3>1, Recalling
    <3> QED
      BY <1>0, <3>1, <3>2, RecallAgrees
  <2>5. ASSUME NEW h \in Handlers,
               WriteReaction(h) \/ PushReaction(h) \/ WriteRecall(h)
        PROVE  LogInv'
    BY <1>0, <2>5, WrittenAgrees, PushedAgrees, RecalledAgrees
  <2>6. ASSUME NEW h \in Handlers, HandlerThrows(h) PROVE LogInv'
    <3>1. /\ handler[h] # Nil /\ handler[h].step = "write"
          /\ disturbed' = disturbed \cup Missed("reaction", {handler[h].e})
          /\ unmarked' = unmarked \cup Missed("undo", {handler[h].e})
          /\ handler' = [handler EXCEPT ![h] = Nil]
          /\ UNCHANGED <<zalo, rows, pushed, events>>
      BY <2>6 DEF HandlerThrows, zaloVars
    <3>2. /\ handler[h].e.type = "reaction" => handler[h].e.m \in disturbed'
          /\ handler[h].e.type = "undo" => handler[h].e.m \in unmarked'
      BY <3>1, MissedEvents
    <3>3. disturbed \subseteq disturbed' /\ unmarked \subseteq unmarked'
      BY <3>1
    <3> QED
      BY <1>0, <3>1, <3>2, <3>3, StoppedAgrees
  <2>7. ASSUME NEW h \in Handlers, NEW e \in events, FindMessage(h, e) PROVE LogInv'
    <3>1. /\ handler[h] = Nil /\ events' = events \ {e}
          /\ UNCHANGED <<zalo, rows, pushed>>
          /\ disturbed \subseteq disturbed' /\ unmarked \subseteq unmarked'
          /\ \/ /\ UNCHANGED handler
                /\ e.type = "reaction" => e.m \in disturbed'
                /\ e.type = "undo" => e.m \in unmarked'
             \/ \E i \in RowIds, H \in Handlings :
                   /\ H = [e |-> e, row |-> i, by |-> rows[i].by, step |-> "write"]
                   /\ handler' = [handler EXCEPT ![h] = H]
                   /\ e.type = "undo" => rows[i].m = e.m
                   /\ rows[i].m # e.m => {rows[i].m, e.m} \subseteq disturbed'
                   /\ Overtakes(e) => e.m \in disturbed'
      BY <1>0, <2>7, Finding
    <3>2. CASE /\ UNCHANGED handler
               /\ e.type = "reaction" => e.m \in disturbed'
               /\ e.type = "undo" => e.m \in unmarked'
      BY <1>0, <3>1, <3>2, DroppedAgrees
    <3>3. ASSUME NEW i \in RowIds, NEW H \in Handlings,
                 H = [e |-> e, row |-> i, by |-> rows[i].by, step |-> "write"],
                 handler' = [handler EXCEPT ![h] = H],
                 e.type = "undo" => rows[i].m = e.m,
                 rows[i].m # e.m => {rows[i].m, e.m} \subseteq disturbed',
                 Overtakes(e) => e.m \in disturbed'
          PROVE  LogInv'
      BY <1>0, <3>1, <3>3, TakenAgrees
    <3> QED
      BY <3>1, <3>2, <3>3
  <2> QED
    BY <1>3, <2>1, <2>2, <2>3, <2>4, <2>5, <2>6, <2>7 DEF MessageLogNext
<1> QED
  BY <1>1, <1>2, <1>3

\* A row whose events are handled shows what Zalo has, and the console was told so.
LEMMA LogInvImplies == LogInv => LogAgrees
<1> SUFFICES ASSUME LogInv, NEW i \in RowIds
             PROVE  LET m == rows[i].m IN
                    /\ m \notin disturbed /\ ~ Waits(m, "reaction") =>
                          /\ rows[i].by = zalo[m].by
                          /\ pushed[m] \in {Nil, rows[i].by}
                    /\ m \notin unmarked /\ ~ Waits(m, "undo") => rows[i].recalled = zalo[m].recalled
                    /\ sent[m].content \in DOMAIN Documented => rows[i].type = Documented[sent[m].content]
  BY DEF LogAgrees
<1>1. PICK m : m = rows[i].m
  OBVIOUS
<1>2. /\ m \in Messages /\ Rows(m) = {i} /\ Shown(m) = rows[i].by
      /\ rows[i].by \subseteq People /\ rows[i].recalled \in BOOLEAN
      /\ zalo[m].by \subseteq People /\ zalo[m].recalled \in BOOLEAN
      /\ sent[m].content \in RawKinds
  <2>1. rows \in Seq(LogRows) /\ OneRowInv
    BY DEF LogInv, LogTypesInv, LogStateInv
  <2>2. m \in Messages /\ rows[i].by \subseteq People /\ rows[i].recalled \in BOOLEAN
    BY <1>1, <2>1, RowFields
  <2>3. zalo[m].by \subseteq People /\ zalo[m].recalled \in BOOLEAN
    BY <2>2 DEF LogInv, LogTypesInv, LogStateInv
  <2>4. m \in Known /\ sent[m] \in [at : Nat, content : RawKinds]
    BY <1>1, <2>1 DEF OneRowInv, Known, LogInv, LogTypesInv, LogStateInv
  <2> QED
    BY <1>1, <2>1, <2>2, <2>3, <2>4, ShownByRow
<1>3. ASSUME m \notin disturbed, ~ Waits(m, "reaction")
      PROVE  rows[i].by = zalo[m].by /\ pushed[m] \in {Nil, rows[i].by}
  <2>1. ASSUME NEW p \in People PROVE p \in zalo[m].by <=> p \in rows[i].by
    <3>1. Waiting(m, p) = {} /\ \A h \in Handlers : ~ Writing(h, m, p)
      BY <1>3 DEF Waits, Waiting, Writing
    <3>2. About(m, p) = {}
      BY <3>1 DEF About
    <3> QED
      BY <1>2, <1>3, <3>2 DEF LogInv, LevelInv, Level
  <2>2. rows[i].by = zalo[m].by
    BY <1>2, <2>1
  <2>3. \A h \in Handlers : ~ Pushing(h, m)
    <3> SUFFICES ASSUME NEW h \in Handlers, Pushing(h, m) PROVE FALSE
      OBVIOUS
    <3>1. handler[h] # Nil /\ handler[h].e.type = "reaction" /\ rows[handler[h].row].m = m
      BY HandlerFields DEF LogInv, Pushing
    <3> QED
      BY <1>3, <3>1 DEF Waits
  <2> QED
    BY <1>2, <1>3, <2>2, <2>3 DEF LogInv, ToldInv
<1>4. ASSUME m \notin unmarked, ~ Waits(m, "undo")
      PROVE  rows[i].recalled = zalo[m].recalled
  <2>1. Marked(m) <=> rows[i].recalled
    BY <1>2 DEF Marked
  <2>2. \A h \in Handlers : ~ Recall(h, m)
    BY <1>4 DEF Waits, Recall
  <2>3. ~ \E e \in events : e.type = "undo" /\ e.m = m
    BY <1>4 DEF Waits
  <2>4. Marked(m) <=> zalo[m].recalled
    BY <1>2, <1>4, <2>2, <2>3 DEF LogInv, RecallInv
  <2> QED
    BY <1>2, <2>1, <2>4
<1>5. sent[m].content \in DOMAIN Documented => rows[i].type = Documented[sent[m].content]
  <2>1. rows[i].type \in {LiveType(sent[m].content), HistoryType(sent[m].content)}
    BY <1>1 DEF LogInv, LogTypesInv, KindsInv
  <2> QED
    BY <1>2, <2>1, TypesAreDocumented
<1> QED
  BY <1>1, <1>3, <1>4, <1>5

\* Of any number of messages, people and listeners, whose events overlap, come too
\* early, fail or are lost with the process: what was not disturbed by that is in the
\* row, and on the console, as it is in Zalo.
THEOREM LogDoesAgree == MessageLogSpec => []LogAgrees
<1>1. MessageLogInit /\ agenda \in Agendas => LogInv
  BY LogInit
<1>2. LogInv /\ [MessageLogNext \/ MessageLogRestart]_logVars => LogInv'
  BY LogStep
<1> QED
  BY <1>1, <1>2, LogInvImplies, PTL DEF MessageLogSpec

-----------------------------------------------------------------------------
(* What lasts                                                              *)

\* Rows stay, with their message and their time.
RowsLast ==
    \A i \in RowIds : i \in RowIds' /\ rows'[i].m = rows[i].m /\ rows'[i].at = rows[i].at

LEMMA RewrittenLast ==
    ASSUME rows \in Seq(LogRows), NEW i \in RowIds, NEW r \in LogRows,
           rows' = [rows EXCEPT ![i] = r], r.m = rows[i].m, r.at = rows[i].at
    PROVE  RowsLast
<1>1. RowIds' = RowIds /\ \A j \in RowIds : rows'[j] = IF j = i THEN r ELSE rows[j]
  BY RowReplaced
<1> QED
  BY <1>1 DEF RowsLast

LEMMA RowsDoLast ==
    ASSUME LogTypesInv, [MessageLogNext \/ MessageLogRestart]_logVars
    PROVE  RowsLast
<1>0. rows \in Seq(LogRows)
  BY DEF LogTypesInv, LogStateInv
<1>1. CASE UNCHANGED rows
  BY <1>1 DEF RowsLast, RowIds
<1>2. ASSUME NEW m \in Messages, Store(m) \/ ImportMessage(m) PROVE RowsLast
  <2>1. CASE UNCHANGED rows
    BY <1>1, <2>1
  <2>2. ASSUME NEW live \in BOOLEAN, NEW auto \in BOOLEAN, rows' = Append(rows, Row(m, live, auto))
        PROVE  RowsLast
    BY <1>0, <2>2 DEF RowsLast, RowIds
  <2>3. ASSUME NEW i \in Rows(m), NEW auto \in BOOLEAN, rows' = [rows EXCEPT ![i].auto = auto]
        PROVE  RowsLast
    <3>1. i \in RowIds /\ rows[i] \in LogRows
      BY <1>0, RowFields DEF Rows
    <3>2. PICK r : r = [rows[i] EXCEPT !.auto = auto]
      OBVIOUS
    <3>3. r \in LogRows /\ r.m = rows[i].m /\ r.at = rows[i].at
      BY <3>1, <3>2 DEF LogRows
    <3>4. rows' = [rows EXCEPT ![i] = r]
      BY <2>3, <3>2
    <3> QED
      BY <1>0, <3>1, <3>3, <3>4, RewrittenLast
  <2> QED
    BY <1>2, <2>1, <2>2, <2>3, StoresOrMarks
<1>3. ASSUME NEW h \in Handlers, WriteReaction(h) PROVE RowsLast
  <2>1. PICK i \in RowIds, r \in LogRows :
           /\ rows' = [rows EXCEPT ![i] = r] /\ r = [rows[i] EXCEPT !.by = NewList(h)]
    BY <1>3, Writings
  <2>2. rows[i] \in LogRows
    BY <1>0, RowFields
  <2>3. r.m = rows[i].m /\ r.at = rows[i].at
    BY <2>1, <2>2 DEF LogRows
  <2> QED
    BY <1>0, <2>1, <2>3, RewrittenLast
<1>4. ASSUME NEW h \in Handlers, WriteRecall(h) PROVE RowsLast
  <2>1. PICK i \in RowIds, r \in LogRows :
           /\ rows' = [rows EXCEPT ![i] = r] /\ r = [rows[i] EXCEPT !.recalled = TRUE]
    BY <1>4, RecallWritings
  <2>2. rows[i] \in LogRows
    BY <1>0, RowFields
  <2>3. r.m = rows[i].m /\ r.at = rows[i].at
    BY <2>1, <2>2 DEF LogRows
  <2> QED
    BY <1>0, <2>1, <2>3, RewrittenLast
<1>5. CASE MessageLogNext
  <2>1. CASE \/ Tick \/ Opens \/ ListPage \/ FetchHistory \/ EndImport
             \/ \E m \in Messages : \/ Send(m) \/ ConsoleForwards(m) \/ PeerRecalls(m)
                                    \/ ConsoleReacts(m) \/ ConsoleRecalls(m)
                                    \/ \E p \in People : PeerReacts(p, m)
             \/ \E h \in Handlers : \/ PushReaction(h) \/ HandlerThrows(h)
                                    \/ \E e \in events : FindMessage(h, e)
    <3>1. UNCHANGED rows
      BY <2>1 DEF Tick, Opens, ListPage, FetchHistory, EndImport, Send, ConsoleForwards,
                  PeerRecalls, ConsoleReacts, ConsoleRecalls, PeerReacts, PushReaction, HandlerThrows,
                  FindMessage, zaloVars
    <3> QED
      BY <1>1, <3>1
  <2> QED
    BY <1>2, <1>3, <1>4, <1>5, <2>1 DEF MessageLogNext
<1>6. CASE MessageLogRestart \/ UNCHANGED logVars
  <2>1. UNCHANGED rows
    BY <1>6 DEF MessageLogRestart, logVars, zaloVars
  <2> QED
    BY <1>1, <2>1
<1> QED
  BY <1>5, <1>6

-----------------------------------------------------------------------------
(* The pages of a listing                                                  *)

\* How many of S are newer than i.
Rank(S, i) == Cardinality({j \in S : j > i})

LEMMA Ranks ==
    ASSUME NEW S, IsFiniteSet(S), S \subseteq Nat
    PROVE  /\ Cardinality(S) \in Nat
           /\ \A i \in S : Rank(S, i) \in 0 .. Cardinality(S) - 1
           /\ \A i, k \in S : i < k => Rank(S, k) < Rank(S, i)
           /\ \A n \in 0 .. Cardinality(S) - 1 : \E i \in S : Rank(S, i) = n
<1>1. Cardinality(S) \in Nat
  BY FS_CardinalityType
<1>2. ASSUME NEW i \in S PROVE Rank(S, i) \in 0 .. Cardinality(S) - 1
  <2>1. PICK T : T = {j \in S : j > i}
    OBVIOUS
  <2>2. T \subseteq S \ {i}
    BY <2>1
  <2>3. IsFiniteSet(S \ {i}) /\ Cardinality(S \ {i}) = Cardinality(S) - 1
    BY FS_RemoveElement
  <2>4. Cardinality(T) <= Cardinality(S) - 1 /\ Cardinality(T) \in Nat
    <3>1. IsFiniteSet(T) /\ Cardinality(T) <= Cardinality(S \ {i})
      BY <2>2, <2>3, FS_Subset
    <3> QED
      BY <2>3, <3>1, FS_CardinalityType
  <2> QED
    BY <1>1, <2>1, <2>4 DEF Rank
<1>3. ASSUME NEW i \in S, NEW k \in S, i < k PROVE Rank(S, k) < Rank(S, i)
  <2>1. PICK T, U : T = {j \in S : j > i} /\ U = {j \in S : j > k}
    OBVIOUS
  <2>2. U \subseteq T /\ k \in T \ U /\ T \subseteq S
    <3>1. i \in Nat /\ k \in Nat /\ \A j \in S : j \in Nat
      OBVIOUS
    <3>2. \A j \in S : j > k => j > i
      BY <1>3, <3>1
    <3>3. ~ (k > k) /\ k > i
      BY <1>3, <3>1
    <3> QED
      BY <2>1, <3>2, <3>3
  <2>3. IsFiniteSet(T) /\ IsFiniteSet(U) /\ Cardinality(U) <= Cardinality(T)
        /\ Cardinality(U) # Cardinality(T)
    BY <2>2, FS_Subset
  <2>4. Cardinality(T) \in Nat /\ Cardinality(U) \in Nat
    BY <2>3, FS_CardinalityType
  <2> QED
    BY <2>1, <2>3, <2>4 DEF Rank
<1>4. ASSUME NEW n \in 0 .. Cardinality(S) - 1 PROVE \E i \in S : Rank(S, i) = n
  <2>1. PICK f, T : f = [i \in S |-> Rank(S, i)] /\ T = 0 .. Cardinality(S) - 1
    OBVIOUS
  <2>2. f \in Injection(S, T)
    <3>1. f \in [S -> T]
      BY <1>2, <2>1
    <3>2. \A i, k \in S : f[i] = f[k] => i = k
      <4> SUFFICES ASSUME NEW i \in S, NEW k \in S, f[i] = f[k], i # k PROVE FALSE
        OBVIOUS
      <4>1. i < k \/ k < i
        OBVIOUS
      <4>2. Rank(S, i) \in Nat /\ Rank(S, k) \in Nat /\ Rank(S, i) = Rank(S, k)
        BY <1>1, <1>2, <2>1
      <4> QED
        BY <1>3, <4>1, <4>2
    <3> QED
      BY <3>1, <3>2 DEF Injection, IsInjective
  <2>3. IsFiniteSet(T) /\ Cardinality(T) = Cardinality(S)
    BY <1>1, <2>1, FS_Interval
  <2>4. f \in Surjection(S, T)
    BY <2>2, <2>3, FS_Injection
  <2> QED
    BY <2>1, <2>4 DEF Surjection
<1> QED
  BY <1>1, <1>2, <1>3, <1>4

\* A set of positions, newest first.
Falling(s) == \A a, b \in DOMAIN s : a < b => s[a] > s[b]

LEMMA Descends ==
    ASSUME NEW S, IsFiniteSet(S), S \subseteq Nat
    PROVE  /\ Descending(S) \in Seq(S) /\ Len(Descending(S)) = Cardinality(S)
           /\ Falling(Descending(S)) /\ ToSet(Descending(S)) = S
<1>1. PICK D, c : D = Descending(S) /\ c = Cardinality(S) /\ c \in Nat
  BY FS_CardinalityType
<1>2. /\ \A i \in S : Rank(S, i) \in 0 .. c - 1
      /\ \A i, k \in S : i < k => Rank(S, k) < Rank(S, i)
      /\ \A n \in 0 .. c - 1 : \E i \in S : Rank(S, i) = n
  BY <1>1, Ranks
<1>3. DOMAIN D = 1 .. c /\ \A n \in 1 .. c : D[n] = CHOOSE i \in S : Rank(S, i) = n - 1
  BY <1>1 DEF Descending, Rank
<1>4. ASSUME NEW n \in 1 .. c PROVE D[n] \in S /\ Rank(S, D[n]) = n - 1
  <2>1. n - 1 \in 0 .. c - 1
    BY <1>1
  <2>2. \E i \in S : Rank(S, i) = n - 1
    BY <1>2, <2>1
  <2> QED
    BY <1>3, <2>2
<1>5. D = [n \in 1 .. c |-> D[n]]
  BY <1>1, <1>3 DEF Descending
<1>6. D \in Seq(S) /\ Len(D) = c
  BY <1>1, <1>3, <1>4, <1>5
<1>7. Falling(D)
  <2> SUFFICES ASSUME NEW a \in 1 .. c, NEW b \in 1 .. c, a < b PROVE D[a] > D[b]
    BY <1>3 DEF Falling
  <2>1. D[a] \in S /\ Rank(S, D[a]) = a - 1 /\ D[b] \in S /\ Rank(S, D[b]) = b - 1
    BY <1>4
  <2>2. ~ (D[a] < D[b]) /\ D[a] # D[b]
    <3>1. PICK x \in S, y \in S : x = D[a] /\ y = D[b]
      BY <2>1
    <3>2. Rank(S, x) = a - 1 /\ Rank(S, y) = b - 1
      BY <2>1, <3>1
    <3>3. x < y => Rank(S, y) < Rank(S, x)
      BY <1>2
    <3> QED
      BY <3>1, <3>2, <3>3
  <2>3. D[a] \in Nat /\ D[b] \in Nat
    BY <2>1
  <2>4. PICK x \in Nat, y \in Nat : x = D[a] /\ y = D[b]
    BY <2>3
  <2> QED
    BY <2>2, <2>4
<1>8. ToSet(D) = S
  <2>1. \A i \in S : \E n \in 1 .. c : D[n] = i
    <3> TAKE i \in S
    <3>1. PICK n : n = Rank(S, i) + 1
      OBVIOUS
    <3>2. n \in 1 .. c /\ Rank(S, i) = n - 1
      BY <1>1, <1>2, <3>1
    <3>3. D[n] \in S /\ Rank(S, D[n]) = n - 1
      BY <1>4, <3>2
    <3>4. ~ (D[n] < i) /\ ~ (i < D[n])
      <4>1. PICK x \in S : x = D[n] /\ Rank(S, x) = Rank(S, i)
        BY <3>2, <3>3
      <4>2. (x < i => Rank(S, i) < Rank(S, x)) /\ (i < x => Rank(S, x) < Rank(S, i))
        BY <1>2
      <4>3. Rank(S, i) \in Nat
        BY <1>2
      <4> QED
        BY <4>1, <4>2, <4>3
    <3>5. D[n] = i
      <4>1. PICK x \in Nat : x = D[n] /\ i \in Nat
        BY <3>3
      <4> QED
        BY <3>4, <4>1
    <3> QED
      BY <3>2, <3>5
  <2> QED
    BY <1>3, <1>4, <2>1 DEF ToSet
<1> QED
  BY <1>1, <1>6, <1>7, <1>8

\* The newest n of a set: with one, all that are newer; all of it, if they are fewer.
LEMMA NewestAre ==
    ASSUME NEW S, IsFiniteSet(S), S \subseteq Nat, NEW n \in Nat
    PROVE  /\ Newest(S, n) \subseteq S /\ IsFiniteSet(Newest(S, n))
           /\ \A i \in Newest(S, n) : \A j \in S : j > i => j \in Newest(S, n)
           /\ Cardinality(Newest(S, n)) < n => Newest(S, n) = S
           /\ Cardinality(S) <= n => Newest(S, n) = S
           /\ S # {} /\ n > 0 => Newest(S, n) # {}
<1>1. PICK N : N = Newest(S, n)
  OBVIOUS
<1>2. N = {i \in S : Rank(S, i) < n} /\ N \subseteq S /\ IsFiniteSet(N) /\ Cardinality(N) \in Nat
  <2>1. N = {i \in S : Rank(S, i) < n}
    BY <1>1 DEF Newest, Rank
  <2> QED
    BY <2>1, FS_Subset, FS_CardinalityType
<1>3. /\ Cardinality(S) \in Nat
      /\ \A i \in S : Rank(S, i) \in 0 .. Cardinality(S) - 1
      /\ \A i, k \in S : i < k => Rank(S, k) < Rank(S, i)
      /\ \A r \in 0 .. Cardinality(S) - 1 : \E i \in S : Rank(S, i) = r
  BY Ranks
<1>4. ASSUME NEW i \in N, NEW j \in S, j > i PROVE j \in N
  BY <1>2, <1>3, <1>4
<1>5. ASSUME Cardinality(N) < n, NEW x \in S \ N PROVE FALSE
  <2>1. PICK M : M = S \ N
    OBVIOUS
  <2>2. IsFiniteSet(M) /\ M \subseteq Nat /\ x \in M
    BY <1>5, <2>1, FS_Subset
  <2>3. Cardinality(M) \in Nat /\ 0 \in 0 .. Cardinality(M) - 1
    <3>1. Cardinality(M) \in Nat /\ Cardinality(M) # 0
      BY <2>2, FS_EmptySet, FS_CardinalityType
    <3> QED
      BY <3>1
  <2>4. PICK i \in M : Rank(M, i) = 0
    BY <2>2, <2>3, Ranks
  <2>5. PICK T, U : T = {j \in M : j > i} /\ U = {j \in S : j > i}
    OBVIOUS
  <2>6. T = {}
    <3>1. IsFiniteSet(T) /\ Cardinality(T) = 0
      BY <2>2, <2>4, <2>5, FS_Subset DEF Rank
    <3> QED
      BY <3>1, FS_EmptySet
  <2>7. U \subseteq N
    BY <2>1, <2>5, <2>6
  <2>8. Cardinality(U) <= Cardinality(N) /\ Cardinality(U) \in Nat
    BY <1>2, <2>7, FS_Subset, FS_CardinalityType
  <2>9. Rank(S, i) < n
    BY <1>2, <1>5, <2>5, <2>8 DEF Rank
  <2> QED
    BY <1>2, <2>1, <2>4, <2>9
<1>6. Cardinality(S) <= n => N = S
  <2>1. PICK c \in Nat : c = Cardinality(S)
    BY <1>3
  <2>2. \A i \in S : Rank(S, i) \in 0 .. c - 1
    BY <1>3, <2>1
  <2>3. c <= n => \A i \in S : Rank(S, i) < n
    BY <2>2
  <2> QED
    BY <1>2, <2>1, <2>3
<1>7. S # {} /\ n > 0 => N # {}
  <2> SUFFICES ASSUME S # {}, n > 0 PROVE N # {}
    OBVIOUS
  <2>1. 0 \in 0 .. Cardinality(S) - 1
    <3>1. Cardinality(S) \in Nat /\ Cardinality(S) # 0
      BY <1>3, FS_EmptySet
    <3> QED
      BY <3>1
  <2>2. PICK i \in S : Rank(S, i) = 0
    BY <1>3, <2>1
  <2> QED
    BY <1>2, <2>2
<1> QED
  BY <1>1, <1>2, <1>4, <1>5, <1>6, <1>7

\* How far a listing got: it has all rows of before that are not older than its cursor.
Reaches(cursor, got, before) ==
    IF cursor = Nil THEN got = <<>> /\ before = {}
    ELSE /\ cursor \in Nat /\ \A x \in ToSet(got) : x >= cursor
         /\ \A i \in before : i >= cursor => i \in ToSet(got)

PagesInv ==
    reader # Nil =>
        /\ reader.step \in {"page", "history", "import", "done"}
        /\ reader.got \in Seq(Nat) /\ Falling(reader.got) /\ reader.before \subseteq RowIds
        /\ reader.step = "page" => Reaches(reader.cursor, reader.got, reader.before)
        /\ reader.step \in {"history", "import"} => Reaches(Nil, reader.got, reader.before)
        /\ reader.step = "done" => reader.before \subseteq ToSet(reader.got)

\* A page after the earlier ones.
LEMMA PagesJoin ==
    ASSUME NEW s \in Seq(Nat), NEW t \in Seq(Nat), Falling(s), Falling(t),
           \A x \in ToSet(s), y \in ToSet(t) : x > y
    PROVE  /\ s \o t \in Seq(Nat) /\ Falling(s \o t) /\ ToSet(s \o t) = ToSet(s) \cup ToSet(t)
<1>1. PICK u, m, n : u = s \o t /\ m = Len(s) /\ n = Len(t)
  OBVIOUS
<1>2. /\ m \in Nat /\ n \in Nat /\ u \in Seq(Nat) /\ Len(u) = m + n
      /\ DOMAIN s = 1 .. m /\ DOMAIN t = 1 .. n /\ DOMAIN u = 1 .. m + n
      /\ \A i \in 1 .. m : u[i] = s[i]
      /\ \A i \in m + 1 .. m + n : u[i] = t[i - m] /\ i - m \in 1 .. n
  BY <1>1
<1>3. Falling(u)
  <2> SUFFICES ASSUME NEW a \in 1 .. m + n, NEW b \in 1 .. m + n, a < b PROVE u[a] > u[b]
    BY <1>2 DEF Falling
  <2>1. CASE a \in 1 .. m /\ b \in 1 .. m
    BY <1>2, <2>1 DEF Falling
  <2>2. CASE a \in m + 1 .. m + n /\ b \in m + 1 .. m + n
    <3>1. PICK c, d : c = a - m /\ d = b - m
      OBVIOUS
    <3>2. c \in 1 .. n /\ d \in 1 .. n /\ c < d /\ u[a] = t[c] /\ u[b] = t[d]
      BY <1>2, <2>2, <3>1
    <3> QED
      BY <1>2, <3>2 DEF Falling
  <2>3. CASE a \in 1 .. m /\ b \in m + 1 .. m + n
    <3>1. u[a] \in ToSet(s) /\ u[b] \in ToSet(t)
      BY <1>2, <2>3 DEF ToSet
    <3> QED
      BY <3>1
  <2> QED
    BY <1>2, <2>1, <2>2, <2>3
<1>4. ToSet(u) = ToSet(s) \cup ToSet(t)
  <2>1. ASSUME NEW x \in ToSet(u) PROVE x \in ToSet(s) \cup ToSet(t)
    <3>1. PICK a \in 1 .. m + n : x = u[a]
      BY <1>2 DEF ToSet
    <3>2. a \in 1 .. m \/ a \in m + 1 .. m + n
      BY <1>2
    <3> QED
      BY <1>2, <3>1, <3>2 DEF ToSet
  <2>2. ASSUME NEW x \in ToSet(s) PROVE x \in ToSet(u)
    <3>1. PICK a \in 1 .. m : x = s[a]
      BY <1>2 DEF ToSet
    <3>2. a \in 1 .. m + n /\ u[a] = x
      BY <1>2, <3>1
    <3> QED
      BY <1>2, <3>2 DEF ToSet
  <2>3. ASSUME NEW x \in ToSet(t) PROVE x \in ToSet(u)
    <3>1. PICK a \in 1 .. n : x = t[a]
      BY <1>2 DEF ToSet
    <3>2. PICK b : b = a + m
      OBVIOUS
    <3>3. b \in m + 1 .. m + n /\ b \in 1 .. m + n /\ b - m = a
      BY <1>2, <3>2
    <3>4. u[b] = x
      BY <1>2, <3>1, <3>3
    <3> QED
      BY <1>2, <3>3, <3>4 DEF ToSet
  <2> QED
    BY <2>1, <2>2, <2>3
<1> QED
  BY <1>1, <1>2, <1>3, <1>4

\* The next page has the newest of the older rows, and all of them if it is the last.
LEMMA PageIsNext ==
    ASSUME LogTypesInv, PagesInv, reader # Nil, NEW cursor, ReadsPage(cursor),
           Reaches(cursor, reader.got, reader.before), UNCHANGED rows
    PROVE  PagesInv'
<1>1. rows \in Seq(LogRows) /\ ReaderInv
  BY DEF LogTypesInv, LogStateInv
<1>2. PICK got, before : got = reader.got /\ before = reader.before
  OBVIOUS
<1>3. got \in Seq(Nat) /\ Falling(got) /\ before \subseteq RowIds /\ Reaches(cursor, got, before)
  BY <1>2 DEF PagesInv
<1>4. PICK O, F, P : O = Older(cursor) /\ F = Newest(O, Take + 1) /\ P = Newest(F, Take)
  OBVIOUS
<1>5. RowIds \subseteq Nat /\ IsFiniteSet(RowIds) /\ Take \in Nat /\ Take > 0
  <2>1. RowIds = 1 .. Len(rows) /\ Len(rows) \in Nat
    BY <1>1 DEF RowIds
  <2> QED
    BY <2>1, FS_Interval, MessageLogAssumption
<1>6. O \subseteq RowIds /\ O \subseteq Nat /\ IsFiniteSet(O)
  <2>1. O \subseteq RowIds
    BY <1>4 DEF Older
  <2> QED
    BY <1>5, <2>1, FS_Subset
<1>7. /\ F \subseteq O /\ IsFiniteSet(F)
      /\ \A i \in F : \A j \in O : j > i => j \in F
      /\ Cardinality(F) < Take + 1 => F = O
      /\ O # {} => F # {}
  BY <1>4, <1>5, <1>6, NewestAre
<1>8. /\ P \subseteq F /\ IsFiniteSet(P)
      /\ \A i \in P : \A j \in F : j > i => j \in P
      /\ Cardinality(F) <= Take => P = F
      /\ F # {} => P # {}
  BY <1>4, <1>5, <1>6, <1>7, NewestAre
<1>9. PICK D : D = Descending(P)
  OBVIOUS
<1>10. /\ P \subseteq Nat /\ D \in Seq(Nat) /\ Falling(D) /\ ToSet(D) = P
       /\ Len(D) = Cardinality(P)
  <2>1. P \subseteq Nat
    BY <1>6, <1>7, <1>8
  <2>2. D \in Seq(P) /\ Falling(D) /\ ToSet(D) = P /\ Len(D) = Cardinality(P)
    BY <1>8, <1>9, <2>1, Descends
  <2>3. D \in Seq(Nat)
    <3>1. \A i \in 1 .. Len(D) : D[i] \in Nat
      <4>1. \A i \in 1 .. Len(D) : D[i] \in P
        BY <2>2
      <4> QED
        BY <2>1, <4>1
    <3>2. D = [i \in 1 .. Len(D) |-> D[i]] /\ Len(D) \in Nat
      BY <2>2
    <3> QED
      BY <3>1, <3>2
  <2> QED
    BY <2>1, <2>2, <2>3
<1>11. PICK new : new = got \o D
  OBVIOUS
<1>12. new \in Seq(Nat) /\ Falling(new) /\ ToSet(new) = ToSet(got) \cup P
  <2>1. \A x \in ToSet(got), y \in ToSet(D) : x > y
    <3>1. CASE cursor = Nil
      BY <1>3, <3>1 DEF Reaches, ToSet
    <3>2. CASE cursor # Nil
      <4>1. cursor \in Nat /\ \A x \in ToSet(got) : x >= cursor
        BY <1>3, <3>2 DEF Reaches
      <4>2. ToSet(got) \subseteq Nat
        BY <1>3 DEF ToSet
      <4>3. \A y \in P : y < cursor /\ y \in Nat
        BY <1>4, <1>5, <1>7, <1>8, <3>2 DEF Older
      <4>4. ASSUME NEW x \in ToSet(got), NEW y \in P PROVE x > y
        <5>1. x \in Nat /\ y \in Nat /\ cursor \in Nat /\ x >= cursor /\ y < cursor
          BY <4>1, <4>2, <4>3
        <5> QED
          BY <5>1
      <4> QED
        BY <1>10, <4>4
    <3> QED
      BY <3>1, <3>2
  <2> QED
    BY <1>3, <1>10, <1>11, <2>1, PagesJoin
<1>13. PICK start : start = IF cursor = Nil THEN RowIds ELSE before
  OBVIOUS
<1>14. start \subseteq RowIds /\ \A i \in start : i \in ToSet(got) \/ i \in O
  <2>1. CASE cursor = Nil
    BY <1>4, <1>13, <2>1 DEF Older
  <2>2. CASE cursor # Nil
    <3>1. cursor \in Nat /\ \A i \in before : i >= cursor => i \in ToSet(got)
      BY <1>3, <2>2 DEF Reaches
    <3>2. \A i \in before : i \in Nat /\ (i >= cursor \/ i < cursor)
      BY <1>3, <1>5, <3>1
    <3> QED
      BY <1>3, <1>4, <1>13, <2>2, <3>1, <3>2 DEF Older
  <2> QED
    BY <2>1, <2>2
<1>15. PICK more : more = (Cardinality(F) > Take)
  OBVIOUS
<1>16. PICK d : d = [reader EXCEPT
                       !.got = @ \o D,
                       !.before = IF cursor = Nil THEN RowIds ELSE @,
                       !.cursor = IF more THEN Last(D) ELSE Nil,
                       !.step = IF more THEN "page" ELSE "done"]
  OBVIOUS
<1>17. reader' = d
  BY <1>4, <1>9, <1>15, <1>16 DEF ReadsPage
<1>18. /\ d.got = new /\ d.before = start
       /\ d.cursor = IF more THEN Last(D) ELSE Nil
       /\ d.step = IF more THEN "page" ELSE "done"
  BY <1>1, <1>2, <1>11, <1>13, <1>16 DEF ReaderInv
<1>19. CASE ~more
  <2>1. P = O
    <3>1. Cardinality(F) \in Nat
      BY <1>7, FS_CardinalityType
    <3>2. Cardinality(F) < Take + 1 /\ Cardinality(F) <= Take
      <4>1. ~ (Cardinality(F) > Take)
        BY <1>15, <1>19
      <4>2. PICK c \in Nat : c = Cardinality(F)
        BY <3>1
      <4> QED
        BY <1>5, <4>1, <4>2
    <3> QED
      BY <1>7, <1>8, <3>2
  <2>2. start \subseteq ToSet(new)
    BY <1>12, <1>14, <2>1
  <2>3. RowIds' = RowIds
    BY DEF RowIds
  <2> QED
    BY <1>12, <1>14, <1>17, <1>18, <1>19, <2>2, <2>3 DEF PagesInv
<1>20. CASE more
  <2>1. P # {}
    <3>1. F # {}
      <4>1. Cardinality(F) > Take
        BY <1>15, <1>20
      <4>2. Cardinality({}) = 0
        BY FS_EmptySet
      <4> QED
        BY <1>5, <4>1, <4>2
    <3> QED
      BY <1>8, <3>1
  <2>2. PICK n \in Nat : n = Len(D) /\ n > 0
    <3>1. Cardinality(P) \in Nat /\ Cardinality(P) # 0
      BY <1>8, <2>1, FS_CardinalityType, FS_EmptySet
    <3> QED
      BY <1>10, <3>1
  <2>3. PICK last : last = D[n]
    OBVIOUS
  <2>4. Last(D) = last
    BY <2>2, <2>3 DEF Last
  <2>5. DOMAIN D = 1 .. n /\ last \in P /\ last \in Nat
    BY <1>10, <2>2, <2>3 DEF ToSet
  <2>6. ASSUME NEW x \in P PROVE x >= last
    <3>1. PICK a \in 1 .. n : x = D[a]
      BY <1>10, <2>5 DEF ToSet
    <3>2. CASE a = n
      BY <2>3, <2>5, <3>1, <3>2
    <3>3. CASE a # n
      <4>1. a < n /\ n \in 1 .. n
        BY <2>2, <3>3
      <4>2. D[a] > D[n]
        BY <1>10, <2>5, <4>1 DEF Falling
      <4>3. x \in Nat
        BY <1>10
      <4> QED
        BY <2>3, <2>5, <3>1, <4>2, <4>3
    <3> QED
      BY <3>2, <3>3
  <2>7. last # Nil
    BY <2>5, MessageLogAssumption
  <2>8. \A x \in ToSet(new) : x >= last
    <3>1. CASE cursor = Nil
      BY <1>3, <1>12, <2>6, <3>1 DEF Reaches, ToSet
    <3>2. CASE cursor # Nil
      <4>1. cursor \in Nat /\ \A x \in ToSet(got) : x >= cursor
        BY <1>3, <3>2 DEF Reaches
      <4>2. last < cursor
        BY <1>4, <1>7, <1>8, <2>5, <3>2 DEF Older
      <4>3. ToSet(got) \subseteq Nat
        BY <1>3 DEF ToSet
      <4>4. \A x \in ToSet(got) : x >= last
        BY <2>5, <4>1, <4>2, <4>3
      <4> QED
        BY <1>12, <2>6, <4>4
    <3> QED
      BY <3>1, <3>2
  <2>9. \A i \in start : i >= last => i \in ToSet(new)
    <3> SUFFICES ASSUME NEW i \in start, i >= last PROVE i \in ToSet(new)
      OBVIOUS
    <3>1. CASE i \in ToSet(got)
      BY <1>12, <3>1
    <3>2. CASE i \in O
      <4>1. i \in P
        <5>1. CASE i = last
          BY <2>5, <5>1
        <5>2. CASE i # last
          <6>1. i > last
            BY <1>6, <2>5, <3>2, <5>2
          <6> QED
            BY <1>7, <1>8, <2>5, <3>2, <6>1
        <5> QED
          BY <5>1, <5>2
      <4> QED
        BY <1>12, <4>1
    <3> QED
      BY <1>14, <3>1, <3>2
  <2>10. Reaches(d.cursor, d.got, d.before)
    BY <1>18, <1>20, <2>4, <2>5, <2>7, <2>8, <2>9 DEF Reaches
  <2>11. RowIds' = RowIds
    BY DEF RowIds
  <2>12. d.step = "page" /\ d.got = new /\ d.before = start
    BY <1>18, <1>20
  <2> QED
    BY <1>12, <1>14, <1>17, <2>10, <2>11, <2>12 DEF PagesInv, Reaches
<1> QED
  BY <1>19, <1>20

LEMMA PagesStep ==
    ASSUME LogTypesInv, PagesInv, [MessageLogNext \/ MessageLogRestart]_logVars
    PROVE  PagesInv'
<1>0. RowIds \subseteq RowIds' /\ ReaderInv
  BY RowsDoLast DEF RowsLast, LogTypesInv
<1>1. CASE UNCHANGED reader
  BY <1>0, <1>1 DEF PagesInv, Reaches
<1>2. CASE Opens
  <2>1. PICK d : d = [step |-> "page", cursor |-> Nil, got |-> <<>>, before |-> {}, todo |-> {},
                      listed |-> {}]
    OBVIOUS
  <2>2. reader' = d
    BY <1>2, <2>1 DEF Opens
  <2>3. d.step = "page" /\ d.cursor = Nil /\ d.got = <<>> /\ d.before = {}
    BY <2>1
  <2> QED
    BY <2>2, <2>3 DEF PagesInv, Reaches, Falling
<1>3. CASE ListPage
  <2>1. reader # Nil /\ reader.step = "page" /\ UNCHANGED rows
    BY <1>3 DEF ListPage
  <2>2. Reaches(reader.cursor, reader.got, reader.before)
    BY <2>1 DEF PagesInv
  <2>3. CASE ReadsPage(reader.cursor)
    <3>1. PICK c : c = reader.cursor
      OBVIOUS
    <3> QED
      BY <2>1, <2>2, <2>3, <3>1, PageIsNext
  <2>4. CASE reader.cursor = Nil /\ reader' = [reader EXCEPT !.step = "history"]
    <3>1. PICK d : d = [reader EXCEPT !.step = "history"]
      OBVIOUS
    <3>2. d.step = "history" /\ d.got = reader.got /\ d.before = reader.before
      BY <1>0, <2>1, <3>1 DEF ReaderInv
    <3>3. RowIds' = RowIds
      BY <2>1 DEF RowIds
    <3>4. reader' = d
      BY <2>4, <3>1
    <3> QED
      BY <2>1, <2>2, <2>4, <3>2, <3>3, <3>4 DEF PagesInv, Reaches
  <2> QED
    BY <1>3, <2>3, <2>4 DEF ListPage
<1>4. ASSUME NEW step, step \in {"import", "done"}, NEW todo, NEW listed, reader # Nil,
             reader.step \in {"history", "import"},
             reader' = [reader EXCEPT !.step = step, !.todo = todo, !.listed = listed]
      PROVE  PagesInv'
  <2>1. PICK d : d = [reader EXCEPT !.step = step, !.todo = todo, !.listed = listed]
    OBVIOUS
  <2>2. d.step = step /\ d.got = reader.got /\ d.before = reader.before
    BY <1>0, <1>4, <2>1 DEF ReaderInv
  <2>3. reader' = d
    BY <1>4, <2>1
  <2>4. /\ reader.got \in Seq(Nat) /\ Falling(reader.got)
        /\ reader.got = <<>> /\ reader.before = {}
    BY <1>4 DEF PagesInv, Reaches
  <2> QED
    BY <1>4, <2>2, <2>3, <2>4 DEF PagesInv, Reaches
<1>5. CASE FetchHistory
  <2>1. reader # Nil /\ reader.step = "history"
    BY <1>5 DEF FetchHistory
  <2>2. CASE reader' = [reader EXCEPT !.step = "done"]
    <3>1. PICK todo, listed : todo = reader.todo /\ listed = reader.listed
      OBVIOUS
    <3>2. reader' = [reader EXCEPT !.step = "done", !.todo = todo, !.listed = listed]
      BY <1>0, <2>1, <2>2, <3>1 DEF ReaderInv
    <3> QED
      BY <1>4, <2>1, <3>2
  <2>3. ASSUME NEW some, reader' = [reader EXCEPT !.step = "import", !.todo = some, !.listed = some]
        PROVE  PagesInv'
    BY <1>4, <2>1, <2>3
  <2> QED
    BY <1>5, <2>2, <2>3 DEF FetchHistory
<1>6. ASSUME NEW m \in Messages, ImportMessage(m) PROVE PagesInv'
  <2>1. reader # Nil /\ reader.step = "import"
    BY <1>6 DEF ImportMessage
  <2>2. PICK rest, listed : rest = reader.todo \ {m} /\ listed = reader.listed
    OBVIOUS
  <2>3. reader' = [reader EXCEPT !.step = "import", !.todo = rest, !.listed = listed]
    BY <1>0, <1>6, <2>1, <2>2 DEF ImportMessage, ReaderInv
  <2> QED
    BY <1>4, <2>1, <2>3
<1>7. CASE EndImport
  <2>1. reader # Nil /\ reader.step = "import" /\ UNCHANGED rows
    BY <1>7 DEF EndImport
  <2>2. CASE ReadsPage(Nil)
    <3>1. Reaches(Nil, reader.got, reader.before)
      BY <2>1 DEF PagesInv
    <3> QED
      BY <2>1, <2>2, <3>1, PageIsNext
  <2>3. CASE reader' = [reader EXCEPT !.step = "done", !.listed = {}]
    <3>1. PICK todo : todo = reader.todo
      OBVIOUS
    <3>2. reader' = [reader EXCEPT !.step = "done", !.todo = todo, !.listed = {}]
      BY <1>0, <2>1, <2>3, <3>1 DEF ReaderInv
    <3> QED
      BY <1>4, <2>1, <3>2
  <2> QED
    BY <1>7, <2>2, <2>3 DEF EndImport
<1>8. CASE MessageLogNext
  <2>1. CASE \/ Tick
             \/ \E m \in Messages : \/ Send(m) \/ Store(m) \/ ConsoleForwards(m) \/ PeerRecalls(m)
                                    \/ ConsoleReacts(m) \/ ConsoleRecalls(m)
                                    \/ \E p \in People : PeerReacts(p, m)
             \/ \E h \in Handlers : \/ WriteReaction(h) \/ PushReaction(h) \/ WriteRecall(h)
                                    \/ HandlerThrows(h) \/ \E e \in events : FindMessage(h, e)
    <3>1. UNCHANGED reader
      BY <2>1 DEF Tick, Send, Store, ConsoleForwards, PeerRecalls, ConsoleReacts, ConsoleRecalls,
                  PeerReacts, WriteReaction, PushReaction, WriteRecall, HandlerThrows, FindMessage
    <3> QED
      BY <1>1, <3>1
  <2> QED
    BY <1>2, <1>3, <1>5, <1>6, <1>7, <1>8, <2>1 DEF MessageLogNext
<1>9. CASE MessageLogRestart
  BY <1>9 DEF MessageLogRestart, PagesInv
<1>10. CASE UNCHANGED logVars
  BY <1>1, <1>10 DEF logVars
<1> QED
  BY <1>8, <1>9, <1>10

\* A console that follows the cursors gets every row that the group had when it was
\* opened, once and the newest first, however long the log and the pages are and
\* whatever is inserted meanwhile.
THEOREM PagesDoCover == MessageLogSpec => []PagesCover
<1>1. MessageLogInit /\ agenda \in Agendas => LogTypesInv /\ PagesInv
  BY LogTypesInit DEF MessageLogInit, PagesInv
<1>2. LogTypesInv /\ PagesInv /\ [MessageLogNext \/ MessageLogRestart]_logVars
         => LogTypesInv' /\ PagesInv'
  BY LogTypesStep, PagesStep
<1>3. PagesInv => PagesCover
  BY DEF PagesInv, PagesCover, Falling
<1> QED
  BY <1>1, <1>2, <1>3, PTL DEF MessageLogSpec

\* What Zalo told of has a row: each message when it is imported, all of them before
\* the page is read again.
HistoryInv ==
    reader # Nil =>
        /\ reader.step = "history" => reader.listed = {}
        /\ reader.step = "import" => \A m \in reader.listed \ reader.todo : Rows(m) # {}
        /\ reader.step \in {"page", "done"} =>
              \A m \in reader.listed : Rows(m) \cap reader.before # {}

\* The reader's fields after a page.
LEMMA PageFields ==
    ASSUME ReaderInv, reader # Nil, NEW cursor, ReadsPage(cursor)
    PROVE  /\ reader'.step \in {"page", "done"} /\ reader'.listed = reader.listed
           /\ reader'.before = IF cursor = Nil THEN RowIds ELSE reader.before
<1>1. PICK got, next, step :
         /\ step \in {"page", "done"}
         /\ reader' = [reader EXCEPT !.got = got, !.before = IF cursor = Nil THEN RowIds ELSE @,
                                     !.cursor = next, !.step = step]
  <2>1. PICK items, more :
          reader' = [reader EXCEPT
                       !.got = @ \o Descending(items),
                       !.before = IF cursor = Nil THEN RowIds ELSE @,
                       !.cursor = IF more THEN Last(Descending(items)) ELSE Nil,
                       !.step = IF more THEN "page" ELSE "done"]
    BY DEF ReadsPage
  <2>2. PICK step : step = IF more THEN "page" ELSE "done"
    OBVIOUS
  <2>3. step \in {"page", "done"}
    BY <2>2
  <2> QED
    BY <2>1, <2>2, <2>3
<1>2. PICK start : start = IF cursor = Nil THEN RowIds ELSE reader.before
  OBVIOUS
<1>3. reader' = [step |-> step, cursor |-> next, got |-> got,
                 before |-> start, todo |-> reader.todo, listed |-> reader.listed]
  BY <1>1, <1>2 DEF ReaderInv
<1> QED
  BY <1>1, <1>2, <1>3

LEMMA HistoryStep ==
    ASSUME LogTypesInv, HistoryInv, [MessageLogNext \/ MessageLogRestart]_logVars
    PROVE  HistoryInv'
<1>0. ReaderInv /\ rows \in Seq(LogRows) /\ \A m : Rows(m) \subseteq Rows(m)'
  BY RowsDoLast DEF RowsLast, Rows, LogTypesInv, LogStateInv
<1>1. CASE UNCHANGED reader
  BY <1>0, <1>1 DEF HistoryInv
<1>2. CASE Opens
  <2>1. PICK d : d = [step |-> "page", cursor |-> Nil, got |-> <<>>, before |-> {}, todo |-> {},
                      listed |-> {}]
    OBVIOUS
  <2>2. reader' = d /\ d.step = "page" /\ d.listed = {}
    BY <1>2, <2>1 DEF Opens
  <2> QED
    BY <2>2 DEF HistoryInv
<1>3. ASSUME NEW cursor, ReadsPage(cursor), reader # Nil, UNCHANGED rows,
             \A m \in reader.listed : Rows(m) \cap (IF cursor = Nil THEN RowIds ELSE reader.before) # {}
      PROVE  HistoryInv'
  <2>1. /\ reader'.step \in {"page", "done"} /\ reader'.listed = reader.listed
        /\ reader'.before = IF cursor = Nil THEN RowIds ELSE reader.before
    BY <1>0, <1>3, PageFields
  <2>2. \A m \in reader'.listed : Rows(m)' \cap reader'.before # {}
    BY <1>0, <1>3, <2>1
  <2> QED
    BY <2>1, <2>2 DEF HistoryInv
<1>4. CASE ListPage
  <2>1. /\ reader # Nil /\ reader.step = "page" /\ UNCHANGED rows
        /\ \A m \in reader.listed : Rows(m) \cap reader.before # {}
    BY <1>4 DEF ListPage, HistoryInv
  <2>2. CASE rows = <<>> /\ reader' = [reader EXCEPT !.step = "history"]
    <3>1. PICK d : d = [reader EXCEPT !.step = "history"]
      OBVIOUS
    <3>2. d.step = "history" /\ d.listed = reader.listed /\ reader' = d
      BY <1>0, <2>1, <2>2, <3>1 DEF ReaderInv
    <3>3. reader.listed = {}
      BY <2>1, <2>2 DEF Rows, RowIds
    <3> QED
      BY <3>2, <3>3 DEF HistoryInv
  <2>3. CASE ReadsPage(reader.cursor)
    <3>1. PICK c : c = reader.cursor
      OBVIOUS
    <3>2. \A m \in reader.listed : Rows(m) \cap (IF c = Nil THEN RowIds ELSE reader.before) # {}
      BY <2>1 DEF Rows
    <3> QED
      BY <1>3, <2>1, <2>3, <3>1, <3>2
  <2> QED
    BY <1>4, <2>2, <2>3 DEF ListPage
<1>5. CASE FetchHistory
  <2>1. reader # Nil /\ reader.step = "history" /\ reader.listed = {}
    BY <1>5 DEF FetchHistory, HistoryInv
  <2>2. ASSUME NEW some, reader' = [reader EXCEPT !.step = "import", !.todo = some, !.listed = some]
        PROVE  HistoryInv'
    <3>1. PICK d : d = [reader EXCEPT !.step = "import", !.todo = some, !.listed = some]
      OBVIOUS
    <3>2. d.step = "import" /\ d.listed = some /\ d.todo = some /\ reader' = d
      BY <1>0, <2>1, <2>2, <3>1 DEF ReaderInv
    <3> QED
      BY <3>2 DEF HistoryInv
  <2>3. CASE reader' = [reader EXCEPT !.step = "done"]
    <3>1. PICK d : d = [reader EXCEPT !.step = "done"]
      OBVIOUS
    <3>2. d.step = "done" /\ d.listed = {} /\ reader' = d
      BY <1>0, <2>1, <2>3, <3>1 DEF ReaderInv
    <3> QED
      BY <3>2 DEF HistoryInv
  <2> QED
    BY <1>5, <2>2, <2>3 DEF FetchHistory
<1>6. ASSUME NEW m \in Messages, ImportMessage(m) PROVE HistoryInv'
  <2>1. /\ reader # Nil /\ reader.step = "import" /\ reader' = [reader EXCEPT !.todo = @ \ {m}]
        /\ rows' = IF Rows(m) = {} THEN Append(rows, Row(m, FALSE, FALSE)) ELSE rows
    BY <1>6 DEF ImportMessage
  <2>2. PICK d : d = [reader EXCEPT !.todo = @ \ {m}]
    OBVIOUS
  <2>3. /\ d.step = "import" /\ d.listed = reader.listed /\ d.todo = reader.todo \ {m}
        /\ reader' = d
    BY <1>0, <2>1, <2>2 DEF ReaderInv
  <2>4. Rows(m)' # {}
    <3>1. CASE Rows(m) # {}
      BY <1>0, <3>1
    <3>2. CASE Rows(m) = {}
      <4>1. PICK r : r = Row(m, FALSE, FALSE)
        OBVIOUS
      <4>2. rows' = Append(rows, r) /\ r.m = m
        BY <2>1, <3>2, <4>1 DEF Row
      <4>3. Len(rows) + 1 \in RowIds' /\ rows'[Len(rows) + 1] = r
        BY <1>0, <4>2 DEF RowIds
      <4> QED
        BY <4>2, <4>3 DEF Rows
    <3> QED
      BY <3>1, <3>2
  <2>5. \A x \in reader.listed \ reader.todo : Rows(x) # {}
    BY <2>1 DEF HistoryInv
  <2>6. \A x \in d.listed \ d.todo : Rows(x)' # {}
    BY <1>0, <2>3, <2>4, <2>5
  <2> QED
    BY <2>3, <2>6 DEF HistoryInv
<1>7. CASE EndImport
  <2>1. /\ reader # Nil /\ reader.step = "import" /\ UNCHANGED rows
        /\ \A m \in reader.listed \ reader.todo : Rows(m) # {}
    BY <1>7 DEF EndImport, HistoryInv
  <2>2. CASE reader.todo = {} /\ ReadsPage(Nil)
    <3>1. \A m \in reader.listed : Rows(m) \cap RowIds # {}
      BY <2>1, <2>2 DEF Rows
    <3> QED
      BY <1>3, <2>1, <2>2, <3>1
  <2>3. CASE reader' = [reader EXCEPT !.step = "done", !.listed = {}]
    <3>1. PICK d : d = [reader EXCEPT !.step = "done", !.listed = {}]
      OBVIOUS
    <3>2. d.step = "done" /\ d.listed = {} /\ reader' = d
      BY <1>0, <2>1, <2>3, <3>1 DEF ReaderInv
    <3> QED
      BY <3>2 DEF HistoryInv
  <2> QED
    BY <1>7, <2>2, <2>3 DEF EndImport
<1>8. CASE MessageLogNext
  <2>1. CASE \/ Tick
             \/ \E m \in Messages : \/ Send(m) \/ Store(m) \/ ConsoleForwards(m) \/ PeerRecalls(m)
                                    \/ ConsoleReacts(m) \/ ConsoleRecalls(m)
                                    \/ \E p \in People : PeerReacts(p, m)
             \/ \E h \in Handlers : \/ WriteReaction(h) \/ PushReaction(h) \/ WriteRecall(h)
                                    \/ HandlerThrows(h) \/ \E e \in events : FindMessage(h, e)
    <3>1. UNCHANGED reader
      BY <2>1 DEF Tick, Send, Store, ConsoleForwards, PeerRecalls, ConsoleReacts, ConsoleRecalls,
                  PeerReacts, WriteReaction, PushReaction, WriteRecall, HandlerThrows, FindMessage
    <3> QED
      BY <1>1, <3>1
  <2> QED
    BY <1>2, <1>4, <1>5, <1>6, <1>7, <1>8, <2>1 DEF MessageLogNext
<1>9. CASE MessageLogRestart
  BY <1>9 DEF MessageLogRestart, HistoryInv
<1>10. CASE UNCHANGED logVars
  BY <1>1, <1>10 DEF logVars
<1> QED
  BY <1>8, <1>9, <1>10

\* A console that opened an empty group is shown, once its history was imported to
\* the end, every message that Zalo told of, page by page, whoever stored it and
\* whatever else was stored before the page was read again.
THEOREM HistoryIsShown == MessageLogSpec => []HistoryShown
<1>1. MessageLogInit /\ agenda \in Agendas => LogTypesInv /\ PagesInv /\ HistoryInv
  BY LogTypesInit DEF MessageLogInit, PagesInv, HistoryInv
<1>2. LogTypesInv /\ PagesInv /\ HistoryInv /\ [MessageLogNext \/ MessageLogRestart]_logVars
         => LogTypesInv' /\ PagesInv' /\ HistoryInv'
  BY LogTypesStep, PagesStep, HistoryStep
<1>3. PagesInv /\ HistoryInv => HistoryShown
  BY DEF PagesInv, HistoryInv, HistoryShown
<1> QED
  BY <1>1, <1>2, <1>3, PTL DEF MessageLogSpec

-----------------------------------------------------------------------------
(* The report: what it counts                                              *)

\* Only the account's own messages are marked as generated.
MarksInv == \A i \in RowIds : rows[i].auto => rows[i].m \in Own

LEMMA RemarkedOwn ==
    ASSUME rows \in Seq(LogRows), MarksInv, NEW i \in RowIds, NEW r \in LogRows,
           rows' = [rows EXCEPT ![i] = r], r.auto => r.m \in Own
    PROVE  MarksInv'
<1>1. RowIds' = RowIds /\ \A j \in RowIds : rows'[j] = IF j = i THEN r ELSE rows[j]
  BY RowReplaced
<1> QED
  BY <1>1 DEF MarksInv

LEMMA AddedOwn ==
    ASSUME rows \in Seq(LogRows), MarksInv, NEW r, rows' = Append(rows, r), r.auto => r.m \in Own
    PROVE  MarksInv'
  BY DEF MarksInv, RowIds

LEMMA MarksAreOwn ==
    ASSUME LogTypesInv, MarksInv, [MessageLogNext \/ MessageLogRestart]_logVars
    PROVE  MarksInv'
<1>0. rows \in Seq(LogRows)
  BY DEF LogTypesInv, LogStateInv
<1>1. CASE UNCHANGED rows
  BY <1>1 DEF MarksInv, RowIds
<1>2. ASSUME NEW m \in Messages, Store(m) PROVE MarksInv'
  <2>1. PICK auto \in BOOLEAN :
           /\ auto => m \in Own
           /\ \/ rows' = Append(rows, Row(m, TRUE, auto))
              \/ \E i \in Rows(m) : rows' = [rows EXCEPT ![i].auto = auto]
    BY <1>2 DEF Store
  <2>2. CASE rows' = Append(rows, Row(m, TRUE, auto))
    <3>1. PICK r : r = Row(m, TRUE, auto)
      OBVIOUS
    <3>2. r.auto => r.m \in Own
      BY <2>1, <3>1 DEF Row
    <3> QED
      BY <1>0, <2>2, <3>1, <3>2, AddedOwn
  <2>3. CASE \E i \in Rows(m) : rows' = [rows EXCEPT ![i].auto = auto]
    <3>1. PICK i \in Rows(m) : rows' = [rows EXCEPT ![i].auto = auto]
      BY <2>3
    <3>2. PICK r : r = [rows[i] EXCEPT !.auto = auto]
      OBVIOUS
    <3>3. i \in RowIds /\ rows[i] \in LogRows /\ rows[i].m = m
      BY <1>0, RowFields DEF Rows
    <3>4. r \in LogRows /\ (r.auto => r.m \in Own)
      BY <2>1, <3>2, <3>3 DEF LogRows
    <3>5. rows' = [rows EXCEPT ![i] = r]
      BY <3>1, <3>2
    <3> QED
      BY <1>0, <3>3, <3>4, <3>5, RemarkedOwn
  <2> QED
    BY <2>1, <2>2, <2>3
<1>3. ASSUME NEW m \in Messages, ImportMessage(m) PROVE MarksInv'
  <2>1. CASE rows' = Append(rows, Row(m, FALSE, FALSE))
    <3>1. PICK r : r = Row(m, FALSE, FALSE)
      OBVIOUS
    <3>2. ~r.auto
      BY <3>1 DEF Row
    <3> QED
      BY <1>0, <2>1, <3>1, <3>2, AddedOwn
  <2> QED
    BY <1>1, <1>3, <2>1 DEF ImportMessage
<1>4. ASSUME NEW h \in Handlers, WriteReaction(h) \/ WriteRecall(h) PROVE MarksInv'
  <2>1. PICK i \in RowIds, r \in LogRows :
           /\ rows' = [rows EXCEPT ![i] = r]
           /\ r = [rows[i] EXCEPT !.by = NewList(h)] \/ r = [rows[i] EXCEPT !.recalled = TRUE]
    BY <1>4, Writings, RecallWritings
  <2>2. rows[i] \in LogRows /\ (rows[i].auto => rows[i].m \in Own)
    BY <1>0, RowFields DEF MarksInv
  <2>3. r.m = rows[i].m /\ r.auto = rows[i].auto
    BY <2>1, <2>2 DEF LogRows
  <2> QED
    BY <1>0, <2>1, <2>2, <2>3, RemarkedOwn
<1>5. CASE MessageLogNext
  <2>1. CASE \/ Tick \/ Opens \/ ListPage \/ FetchHistory \/ EndImport
             \/ \E m \in Messages : \/ Send(m) \/ ConsoleForwards(m) \/ PeerRecalls(m)
                                    \/ ConsoleReacts(m) \/ ConsoleRecalls(m)
                                    \/ \E p \in People : PeerReacts(p, m)
             \/ \E h \in Handlers : \/ PushReaction(h) \/ HandlerThrows(h)
                                    \/ \E e \in events : FindMessage(h, e)
    <3>1. UNCHANGED rows
      BY <2>1 DEF Tick, Opens, ListPage, FetchHistory, EndImport, Send, ConsoleForwards, PeerRecalls,
                  ConsoleReacts, ConsoleRecalls, PeerReacts, PushReaction, HandlerThrows,
                  FindMessage, zaloVars
    <3> QED
      BY <1>1, <3>1
  <2> QED
    BY <1>2, <1>3, <1>4, <1>5, <2>1 DEF MessageLogNext
<1>6. CASE MessageLogRestart \/ UNCHANGED logVars
  BY <1>1, <1>6 DEF MessageLogRestart, logVars
<1> QED
  BY <1>5, <1>6

LEMMA ClockGrows ==
    ASSUME LogTypesInv, [MessageLogNext \/ MessageLogRestart]_logVars
    PROVE  clock' \in Nat /\ clock <= clock'
<1>0. clock \in Nat
  BY DEF LogTypesInv, LogStateInv
<1>1. ASSUME UNCHANGED clock PROVE clock' \in Nat /\ clock <= clock'
  <2>1. PICK c \in Nat : c = clock /\ clock' = c
    BY <1>0, <1>1
  <2> QED
    BY <2>1
<1>2. CASE Tick
  BY <1>0, <1>2 DEF Tick
<1>3. CASE \/ Opens \/ ListPage \/ FetchHistory \/ EndImport
           \/ \E m \in Messages : \/ Send(m) \/ Store(m) \/ ImportMessage(m) \/ ConsoleForwards(m)
  <2>1. UNCHANGED clock
    BY <1>3 DEF Opens, ListPage, FetchHistory, EndImport, Send, Store, ImportMessage,
                ConsoleForwards, zaloVars
  <2> QED
    BY <1>1, <2>1
<1>4. CASE \E m \in Messages : \/ PeerRecalls(m) \/ ConsoleReacts(m) \/ ConsoleRecalls(m)
                                \/ \E p \in People : PeerReacts(p, m)
  <2>1. UNCHANGED clock
    BY <1>4 DEF PeerRecalls, ConsoleReacts, ConsoleRecalls, PeerReacts
  <2> QED
    BY <1>1, <2>1
<1>5. CASE \E h \in Handlers : \/ WriteReaction(h) \/ PushReaction(h) \/ WriteRecall(h)
                                \/ HandlerThrows(h) \/ \E e \in events : FindMessage(h, e)
  <2>1. UNCHANGED clock
    BY <1>5 DEF WriteReaction, PushReaction, WriteRecall, HandlerThrows, FindMessage, zaloVars
  <2> QED
    BY <1>1, <2>1
<1>6. CASE MessageLogRestart \/ UNCHANGED logVars
  <2>1. UNCHANGED clock
    BY <1>6 DEF MessageLogRestart, logVars, zaloVars
  <2> QED
    BY <1>1, <2>1
<1>7. MessageLogNext => \/ Tick \/ Opens \/ ListPage \/ FetchHistory \/ EndImport
                        \/ \E m \in Messages :
                              \/ Send(m) \/ Store(m) \/ ImportMessage(m) \/ ConsoleForwards(m)
                              \/ PeerRecalls(m) \/ ConsoleReacts(m) \/ ConsoleRecalls(m)
                              \/ \E p \in People : PeerReacts(p, m)
                        \/ \E h \in Handlers :
                              \/ WriteReaction(h) \/ PushReaction(h) \/ WriteRecall(h)
                              \/ HandlerThrows(h) \/ \E e \in events : FindMessage(h, e)
  BY DEF MessageLogNext
<1> QED
  BY <1>2, <1>3, <1>4, <1>5, <1>6, <1>7

\* How many rows a statement finds.
Count(statement, range) == Cardinality(Matching(statement, range))

\* The rows of a range.
Within(range) == {i \in RowIds : InRange(range, i)}

\* Each statement finds the rows of the range, or those of one kind.
LEMMA MatchingFinds ==
    ASSUME NEW range
    PROVE  /\ Matching("total", range) = Within(range)
           /\ Matching("recent", range) = Within(range)
           /\ Matching("types", range) = Within(range)
           /\ Matching("topContacts", range) = Within(range)
           /\ Matching("outbound", range) = {i \in Within(range) : Outbound(i)}
           /\ Matching("inbound", range) = {i \in Within(range) : ~Outbound(i)}
           /\ Matching("ai", range) = {i \in Within(range) : Outbound(i) /\ rows[i].auto}
           /\ Matching("agent", range) = {i \in Within(range) : Outbound(i) /\ ~rows[i].auto}
           /\ Matching("tokens", range) = {i \in Within(range) : rows[i].auto}
           /\ Matching("topUsers", range) = {i \in Within(range) : rows[i].auto}
           /\ Matching("topBots", range) = {i \in Within(range) : rows[i].auto}
<1>1. Matching("total", range) = Within(range)
  BY DEF Matching, Within
<1>2. Matching("recent", range) = Within(range)
  BY DEF Matching, Within
<1>3. Matching("types", range) = Within(range)
  BY DEF Matching, Within
<1>4. Matching("topContacts", range) = Within(range)
  BY DEF Matching, Within
<1>5. Matching("outbound", range) = {i \in Within(range) : Outbound(i)}
  BY DEF Matching, Within
<1>6. Matching("inbound", range) = {i \in Within(range) : ~Outbound(i)}
  BY DEF Matching, Within
<1>7. Matching("ai", range) = {i \in Within(range) : Outbound(i) /\ rows[i].auto}
  BY DEF Matching, Within
<1>8. Matching("agent", range) = {i \in Within(range) : Outbound(i) /\ ~rows[i].auto}
  BY DEF Matching, Within
<1>9. Matching("tokens", range) = {i \in Within(range) : rows[i].auto}
  BY DEF Matching, Within
<1>10. Matching("topUsers", range) = {i \in Within(range) : rows[i].auto}
  BY DEF Matching, Within
<1>11. Matching("topBots", range) = {i \in Within(range) : rows[i].auto}
  BY DEF Matching, Within
<1> QED
  BY <1>1, <1>2, <1>3, <1>4, <1>5, <1>6, <1>7, <1>8, <1>9, <1>10, <1>11

LEMMA FiniteRows ==
    ASSUME rows \in Seq(LogRows), NEW range
    PROVE  /\ IsFiniteSet(Within(range)) /\ RowIds \subseteq Nat
           /\ \A S \in SUBSET Within(range) : IsFiniteSet(S) /\ Cardinality(S) \in Nat
<1>1. RowIds = 1 .. Len(rows) /\ Len(rows) \in Nat
  BY DEF RowIds
<1>2. IsFiniteSet(RowIds)
  BY <1>1, FS_Interval
<1>3. IsFiniteSet(Within(range))
  BY <1>2, FS_Subset DEF Within
<1>4. \A S \in SUBSET Within(range) : IsFiniteSet(S) /\ Cardinality(S) \in Nat
  BY <1>3, FS_Subset, FS_CardinalityType
<1> QED
  BY <1>1, <1>3, <1>4

\* Two parts of a finite set that have nothing in common add up.
LEMMA PartsAdd ==
    ASSUME NEW A, NEW B, IsFiniteSet(A), IsFiniteSet(B), A \cap B = {}
    PROVE  Cardinality(A \cup B) = Cardinality(A) + Cardinality(B)
<1>1. Cardinality(A \cup B) = Cardinality(A) + Cardinality(B) - Cardinality(A \cap B)
  BY FS_Union
<1>2. Cardinality(A \cap B) = 0
  BY FS_EmptySet
<1> QED
  BY <1>1, <1>2, FS_CardinalityType

\* Of the rows as they are, the parts are the whole.
LEMMA CountsAddUp ==
    ASSUME rows \in Seq(LogRows), MarksInv, NEW range
    PROVE  /\ \A s \in {"total", "outbound", "inbound", "ai", "agent", "tokens", "recent", "types",
                        "topContacts", "topUsers", "topBots"} : Count(s, range) \in Nat
           /\ Count("total", range) = Count("outbound", range) + Count("inbound", range)
           /\ Count("types", range) = Count("total", range)
           /\ Count("topContacts", range) = Count("total", range)
           /\ Count("outbound", range) = Count("ai", range) + Count("agent", range)
           /\ Count("tokens", range) = Count("ai", range)
           /\ Count("topUsers", range) = Count("tokens", range)
           /\ Count("topBots", range) = Count("tokens", range)
<1> DEFINE W == Within(range)
           Out == {i \in W : Outbound(i)}
           In == {i \in W : ~Outbound(i)}
           Ai == {i \in W : Outbound(i) /\ rows[i].auto}
           Agent == {i \in W : Outbound(i) /\ ~rows[i].auto}
           Marked_ == {i \in W : rows[i].auto}
<1>1. /\ W = Out \cup In /\ Out \cap In = {} /\ Out = Ai \cup Agent /\ Ai \cap Agent = {}
      /\ {W, Out, In, Ai, Agent, Marked_} \subseteq SUBSET W
  OBVIOUS
<1>2. Marked_ = Ai
  BY DEF MarksInv, Outbound, Within
<1>3. \A S \in {W, Out, In, Ai, Agent, Marked_} : IsFiniteSet(S) /\ Cardinality(S) \in Nat
  BY <1>1, FiniteRows
<1>4. Cardinality(W) = Cardinality(Out) + Cardinality(In)
  <2> HIDE DEF W, Out, In
  <2> QED
    BY <1>1, <1>3, PartsAdd
<1>5. Cardinality(Out) = Cardinality(Ai) + Cardinality(Agent)
  <2> HIDE DEF Out, Ai, Agent
  <2> QED
    BY <1>1, <1>3, PartsAdd
<1>6. /\ Matching("total", range) = W /\ Matching("types", range) = W
      /\ Matching("topContacts", range) = W /\ Matching("recent", range) = W
      /\ Matching("outbound", range) = Out /\ Matching("inbound", range) = In
      /\ Matching("ai", range) = Ai /\ Matching("agent", range) = Agent
      /\ Matching("tokens", range) = Marked_ /\ Matching("topUsers", range) = Marked_
      /\ Matching("topBots", range) = Marked_
  BY MatchingFinds
<1> HIDE DEF W, Out, In, Ai, Agent, Marked_
<1> QED
  BY <1>2, <1>3, <1>4, <1>5, <1>6 DEF Count

\* While rows are added the counts do not fall.
LEMMA CountsGrow ==
    ASSUME rows \in Seq(LogRows), rows' \in Seq(LogRows), RowsLast, NEW range
    PROVE  \A s \in {"total", "outbound", "inbound"} : Count(s, range) <= Count(s, range)'
<1>1. Within(range) \subseteq Within(range)'
  BY DEF Within, RowsLast, InRange
<1>2. \A i \in Within(range) : Outbound(i) <=> Outbound(i)'
  BY DEF Within, RowsLast, Outbound
<1>3. \A s \in {"total", "outbound", "inbound"} : Matching(s, range) \subseteq Matching(s, range)'
  <2>1. /\ Matching("total", range)' = Within(range)'
        /\ Matching("outbound", range)' = {i \in Within(range)' : Outbound(i)'}
        /\ Matching("inbound", range)' = {i \in Within(range)' : ~Outbound(i)'}
    <3>1. /\ Matching("total", range) = Within(range)
          /\ Matching("outbound", range) = {i \in Within(range) : Outbound(i)}
          /\ Matching("inbound", range) = {i \in Within(range) : ~Outbound(i)}
      BY MatchingFinds
    <3> QED
      BY DEF Matching, Within
  <2> QED
    BY <1>1, <1>2, <2>1, MatchingFinds
<1>4. /\ IsFiniteSet(Within(range)')
      /\ \A s \in {"total", "outbound", "inbound"} : Matching(s, range)' \subseteq Within(range)'
  <2>1. RowIds' = 1 .. Len(rows') /\ Len(rows') \in Nat
    BY DEF RowIds
  <2>2. IsFiniteSet(RowIds')
    BY <2>1, FS_Interval
  <2>3. IsFiniteSet(Within(range)')
    BY <2>2, FS_Subset DEF Within
  <2> QED
    BY <2>3 DEF Matching, Within
<1> QED
  BY <1>3, <1>4, FS_Subset DEF Count

\* Quarters and days.
LEMMA DaysOfQuarters ==
    ASSUME NEW a \in Int, NEW b \in Int
    PROVE  /\ UTCDay(a) \in Int /\ UTCDay(a) * 4 <= a /\ a < UTCDay(a) * 4 + 4
           /\ a <= b => UTCDay(a) <= UTCDay(b)
           /\ UTCDay(UTCDay(a) * 4 + b * 4) = UTCDay(a) + b
           /\ LocalMidnight(a, 0) = UTCDay(a) * 4 /\ LocalEnd(a, 0) = UTCDay(a) * 4 + 3
<1>1. /\ UTCDay(a) \in Int /\ UTCDay(a) * 4 <= a /\ a < UTCDay(a) * 4 + 4
      /\ UTCDay(b) \in Int /\ UTCDay(b) * 4 <= b /\ b < UTCDay(b) * 4 + 4
  BY DEF UTCDay, Day
<1>2. a <= b => UTCDay(a) <= UTCDay(b)
  BY <1>1
<1>3. PICK c \in Int : c = UTCDay(a)
  BY <1>1
<1>4. (c * 4 + b * 4) \div 4 = c + b
  OBVIOUS
<1>5. UTCDay(UTCDay(a) * 4 + b * 4) = UTCDay(a) + b
  BY <1>3, <1>4 DEF UTCDay, Day
<1>6. LocalMidnight(a, 0) = UTCDay(a) * 4 /\ LocalEnd(a, 0) = UTCDay(a) * 4 + 3
  <2>1. a + 0 = a /\ UTCDay(a) * 4 - 0 = UTCDay(a) * 4
    BY <1>1
  <2> QED
    BY <2>1, <1>1 DEF LocalMidnight, LocalEnd, UTCDay, Day
<1> QED
  BY <1>1, <1>2, <1>5, <1>6

\* The latest rows are all when they are few enough.
LEMMA FewAreRecent ==
    ASSUME rows \in Seq(LogRows), \A i \in RowIds : rows[i].at \in Nat, NEW range,
           Count("total", range) <= Recent
    PROVE  RecentRows(range) = Within(range)
<1> DEFINE Later(i) == {j \in Within(range) :
                           rows[j].at > rows[i].at \/ (rows[j].at = rows[i].at /\ j > i)}
<1>1. IsFiniteSet(Within(range)) /\ RowIds \subseteq Nat /\ Within(range) \subseteq RowIds
  BY FiniteRows DEF Within
<1>2. ASSUME NEW i \in Within(range) PROVE Cardinality(Later(i)) < Recent
  <2>1. rows[i].at \in Nat /\ i \in Nat
    BY <1>1
  <2>2. Later(i) \subseteq Within(range) \ {i}
    BY <1>1, <2>1
  <2>3. /\ IsFiniteSet(Within(range) \ {i})
        /\ Cardinality(Within(range) \ {i}) = Cardinality(Within(range)) - 1
    BY <1>1, FS_RemoveElement
  <2>4. Cardinality(Later(i)) <= Cardinality(Within(range)) - 1 /\ Cardinality(Later(i)) \in Nat
    <3> HIDE DEF Later
    <3> QED
      BY <2>2, <2>3, FS_Subset, FS_CardinalityType
  <2>5. Cardinality(Within(range)) <= Recent /\ Cardinality(Within(range)) \in Nat
    BY <1>1, MatchingFinds, FS_CardinalityType DEF Count
  <2> HIDE DEF Later
  <2> QED
    BY <2>4, <2>5, ReportAssumption
<1>3. RecentRows(range) = {i \in Within(range) : Cardinality(Later(i)) < Recent}
  BY MatchingFinds DEF RecentRows
<1> HIDE DEF Later
<1> QED
  BY <1>2, <1>3

\* The chart shows every row of a range, unless it is made of the latest rows only,
\* or the server's clock is not UTC, or the range goes beyond the days of the chart.
LEMMA ChartIsWhole ==
    ASSUME rows \in Seq(LogRows), clock \in Nat,
           \A i \in RowIds : rows[i].at \in Nat /\ rows[i].at <= clock,
           NEW R \in Ranges, R.zone = 0, Count("total", R) <= Recent, ~BeyondChart(R)
    PROVE  Cardinality(Charted(R)) = Count("total", R)
<1>1. RecentRows(R) = Within(R)
  BY FewAreRecent
<1>2. R.from \in Int \cup {Nil} /\ R.to \in Int \cup {Nil}
  <2>1. Dates \subseteq Int
    BY DEF Dates, Day
  <2> QED
    BY <2>1 DEF Ranges
<1>3. PICK x : x = IF R.from = Nil THEN clock - 24 ELSE R.from
  OBVIOUS
<1>4. PICK y : y = IF R.to = Nil THEN clock ELSE R.to
  OBVIOUS
<1>5. x \in Int /\ y \in Int
  BY <1>2, <1>3, <1>4
<1>6. ChartDays(R) = {UTCDay(UTCDay(x) * 4 + n * 4) :
                         n \in {k \in 0 .. 31 : UTCDay(x) * 4 + k * 4 <= UTCDay(y) * 4 + 3}}
  <2>1. LocalMidnight(x, R.zone) = UTCDay(x) * 4 /\ LocalEnd(y, R.zone) = UTCDay(y) * 4 + 3
    BY <1>5, DaysOfQuarters
  <2>2. clock - 6 * Day = clock - 24
    BY DEF Day
  <2> QED
    BY <1>3, <1>4, <2>1, <2>2 DEF ChartDays, Day
<1>7. ASSUME NEW i \in Within(R) PROVE UTCDay(rows[i].at) \in ChartDays(R)
  <2>1. PICK t \in Nat : t = rows[i].at /\ t <= clock
    BY <1>7 DEF Within
  <2>2. (R.from # Nil => t >= R.from) /\ (R.to # Nil => t <= R.to)
    BY <1>7, <2>1 DEF Within, InRange
  <2>3. PICK n : n = UTCDay(t) - UTCDay(x)
    OBVIOUS
  <2>4. /\ UTCDay(t) \in Int /\ UTCDay(x) \in Int /\ UTCDay(y) \in Int /\ UTCDay(clock) \in Int
        /\ UTCDay(t) * 4 <= t /\ clock < UTCDay(clock) * 4 + 4
        /\ UTCDay(x) * 4 <= x /\ x < UTCDay(x) * 4 + 4
    <3>1. \A a \in Int : UTCDay(a) \in Int /\ UTCDay(a) * 4 <= a /\ a < UTCDay(a) * 4 + 4
      BY DaysOfQuarters
    <3>2. t \in Int /\ clock \in Int
      BY <2>1
    <3> QED
      BY <1>5, <3>1, <3>2
  <2>5. PICK d \in Int, f \in Int, g \in Int : d = UTCDay(t) /\ f = UTCDay(x) /\ g = UTCDay(y)
    BY <2>4
  <2>6. n = d - f
    BY <2>3, <2>5
  <2>7. t <= y /\ UTCDay(t) <= UTCDay(y)
    <3>1. t <= y
      BY <1>4, <2>1, <2>2
    <3> QED
      BY <1>5, <3>1, DaysOfQuarters
  <2>8. n \in 0 .. 31
    <3>1. CASE R.from = Nil
      <4>1. UTCDay(clock) <= 6
        BY <2>4, <3>1 DEF BeyondChart
      <4>2. clock < 28
        BY <2>4, <4>1
      <4>3. x = clock - 24 /\ clock \in Nat
        BY <1>3, <3>1
      <4>4. UTCDay(x) <= 0 /\ UTCDay(x) >= -6
        <5>1. UTCDay(x) * 4 <= 3 /\ UTCDay(x) * 4 > -28
          BY <2>4, <4>2, <4>3
        <5> QED
          BY <2>4, <5>1
      <4>5. UTCDay(t) <= 6 /\ UTCDay(t) >= 0
        <5>1. UTCDay(t) * 4 <= 27
          BY <2>1, <2>4, <4>2
        <5>2. UTCDay(t) >= 0
          BY <2>1 DEF UTCDay, Day
        <5> QED
          BY <2>4, <5>1, <5>2
      <4>6. d <= 6 /\ d >= 0 /\ f <= 0 /\ f >= -6
        BY <2>5, <4>4, <4>5
      <4> QED
        BY <2>6, <4>6
    <3>2. CASE R.from # Nil
      <4>1. UTCDay(y) - UTCDay(x) <= 31
        BY <1>3, <1>4, <2>4, <3>2 DEF BeyondChart
      <4>2. x <= t
        BY <1>3, <1>5, <2>2, <3>2
      <4>3. UTCDay(x) <= UTCDay(t)
        BY <1>5, <4>2, DaysOfQuarters
      <4>4. g - f <= 31 /\ f <= d /\ d <= g
        BY <2>7, <2>5, <4>1, <4>3
      <4> QED
        BY <2>6, <4>4
    <3> QED
      BY <3>1, <3>2
  <2>9. UTCDay(x) * 4 + n * 4 <= UTCDay(y) * 4 + 3
    <3>1. d <= g /\ f * 4 + n * 4 = d * 4
      BY <2>5, <2>6, <2>7
    <3>2. f * 4 + n * 4 <= g * 4 + 3
      BY <3>1
    <3> QED
      BY <2>5, <3>2
  <2>10. UTCDay(UTCDay(x) * 4 + n * 4) = UTCDay(x) + n
    BY <1>5, <2>8, DaysOfQuarters
  <2>11. UTCDay(UTCDay(x) * 4 + n * 4) = UTCDay(t)
    BY <2>3, <2>4, <2>8, <2>10
  <2> QED
    BY <1>6, <2>1, <2>8, <2>9, <2>11
<1>8. Charted(R) = Within(R)
  BY <1>1, <1>7 DEF Charted
<1> QED
  BY <1>8, MatchingFinds DEF Count

-----------------------------------------------------------------------------
(* The report: its figures, by how far it is                               *)

LEMMA StatementsAre ==
    /\ Len(Statements) = 13
    /\ Statements[1] = "bots"
    /\ Statements[2] = "total"
    /\ Statements[3] = "outbound"
    /\ Statements[4] = "inbound"
    /\ Statements[5] = "tokens"
    /\ Statements[6] = "ai"
    /\ Statements[7] = "agent"
    /\ Statements[8] = "recent"
    /\ Statements[9] = "types"
    /\ Statements[10] = "topContacts"
    /\ Statements[11] = "topUsers"
    /\ Statements[12] = "topBots"
    /\ Statements[13] = "answer"
  BY DEF Statements

LEMMA FiguresAre ==
    Figures = {"bots", "total", "outbound", "inbound", "tokens", "ai", "agent",
               "recent", "types", "topContacts", "topUsers", "topBots", "answer"}
<1>1. Figures = {Statements[i] : i \in 1 .. 13}
  BY StatementsAre DEF Figures
<1>2. 1 .. 13 = {1, 2, 3, 4, 5, 6, 7, 8, 9, 10, 11, 12, 13}
  OBVIOUS
<1> QED
  BY <1>1, <1>2, StatementsAre

\* Rows are only added: what was counted earlier is no more than what is counted later.
Growing(k, f, R) ==
    /\ k = 3 => f["total"] <= Count("total", R)
    /\ k = 4 => /\ f["outbound"] <= Count("outbound", R)
                /\ f["total"] <= f["outbound"] + Count("inbound", R)
    /\ k >= 5 => f["total"] <= f["outbound"] + f["inbound"]
    /\ k \in 5 .. 9 => f["outbound"] + f["inbound"] <= Count("total", R)
    /\ k >= 10 => f["outbound"] + f["inbound"] <= f["types"]
    /\ k = 10 => f["types"] <= Count("total", R)
    /\ k >= 11 => f["types"] <= f["topContacts"]

\* Of rows that did not change, each figure is what its statement finds.
Exact(k, f, R) ==
    /\ k \in 3 .. 12 => f["total"] = Count("total", R)
    /\ k \in 4 .. 12 => f["outbound"] = Count("outbound", R)
    /\ k \in 5 .. 12 => f["inbound"] = Count("inbound", R)
    /\ k \in 6 .. 12 => f["tokens"] = Count("tokens", R)
    /\ k \in 7 .. 12 => f["ai"] = Count("ai", R)
    /\ k \in 8 .. 12 => f["agent"] = Count("agent", R)
    /\ k \in 11 .. 12 => f["topContacts"] = Count("topContacts", R)
    /\ k = 12 => f["topUsers"] = Count("topUsers", R)

\* The figures of an answer whose rows did not change.
Balanced(k, f) ==
    k = 13 =>
        /\ f["total"] = f["outbound"] + f["inbound"] /\ f["total"] = f["topContacts"]
        /\ f["outbound"] = f["ai"] + f["agent"] /\ f["tokens"] = f["ai"]
        /\ f["tokens"] = f["topUsers"] /\ f["tokens"] = f["topBots"]

\* The chart of rows that did not change.
Charting(k, f, R) ==
    k >= 9 => \/ f["recent"] = f["total"]
              \/ f["total"] > Recent
              \/ R.zone # 0
              \/ BeyondChart(R)

ReportInv ==
    report # Nil =>
        /\ report \in Reports
        /\ Growing(report.next, report.figures, report.range)
        /\ report.quiet =>
              /\ Exact(report.next, report.figures, report.range)
              /\ Balanced(report.next, report.figures)
              /\ Charting(report.next, report.figures, report.range)

LEMMA ReportAgreesBy == ReportInv => ReportTypeOK /\ ReportAgrees
<1>1. ReportInv => ReportTypeOK
  BY DEF ReportInv, ReportTypeOK
<1>2. ASSUME ReportInv, Answered PROVE ReportAgrees
  <2>1. PICK k, f, R, on : k = report.next /\ f = report.figures /\ R = report.range
                           /\ on = report.quiet
    OBVIOUS
  <2>2. k = 13 /\ report # Nil
    BY <1>2, <2>1, StatementsAre DEF Answered
  <2>3. Growing(k, f, R) /\ (on => Balanced(k, f) /\ Charting(k, f, R))
    BY <1>2, <2>1, <2>2 DEF ReportInv
  <2>4. /\ f["total"] <= f["outbound"] + f["inbound"]
        /\ f["outbound"] + f["inbound"] <= f["types"] /\ f["types"] <= f["topContacts"]
    BY <2>2, <2>3 DEF Growing
  <2>5. on => /\ f["total"] = f["outbound"] + f["inbound"] /\ f["total"] = f["topContacts"]
              /\ f["outbound"] = f["ai"] + f["agent"] /\ f["tokens"] = f["ai"]
              /\ f["tokens"] = f["topUsers"] /\ f["tokens"] = f["topBots"]
              /\ \/ f["recent"] = f["total"] \/ f["total"] > Recent
                 \/ R.zone # 0 \/ BeyondChart(R)
    BY <2>2, <2>3 DEF Balanced, Charting
  <2> QED
    BY <2>1, <2>4, <2>5 DEF ReportAgrees
<1> QED
  BY <1>1, <1>2 DEF ReportAgrees

\* A count is a property of the rows.
LEMMA CountsStay ==
    ASSUME UNCHANGED rows, NEW s, NEW range
    PROVE  Count(s, range)' = Count(s, range)
<1>1. Matching(s, range)' = Matching(s, range)
  BY DEF Matching, RowIds, InRange, Outbound
<1> QED
  BY <1>1 DEF Count

\* What was figured stays right when rows are added or rewritten.
LEMMA GrowingStays ==
    ASSUME rows \in Seq(LogRows), MarksInv, rows' \in Seq(LogRows), MarksInv', RowsLast,
           NEW k \in 1 .. 13, NEW f \in [Figures -> Nat], NEW R, Growing(k, f, R)
    PROVE  Growing(k, f, R)'
<1>1. f["total"] \in Nat /\ f["outbound"] \in Nat /\ f["inbound"] \in Nat /\ f["types"] \in Nat
  BY FiguresAre
<1>2. PICK t \in Nat, o \in Nat, i \in Nat :
         t = Count("total", R) /\ o = Count("outbound", R) /\ i = Count("inbound", R)
  BY CountsAddUp
<1>3. /\ IsFiniteSet(Within(R)')
      /\ Matching("total", R)' \subseteq Within(R)' /\ Matching("outbound", R)' \subseteq Within(R)'
      /\ Matching("inbound", R)' \subseteq Within(R)'
  <2>1. RowIds' = 1 .. Len(rows') /\ Len(rows') \in Nat
    BY DEF RowIds
  <2>2. IsFiniteSet(RowIds')
    BY <2>1, FS_Interval
  <2>3. IsFiniteSet(Within(R)')
    BY <2>2, FS_Subset DEF Within
  <2> QED
    BY <2>3 DEF Matching, Within
<1>4. PICK t2 \in Nat, o2 \in Nat, i2 \in Nat :
         t2 = Count("total", R)' /\ o2 = Count("outbound", R)' /\ i2 = Count("inbound", R)'
  BY <1>3, FS_Subset, FS_CardinalityType DEF Count
<1>5. t <= t2 /\ o <= o2 /\ i <= i2
  BY <1>2, <1>4, CountsGrow
<1>6. /\ k = 3 => f["total"] <= t
      /\ k = 4 => f["outbound"] <= o /\ f["total"] <= f["outbound"] + i
      /\ k >= 5 => f["total"] <= f["outbound"] + f["inbound"]
      /\ k \in 5 .. 9 => f["outbound"] + f["inbound"] <= t
      /\ k >= 10 => f["outbound"] + f["inbound"] <= f["types"]
      /\ k = 10 => f["types"] <= t
      /\ k >= 11 => f["types"] <= f["topContacts"]
  BY <1>2 DEF Growing
<1>7. /\ k = 3 => f["total"] <= t2
      /\ k = 4 => f["outbound"] <= o2 /\ f["total"] <= f["outbound"] + i2
      /\ k \in 5 .. 9 => f["outbound"] + f["inbound"] <= t2
      /\ k = 10 => f["types"] <= t2
  <2>1. PICK a \in Nat, b \in Nat, c \in Nat, d \in Nat :
           a = f["total"] /\ b = f["outbound"] /\ c = f["inbound"] /\ d = f["types"]
    BY <1>1
  <2>2. (a <= t => a <= t2) /\ (b <= o => b <= o2) /\ (a <= b + i => a <= b + i2)
    BY <1>5
  <2>3. (b + c <= t => b + c <= t2) /\ (d <= t => d <= t2)
    BY <1>5
  <2> QED
    BY <1>6, <2>1, <2>2, <2>3
<1> QED
  BY <1>4, <1>6, <1>7 DEF Growing

\* With the clock a range only goes further beyond the days of the chart.
LEMMA ChartingStays ==
    ASSUME clock \in Nat, clock' \in Nat, clock <= clock', NEW R \in Ranges,
           NEW k, NEW f, Charting(k, f, R)
    PROVE  Charting(k, f, R)'
<1>1. R.from \in Int \cup {Nil} /\ R.to \in Int \cup {Nil}
  <2>1. Dates \subseteq Int
    BY DEF Dates, Day
  <2> QED
    BY <2>1 DEF Ranges
<1>2. PICK a \in Int, b \in Int : a = UTCDay(clock) /\ b = UTCDay(clock)' /\ a <= b
  <2>1. PICK c \in Nat : c = clock'
    OBVIOUS
  <2>2. UTCDay(clock) <= UTCDay(c) /\ UTCDay(clock) \in Int /\ UTCDay(c) \in Int
    <3>1. clock \in Int /\ c \in Int /\ clock <= c
      BY <2>1
    <3> QED
      BY <3>1, DaysOfQuarters
  <2>3. UTCDay(clock)' = UTCDay(c)
    BY <2>1 DEF UTCDay
  <2> QED
    BY <2>2, <2>3
<1>3. BeyondChart(R) => BeyondChart(R)'
  <2>1. CASE R.from = Nil
    <3>1. (BeyondChart(R) => a > 6) /\ (b > 6 => BeyondChart(R)')
      BY <1>2, <2>1 DEF BeyondChart, UTCDay
    <3> QED
      BY <1>2, <3>1
  <2>2. CASE R.from # Nil
    <3>1. PICK c \in Int : c = UTCDay(R.from)
      BY <1>1, <2>2, DaysOfQuarters
    <3>2. CASE R.to = Nil
      <4>1. (BeyondChart(R) => a - c > 31) /\ (b - c > 31 => BeyondChart(R)')
        BY <1>2, <2>2, <3>1, <3>2 DEF BeyondChart, UTCDay
      <4> QED
        BY <1>2, <3>1, <4>1
    <3>3. CASE R.to # Nil
      BY <2>2, <3>3 DEF BeyondChart, UTCDay
    <3> QED
      BY <3>2, <3>3
  <2> QED
    BY <2>1, <2>2
<1> QED
  BY <1>3 DEF Charting

\* What the k-th statement brings.
Figured(k, R) ==
    IF k = 8 THEN Cardinality(Charted(R)) ELSE IF k = 1 THEN 1 ELSE Count(Statements[k], R)

\* g are the figures f after the k-th statement.
Read(k, f, g, R) ==
    /\ g \in [Figures -> Nat]
    /\ g[Statements[k]] = Figured(k, R)
    /\ \A s \in Figures : s # Statements[k] => g[s] = f[s]

\* A statement brings its own figure and leaves the others.
LEMMA OthersStay ==
    ASSUME NEW k \in 1 .. 12, NEW f \in [Figures -> Nat], NEW g, NEW R, Read(k, f, g, R)
    PROVE  /\ g["total"] = IF k = 2 THEN Count("total", R) ELSE f["total"]
           /\ g["outbound"] = IF k = 3 THEN Count("outbound", R) ELSE f["outbound"]
           /\ g["inbound"] = IF k = 4 THEN Count("inbound", R) ELSE f["inbound"]
           /\ g["tokens"] = IF k = 5 THEN Count("tokens", R) ELSE f["tokens"]
           /\ g["ai"] = IF k = 6 THEN Count("ai", R) ELSE f["ai"]
           /\ g["agent"] = IF k = 7 THEN Count("agent", R) ELSE f["agent"]
           /\ g["recent"] = IF k = 8 THEN Cardinality(Charted(R)) ELSE f["recent"]
           /\ g["types"] = IF k = 9 THEN Count("types", R) ELSE f["types"]
           /\ g["topContacts"] = IF k = 10 THEN Count("topContacts", R) ELSE f["topContacts"]
           /\ g["topUsers"] = IF k = 11 THEN Count("topUsers", R) ELSE f["topUsers"]
           /\ g["topBots"] = IF k = 12 THEN Count("topBots", R) ELSE f["topBots"]
<1>1. /\ g[Statements[k]] = Figured(k, R)
      /\ \A s \in Figures : s # Statements[k] => g[s] = f[s]
  BY DEF Read
<1>2. CASE k = 1
  <2>1. Statements[k] = "bots" /\ Figured(k, R) = 1
    BY <1>2, StatementsAre DEF Figured
  <2> QED
    BY <1>1, <1>2, <2>1, FiguresAre
<1>3. CASE k = 2
  <2>1. Statements[k] = "total" /\ Figured(k, R) = Count("total", R)
    BY <1>3, StatementsAre DEF Figured
  <2> QED
    BY <1>1, <1>3, <2>1, FiguresAre
<1>4. CASE k = 3
  <2>1. Statements[k] = "outbound" /\ Figured(k, R) = Count("outbound", R)
    BY <1>4, StatementsAre DEF Figured
  <2> QED
    BY <1>1, <1>4, <2>1, FiguresAre
<1>5. CASE k = 4
  <2>1. Statements[k] = "inbound" /\ Figured(k, R) = Count("inbound", R)
    BY <1>5, StatementsAre DEF Figured
  <2> QED
    BY <1>1, <1>5, <2>1, FiguresAre
<1>6. CASE k = 5
  <2>1. Statements[k] = "tokens" /\ Figured(k, R) = Count("tokens", R)
    BY <1>6, StatementsAre DEF Figured
  <2> QED
    BY <1>1, <1>6, <2>1, FiguresAre
<1>7. CASE k = 6
  <2>1. Statements[k] = "ai" /\ Figured(k, R) = Count("ai", R)
    BY <1>7, StatementsAre DEF Figured
  <2> QED
    BY <1>1, <1>7, <2>1, FiguresAre
<1>8. CASE k = 7
  <2>1. Statements[k] = "agent" /\ Figured(k, R) = Count("agent", R)
    BY <1>8, StatementsAre DEF Figured
  <2> QED
    BY <1>1, <1>8, <2>1, FiguresAre
<1>9. CASE k = 8
  <2>1. Statements[k] = "recent" /\ Figured(k, R) = Cardinality(Charted(R))
    BY <1>9, StatementsAre DEF Figured
  <2> QED
    BY <1>1, <1>9, <2>1, FiguresAre
<1>10. CASE k = 9
  <2>1. Statements[k] = "types" /\ Figured(k, R) = Count("types", R)
    BY <1>10, StatementsAre DEF Figured
  <2> QED
    BY <1>1, <1>10, <2>1, FiguresAre
<1>11. CASE k = 10
  <2>1. Statements[k] = "topContacts" /\ Figured(k, R) = Count("topContacts", R)
    BY <1>11, StatementsAre DEF Figured
  <2> QED
    BY <1>1, <1>11, <2>1, FiguresAre
<1>12. CASE k = 11
  <2>1. Statements[k] = "topUsers" /\ Figured(k, R) = Count("topUsers", R)
    BY <1>12, StatementsAre DEF Figured
  <2> QED
    BY <1>1, <1>12, <2>1, FiguresAre
<1>13. CASE k = 12
  <2>1. Statements[k] = "topBots" /\ Figured(k, R) = Count("topBots", R)
    BY <1>13, StatementsAre DEF Figured
  <2> QED
    BY <1>1, <1>13, <2>1, FiguresAre
<1> QED
  BY <1>2, <1>3, <1>4, <1>5, <1>6, <1>7, <1>8, <1>9, <1>10, <1>11, <1>12, <1>13

LEMMA GrowingReads ==
    ASSUME rows \in Seq(LogRows), MarksInv, NEW R,
           NEW k \in 1 .. 12, NEW f \in [Figures -> Nat], NEW g, Read(k, f, g, R), Growing(k, f, R)
    PROVE  Growing(k + 1, g, R)
<1>1. /\ f["total"] \in Nat /\ f["outbound"] \in Nat /\ f["inbound"] \in Nat
      /\ f["types"] \in Nat /\ f["topContacts"] \in Nat
  BY FiguresAre
<1>2. PICK t \in Nat, o \in Nat, i \in Nat :
         /\ t = Count("total", R) /\ o = Count("outbound", R) /\ i = Count("inbound", R)
         /\ t = o + i /\ t = Count("types", R) /\ t = Count("topContacts", R)
  BY CountsAddUp
<1>3. /\ g["total"] = IF k = 2 THEN t ELSE f["total"]
      /\ g["outbound"] = IF k = 3 THEN o ELSE f["outbound"]
      /\ g["inbound"] = IF k = 4 THEN i ELSE f["inbound"]
      /\ g["types"] = IF k = 9 THEN t ELSE f["types"]
      /\ g["topContacts"] = IF k = 10 THEN t ELSE f["topContacts"]
  <2>1. /\ g["total"] = IF k = 2 THEN Count("total", R) ELSE f["total"]
        /\ g["outbound"] = IF k = 3 THEN Count("outbound", R) ELSE f["outbound"]
        /\ g["inbound"] = IF k = 4 THEN Count("inbound", R) ELSE f["inbound"]
        /\ g["types"] = IF k = 9 THEN Count("types", R) ELSE f["types"]
        /\ g["topContacts"] = IF k = 10 THEN Count("topContacts", R) ELSE f["topContacts"]
    BY OthersStay
  <2>2. /\ Count("total", R) = t /\ Count("outbound", R) = o /\ Count("inbound", R) = i
        /\ Count("types", R) = t /\ Count("topContacts", R) = t
    BY <1>2
  <2> QED
    BY <2>1, <2>2
<1>4. /\ k = 3 => f["total"] <= t
      /\ k = 4 => f["outbound"] <= o /\ f["total"] <= f["outbound"] + i
      /\ k >= 5 => f["total"] <= f["outbound"] + f["inbound"]
      /\ k \in 5 .. 9 => f["outbound"] + f["inbound"] <= t
      /\ k >= 10 => f["outbound"] + f["inbound"] <= f["types"]
      /\ k = 10 => f["types"] <= t
      /\ k >= 11 => f["types"] <= f["topContacts"]
  BY <1>2 DEF Growing
<1>5. /\ k + 1 = 3 => g["total"] <= t
      /\ k + 1 = 4 => g["outbound"] <= o /\ g["total"] <= g["outbound"] + i
      /\ k + 1 >= 5 => g["total"] <= g["outbound"] + g["inbound"]
      /\ k + 1 \in 5 .. 9 => g["outbound"] + g["inbound"] <= t
      /\ k + 1 >= 10 => g["outbound"] + g["inbound"] <= g["types"]
      /\ k + 1 = 10 => g["types"] <= t
      /\ k + 1 >= 11 => g["types"] <= g["topContacts"]
  <2>1. CASE k <= 2
    BY <1>1, <1>3, <1>4, <2>1
  <2>2. CASE k = 3
    BY <1>1, <1>2, <1>3, <1>4, <2>2
  <2>3. CASE k = 4
    BY <1>1, <1>2, <1>3, <1>4, <2>3
  <2>4. CASE k \in 5 .. 9
    BY <1>1, <1>3, <1>4, <2>4
  <2>5. CASE k >= 10
    BY <1>1, <1>3, <1>4, <2>5
  <2> QED
    BY <2>1, <2>2, <2>3, <2>4, <2>5
<1> QED
  BY <1>2, <1>5 DEF Growing

LEMMA ExactReads ==
    ASSUME NEW R, NEW k \in 1 .. 12, NEW f \in [Figures -> Nat], NEW g, Read(k, f, g, R),
           Exact(k, f, R)
    PROVE  Exact(k + 1, g, R)
  BY OthersStay DEF Exact

LEMMA BalancedReads ==
    ASSUME rows \in Seq(LogRows), MarksInv, NEW R,
           NEW k \in 1 .. 12, NEW f \in [Figures -> Nat], NEW g, Read(k, f, g, R), Exact(k, f, R)
    PROVE  Balanced(k + 1, g)
<1> SUFFICES ASSUME k = 12 PROVE Balanced(k + 1, g)
  BY DEF Balanced
<1>1. /\ g["total"] = Count("total", R) /\ g["outbound"] = Count("outbound", R)
      /\ g["inbound"] = Count("inbound", R) /\ g["tokens"] = Count("tokens", R)
      /\ g["ai"] = Count("ai", R) /\ g["agent"] = Count("agent", R)
      /\ g["topContacts"] = Count("topContacts", R) /\ g["topUsers"] = Count("topUsers", R)
      /\ g["topBots"] = Count("topBots", R)
  BY OthersStay DEF Exact
<1> QED
  BY <1>1, CountsAddUp DEF Balanced

LEMMA ChartingReads ==
    ASSUME rows \in Seq(LogRows), MarksInv, clock \in Nat,
           \A i \in RowIds : rows[i].at \in Nat /\ rows[i].at <= clock, NEW R \in Ranges,
           NEW k \in 1 .. 12, NEW f \in [Figures -> Nat], NEW g, Read(k, f, g, R),
           Exact(k, f, R), Charting(k, f, R)
    PROVE  Charting(k + 1, g, R)
<1>1. CASE k <= 7
  BY <1>1 DEF Charting
<1>2. CASE k = 8
  <2>1. g["total"] = Count("total", R) /\ g["recent"] = Cardinality(Charted(R))
    BY <1>2, OthersStay DEF Exact
  <2>2. CASE Count("total", R) <= Recent /\ R.zone = 0 /\ ~BeyondChart(R)
    BY <2>1, <2>2, ChartIsWhole DEF Charting
  <2>3. CASE ~ (Count("total", R) <= Recent)
    <3>1. Count("total", R) \in Nat
      BY CountsAddUp
    <3> QED
      BY <2>1, <2>3, <3>1, ReportAssumption DEF Charting
  <2>4. CASE R.zone # 0 \/ BeyondChart(R)
    BY <2>4 DEF Charting
  <2> QED
    BY <2>2, <2>3, <2>4
<1>3. CASE k >= 9
  <2>1. g["total"] = f["total"] /\ g["recent"] = f["recent"]
    BY <1>3, OthersStay
  <2> QED
    BY <1>3, <2>1 DEF Charting
<1> QED
  BY <1>1, <1>2, <1>3

-----------------------------------------------------------------------------
(* The whole                                                               *)

\* A plan gives each part what it may do.
LEMMA PlansBegin ==
  ASSUME ConsoleInit
  PROVE  /\ LibraryInit /\ asks \in Asks /\ SignInInit /\ wants \in SignInWants
         /\ PresenceInit /\ demands \in PresenceDemands
         /\ NamesInit /\ chores \in ChoreLists
         /\ MessageLogInit /\ agenda \in Agendas
  BY ConsoleAssumption DEF ConsoleInit

\* A step of the whole is a step of each part, or leaves it alone.
LEMMA StepsOfParts ==
  ASSUME [ConsoleNext]_consoleVars
  PROVE  /\ [LibraryNext \/ LibraryRestart]_libraryVars
         /\ [SignInNext \/ SignInRestart]_signInVars
         /\ [PresenceNext \/ PresenceRestart]_presenceVars
         /\ [NamesNext \/ NamesRestart]_namesVars
         /\ [MessageLogNext \/ MessageLogRestart]_logVars
<1>1. CASE Documenting
  BY <1>1 DEF Documenting
<1>2. CASE SigningIn
  BY <1>2 DEF SigningIn
<1>3. CASE Looking
  BY <1>3 DEF Looking
<1>4. CASE Naming
  BY <1>4 DEF Naming
<1>5. CASE Messaging
  BY <1>5 DEF Messaging
<1>6. CASE Reporting
  BY <1>6 DEF Reporting
<1>7. CASE Restart
  BY <1>7 DEF Restart
<1>8. CASE UNCHANGED consoleVars
  BY <1>8 DEF consoleVars
<1> QED
  BY <1>1, <1>2, <1>3, <1>4, <1>5, <1>6, <1>7, <1>8 DEF ConsoleNext

\* One process: documents, sign-ins, last-online calls, names and the log of messages
\* each behave as specified for themselves, though they share the process and its crashes.
THEOREM ConsoleImplementsParts ==
  ConsoleSpec => LibrarySpec /\ SignInSpec /\ PresenceSpec /\ NamesSpec /\ MessageLogSpec
<1>1. ConsoleInit =>
          /\ LibraryInit /\ asks \in Asks /\ SignInInit /\ wants \in SignInWants
          /\ PresenceInit /\ demands \in PresenceDemands
          /\ NamesInit /\ chores \in ChoreLists
          /\ MessageLogInit /\ agenda \in Agendas
  BY PlansBegin
<1>2. [ConsoleNext]_consoleVars =>
          /\ [LibraryNext \/ LibraryRestart]_libraryVars
          /\ [SignInNext \/ SignInRestart]_signInVars
          /\ [PresenceNext \/ PresenceRestart]_presenceVars
          /\ [NamesNext \/ NamesRestart]_namesVars
          /\ [MessageLogNext \/ MessageLogRestart]_logVars
  BY StepsOfParts
<1> QED
  BY <1>1, <1>2, PTL DEF ConsoleSpec, LibrarySpec, SignInSpec, PresenceSpec, NamesSpec,
     MessageLogSpec

-----------------------------------------------------------------------------
(* The report: its figures fit                                             *)

\* The invariant of the report.
FiguresInv ==
    /\ LogTypesInv /\ MarksInv /\ ReportInv
    /\ ranges \subseteq Ranges

LEMMA FiguresInit == ConsoleInit => FiguresInv
<1> SUFFICES ASSUME ConsoleInit PROVE FiguresInv
  OBVIOUS
<1>1. MessageLogInit /\ agenda \in Agendas /\ ranges \subseteq Ranges
  BY ConsoleAssumption DEF ConsoleInit
<1>2. LogTypesInv
  BY <1>1, LogTypesInit
<1>3. MarksInv
  BY <1>1 DEF MessageLogInit, MarksInv, RowIds
<1>4. ReportInv
  BY DEF ConsoleInit, ReportInit, ReportInv
<1> QED
  BY <1>1, <1>2, <1>3, <1>4 DEF FiguresInv

LEMMA FiguresAsked ==
    ASSUME FiguresInv, AskReport
    PROVE  ReportInv'
<1>1. PICK R \in Ranges : report' = [next |-> 1, range |-> R, quiet |-> TRUE,
                                     figures |-> [f \in Figures |-> 0]]
  BY DEF FiguresInv, AskReport
<1>2. PICK d : d = [next |-> 1, range |-> R, quiet |-> TRUE, figures |-> [f \in Figures |-> 0]]
  OBVIOUS
<1>3. d.next = 1 /\ report' = d
  BY <1>1, <1>2
<1>4. d \in Reports
  BY <1>2, StatementsAre DEF Reports
<1>5. /\ Growing(d.next, d.figures, d.range)' /\ Exact(d.next, d.figures, d.range)'
      /\ Balanced(d.next, d.figures)' /\ Charting(d.next, d.figures, d.range)'
  BY <1>3 DEF Growing, Exact, Balanced, Charting
<1> QED
  BY <1>3, <1>4, <1>5 DEF ReportInv

LEMMA FiguresRead ==
    ASSUME FiguresInv, ReadFigure, UNCHANGED <<rows, clock>>
    PROVE  ReportInv'
<1>1. PICK k, f, R, on : k = report.next /\ f = report.figures /\ R = report.range
                         /\ on = report.quiet
  OBVIOUS
<1>2. /\ report \in Reports /\ report # Nil
      /\ Growing(k, f, R) /\ (on => Exact(k, f, R) /\ Balanced(k, f) /\ Charting(k, f, R))
  BY <1>1 DEF FiguresInv, ReportInv, ReadFigure
<1>3. k \in 1 .. 12 /\ f \in [Figures -> Nat] /\ R \in Ranges /\ on \in BOOLEAN
  BY <1>1, <1>2, StatementsAre DEF Reports, ReadFigure
<1>4. /\ rows \in Seq(LogRows) /\ clock \in Nat /\ MarksInv
      /\ \A i \in RowIds : rows[i].at \in Nat /\ rows[i].at <= clock
  BY RowFields DEF FiguresInv, LogTypesInv, LogStateInv, OneRowInv, LogRows
<1>5. Figured(k, R) \in Nat
  <2>1. CASE k = 8
    <3>1. Charted(R) \in SUBSET Within(R)
      BY MatchingFinds DEF Charted, RecentRows
    <3> QED
      BY <1>4, <2>1, <3>1, FiniteRows DEF Figured
  <2>2. CASE k = 1
    BY <2>2 DEF Figured
  <2>3. CASE k \notin {1, 8}
    <3>1. Statements[k] \in {"total", "outbound", "inbound", "ai", "agent", "tokens", "recent",
                             "types", "topContacts", "topUsers", "topBots"}
      <4>1. k \in {2, 3, 4, 5, 6, 7, 9, 10, 11, 12}
        BY <1>3, <2>3
      <4> QED
        BY <4>1, StatementsAre
    <3>2. Count(Statements[k], R) \in Nat
      BY <1>4, <3>1, CountsAddUp
    <3> QED
      BY <2>3, <3>2 DEF Figured
  <2> QED
    BY <2>1, <2>2, <2>3
<1>6. PICK c \in Nat : c = Figured(k, R)
  BY <1>5
<1>7. report' = [report EXCEPT !.next = @ + 1, !.figures[Statements[k]] = c]
  <2>1. Figured(k, R) = IF Statements[k] = "recent" THEN Cardinality(Charted(R))
                        ELSE IF Statements[k] = "bots" THEN 1
                        ELSE Cardinality(Matching(Statements[k], R))
    <3>1. (k = 8 <=> Statements[k] = "recent") /\ (k = 1 <=> Statements[k] = "bots")
      <4>1. k \in {1, 2, 3, 4, 5, 6, 7, 8, 9, 10, 11, 12}
        BY <1>3
      <4> QED
        BY <4>1, StatementsAre
    <3> QED
      BY <3>1 DEF Figured, Count
  <2> QED
    BY <1>1, <1>6, <2>1 DEF ReadFigure
<1>8. PICK g : g = [f EXCEPT ![Statements[k]] = c]
  OBVIOUS
<1>9. Statements[k] \in Figures
  BY <1>3, StatementsAre DEF Figures
<1>10. Read(k, f, g, R)
  BY <1>3, <1>6, <1>8, <1>9 DEF Read
<1>11. PICK d : d = [report EXCEPT !.next = @ + 1, !.figures[Statements[k]] = c]
  OBVIOUS
<1>12. report' = d
  BY <1>7, <1>11
<1>13. d.next = k + 1 /\ d.figures = g /\ d.range = R /\ d.quiet = on /\ d \in Reports
  <2>1. g \in [Figures -> Nat]
    BY <1>10 DEF Read
  <2>2. d.next = k + 1 /\ d.figures = g /\ d.range = R /\ d.quiet = on
    BY <1>1, <1>2, <1>8, <1>11 DEF Reports
  <2>3. d = [next |-> k + 1, range |-> R, quiet |-> on, figures |-> g]
    BY <1>1, <1>2, <1>8, <1>11 DEF Reports
  <2> QED
    BY <1>3, <2>1, <2>2, <2>3, StatementsAre DEF Reports
<1>14. Growing(k + 1, g, R)
  BY <1>2, <1>3, <1>4, <1>10, GrowingReads
<1>15. on => Exact(k + 1, g, R) /\ Balanced(k + 1, g) /\ Charting(k + 1, g, R)
  <2> SUFFICES ASSUME on PROVE Exact(k + 1, g, R) /\ Balanced(k + 1, g) /\ Charting(k + 1, g, R)
    OBVIOUS
  <2>1. Exact(k, f, R) /\ Charting(k, f, R)
    BY <1>2
  <2>2. Exact(k + 1, g, R)
    BY <1>3, <1>10, <2>1, ExactReads
  <2>3. Balanced(k + 1, g)
    BY <1>3, <1>4, <1>10, <2>1, BalancedReads
  <2>4. Charting(k + 1, g, R)
    BY <1>3, <1>4, <1>10, <2>1, ChartingReads
  <2> QED
    BY <2>2, <2>3, <2>4
<1>16. \A s : Count(s, R)' = Count(s, R)
  BY CountsStay
<1>17. /\ Growing(k + 1, g, R)'
       /\ on => Exact(k + 1, g, R)' /\ Balanced(k + 1, g)' /\ Charting(k + 1, g, R)'
  <2>1. Growing(k + 1, g, R)'
    BY <1>14, <1>16 DEF Growing
  <2>2. on => Exact(k + 1, g, R)'
    BY <1>15, <1>16 DEF Exact
  <2>3. on => Balanced(k + 1, g)' /\ Charting(k + 1, g, R)'
    BY <1>15 DEF Balanced, Charting, BeyondChart
  <2> QED
    BY <2>1, <2>2, <2>3
<1> QED
  BY <1>12, <1>13, <1>17 DEF ReportInv

\* While messages are stored, or not, and time passes.
LEMMA FiguresWatch ==
    ASSUME FiguresInv, LogTypesInv', MarksInv', RowsLast, clock' \in Nat, clock <= clock',
           report' = report \/ (ReportWatches /\ report # Nil), UNCHANGED rows \/ ReportWatches
    PROVE  ReportInv'
<1>1. CASE report = Nil
  BY <1>1 DEF ReportInv
<1>2. CASE report # Nil
  <2>1. PICK k, f, R, on : k = report.next /\ f = report.figures /\ R = report.range
                           /\ on = report.quiet
    OBVIOUS
  <2>2. /\ report \in Reports
        /\ Growing(k, f, R) /\ (on => Exact(k, f, R) /\ Balanced(k, f) /\ Charting(k, f, R))
    BY <1>2, <2>1 DEF FiguresInv, ReportInv
  <2>3. k \in 1 .. 13 /\ f \in [Figures -> Nat] /\ R \in Ranges /\ on \in BOOLEAN
    BY <2>1, <2>2, StatementsAre DEF Reports
  <2>4. rows \in Seq(LogRows) /\ rows' \in Seq(LogRows) /\ clock \in Nat /\ MarksInv
    BY DEF FiguresInv, LogTypesInv, LogStateInv
  <2>5. Growing(k, f, R)'
    BY <2>2, <2>3, <2>4, GrowingStays
  <2>6. on => Balanced(k, f)' /\ Charting(k, f, R)'
    <3>1. Charting(k, f, R) => Charting(k, f, R)'
      BY <2>3, <2>4, ChartingStays
    <3> QED
      BY <2>2, <3>1 DEF Balanced
  <2>7. on /\ (UNCHANGED rows \/ k = 13) => Exact(k, f, R)'
    <3>1. CASE UNCHANGED rows
      <4>1. \A s : Count(s, R)' = Count(s, R)
        BY <3>1, CountsStay
      <4> QED
        BY <2>2, <4>1 DEF Exact
    <3>2. CASE k = 13
      BY <3>2 DEF Exact
    <3> QED
      BY <3>1, <3>2
  <2>8. PICK d : d = [report EXCEPT !.quiet = FALSE]
    OBVIOUS
  <2>9. /\ d \in Reports /\ d.next = k /\ d.figures = f /\ d.range = R /\ d.quiet = FALSE
    BY <2>1, <2>2, <2>8 DEF Reports
  <2>10. (report' = report /\ (UNCHANGED rows \/ k = 13)) \/ report' = d
    BY <1>2, <2>1, <2>3, <2>8, StatementsAre DEF ReportWatches
  <2>11. CASE report' = d
    <3>1. /\ report'.next = k /\ report'.figures = f /\ report'.range = R
          /\ report' \in Reports /\ ~ report'.quiet
      BY <2>9, <2>11
    <3> QED
      BY <2>5, <3>1 DEF ReportInv
  <2>12. CASE report' = report /\ (UNCHANGED rows \/ k = 13)
    BY <2>1, <2>2, <2>5, <2>6, <2>7, <2>12 DEF ReportInv
  <2> QED
    BY <2>10, <2>11, <2>12
<1> QED
  BY <1>1, <1>2

LEMMA FiguresStep ==
    ASSUME FiguresInv, [ConsoleNext]_consoleVars
    PROVE  FiguresInv'
<1>1. [MessageLogNext \/ MessageLogRestart]_logVars
  BY StepsOfParts
<1>2. /\ LogTypesInv' /\ MarksInv' /\ RowsLast /\ clock' \in Nat /\ clock <= clock'
  BY <1>1, LogTypesStep, MarksAreOwn, RowsDoLast, ClockGrows DEF FiguresInv
<1>3. CASE Messaging
  <2>1. ReportWatches
    BY <1>3 DEF Messaging
  <2>2. ReportInv'
    <3>1. CASE report = Nil
      BY <2>1, <3>1 DEF ReportInv, ReportWatches
    <3>2. CASE report # Nil
      BY <1>2, <2>1, <3>2, FiguresWatch
    <3> QED
      BY <3>1, <3>2
  <2>3. UNCHANGED ranges
    BY <2>1 DEF ReportWatches
  <2> QED
    BY <1>2, <2>2, <2>3 DEF FiguresInv
<1>4. CASE Reporting
  <2>1. ReportNext /\ UNCHANGED <<rows, clock>>
    BY <1>4 DEF Reporting, logVars, zaloVars
  <2>2. CASE AskReport
    BY <1>2, <2>2, FiguresAsked DEF AskReport, FiguresInv
  <2>3. CASE ReadFigure
    BY <1>2, <2>1, <2>3, FiguresRead DEF ReadFigure, FiguresInv
  <2>4. CASE EndReport
    BY <1>2, <2>4 DEF EndReport, FiguresInv, ReportInv
  <2> QED
    BY <2>1, <2>2, <2>3, <2>4 DEF ReportNext
<1>5. CASE Restart
  BY <1>2, <1>5 DEF Restart, FiguresInv, ReportInv
<1>6. CASE UNCHANGED <<logVars, reportVars>>
  <2>1. UNCHANGED rows /\ report' = report /\ ranges' = ranges
    BY <1>6 DEF logVars, reportVars
  <2>2. ReportInv'
    BY <1>2, <2>1, FiguresWatch
  <2> QED
    BY <1>2, <2>1, <2>2 DEF FiguresInv
<1>7. CASE Documenting \/ SigningIn \/ Looking \/ Naming \/ UNCHANGED consoleVars
  BY <1>6, <1>7 DEF Documenting, SigningIn, Looking, Naming, consoleVars
<1> QED
  BY <1>3, <1>4, <1>5, <1>7 DEF ConsoleNext

\* The figures of an answered report fit each other, whatever is stored while they are
\* read; of rows that stay as they are they are exact, but for the chart's limits.
THEOREM FiguresDoFit == ConsoleSpec => []ReportAgrees
<1>1. ConsoleInit => FiguresInv
  BY FiguresInit
<1>2. FiguresInv /\ [ConsoleNext]_consoleVars => FiguresInv'
  BY FiguresStep
<1>3. FiguresInv => ReportAgrees
  BY ReportAgreesBy DEF FiguresInv
<1> QED
  BY <1>1, <1>2, <1>3, PTL DEF ConsoleSpec

\* Each part of the whole, the report included, keeps its type.
THEOREM ConsoleTypeCorrect == ConsoleSpec => []ConsoleTypeOK
<1>1. ConsoleInit => FiguresInv
  BY FiguresInit
<1>2. FiguresInv /\ [ConsoleNext]_consoleVars => FiguresInv'
  BY FiguresStep
<1>3. FiguresInv => ReportTypeOK
  BY ReportAgreesBy DEF FiguresInv
<1>4. ConsoleSpec => []ReportTypeOK
  BY <1>1, <1>2, <1>3, PTL DEF ConsoleSpec
<1>5. ConsoleSpec => [](/\ LibraryTypeOK /\ SignInTypeOK /\ PresenceTypeOK /\ NamesTypeOK
                        /\ MessageLogTypeOK)
  BY ConsoleImplementsParts, LibraryTypeCorrect, SignInTypeCorrect, PresenceTypeCorrect,
     NamesTypeCorrect, LogTypeCorrect, PTL
<1>6. /\ LibraryTypeOK /\ SignInTypeOK /\ PresenceTypeOK /\ NamesTypeOK /\ MessageLogTypeOK
      /\ ReportTypeOK
      => ConsoleTypeOK
  BY DEF ConsoleTypeOK
<1> QED
  BY <1>4, <1>5, <1>6, PTL

-----------------------------------------------------------------------------
(* What the whole promises                                                 *)

\* The server as the console sees it keeps the promises of its parts: embedded
\* documents are found and quiet ones settled, texts are what the files hold, devices
\* keep their sessions, old tokens end, promises in the map are calls, aliases are
\* kept, the rows of an undisturbed message show what Zalo has, a listing misses no
\* row and no message of an imported history, and the figures of a report fit each
\* other.
THEOREM ConsoleKeepsPromises ==
  ConsoleSpec =>
      [](/\ EmbeddedIsFound /\ QuietIsSettled /\ TextReadable /\ SessionKept /\ OldTokensEnd
         /\ InflightMeansCall /\ NamesKept /\ LogAgrees /\ HistoryShown
         /\ PagesCover /\ ReportAgrees)
  BY ConsoleImplementsParts, EmbeddedDocumentsAreFound, QuietDocumentsAreSettled,
     TextsAreReadable, SessionIsKept, OldTokensDoEnd, PromisesAreCalls, NamesAreKept,
     LogDoesAgree, HistoryIsShown, PagesDoCover, FiguresDoFit, PTL

=============================================================================
