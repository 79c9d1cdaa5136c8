----------------------------- MODULE MessageLog -----------------------------
(***************************************************************************)
(* The log of a Zalo group: its rows, which the inbound queue (Inbound) and *)
(* the import of the group's history write; the reactions and recalls that  *)
(* listeners write onto them and push to the console; the pages in which    *)
(* the console reads them; and what it has Zalo do with a message.          *)
(*                                                                         *)
(* Zalo is outside of the repository: it has the messages, each with the    *)
(* time at which its client sent it, who reacted to it and whether it was    *)
(* recalled, and it tells of every change.  The time is also the message's   *)
(* client id, as for Zalo.  Rows are never deleted but with the group.      *)
(***************************************************************************)
EXTENDS Integers, FiniteSets, MessageKinds

CONSTANTS Messages,  \* messages of the group
          Own,       \* the ones that the account itself sent
          People,    \* who reacts, the account among them
          Me,
          Handlers,  \* events that the listeners handle at a time
          Window,    \* the two seconds of the search by time
          Take,      \* the size of a page
          Nil

\* What Zalo tells of, and what a handler holds of it.  A reaction has a number,
\* by which its history is told, and perhaps the message's id.
Reactions == [type : {"reaction"}, n : Nat, m : Messages, by : People, on : BOOLEAN,
              named : BOOLEAN]
Undos == [type : {"undo"}, n : Nat, m : Messages]
Handlings == [e : Reactions \cup Undos, row : Nat, by : SUBSET People, step : {"write", "push"}]

ASSUME MessageLogAssumption ==
    /\ Own \subseteq Messages /\ Me \in People /\ Window \in Nat /\ Take \in Nat \ {0}
    /\ Nil \notin Handlings /\ Nil \notin Nat

\* Bounds: the messages and their contents, what is done with them, and how often
\* time passes.
Agendas == [messages : SUBSET Messages, contents : SUBSET RawKinds, reactions : Nat,
            recalls : Nat, requests : Nat, listings : Nat, rewrites : Nat, ticks : Nat]

VARIABLES
    clock,
    sent,      \* of each message: when it was sent and its content, or Nil
    zalo,      \* of each message: who reacts to it, and is it recalled
    rows,      \* the rows in the order of their ids
    events,    \* events that no listener has looked up the message for
    handler,   \* what each handler is doing
    pushed,    \* of each message: the reactions that the console was last told
    reader,    \* a listing of the log, page by page, or Nil
    agenda,    \* what may still happen
    \* history
    serial,    \* how many events there were
    disturbed, \* messages whose reactions were written in disorder, onto another
               \* row, or not at all
    unmarked   \* messages whose recall was not written

zaloVars == <<clock, sent, zalo, events, serial>>
listenerVars == <<handler, pushed, disturbed, unmarked>>
logVars == <<zaloVars, rows, listenerVars, reader, agenda>>

RowIds == DOMAIN rows
Rows(m) == {i \in RowIds : rows[i].m = m}

MessageLogTypeOK ==
    /\ clock \in Nat /\ serial \in Nat
    /\ \A m \in Messages :
          /\ sent[m] # Nil => sent[m].at \in 0 .. clock /\ sent[m].content \in RawKinds
          /\ zalo[m].by \subseteq People /\ zalo[m].recalled \in BOOLEAN
          /\ pushed[m] = Nil \/ pushed[m] \subseteq People
          /\ Cardinality(Rows(m)) <= 1
    /\ \A i \in RowIds :
          /\ rows[i].m \in Messages /\ sent[rows[i].m] # Nil
          /\ rows[i].at \in 0 .. clock /\ rows[i].type \in Types
          /\ {rows[i].raw, rows[i].auto, rows[i].recalled} \subseteq BOOLEAN
          /\ rows[i].by \subseteq People
    /\ \A e \in events : e.n \in 1 .. serial /\ e.m \in Messages
    /\ \A h \in Handlers : handler[h] = Nil \/ handler[h].row \in RowIds
    /\ disturbed \subseteq Messages /\ unmarked \subseteq Messages

MessageLogInit ==
    /\ clock = 0 /\ serial = 0
    /\ sent = [m \in Messages |-> Nil]
    /\ zalo = [m \in Messages |-> [by |-> {}, recalled |-> FALSE]]
    /\ rows = <<>> /\ events = {}
    /\ handler = [h \in Handlers |-> Nil]
    /\ pushed = [m \in Messages |-> Nil]
    /\ reader = Nil
    /\ disturbed = {} /\ unmarked = {}

Spend(what) == agenda[what] > 0 /\ agenda' = [agenda EXCEPT ![what] = @ - 1]

-----------------------------------------------------------------------------
(* Zalo                                                                    *)

Tick ==
    /\ Spend("ticks")
    /\ clock' = clock + 1
    /\ UNCHANGED <<sent, zalo, events, serial, rows, listenerVars, reader>>

Send(m) ==
    /\ m \in agenda.messages
    /\ agenda' = [agenda EXCEPT !.messages = @ \ {m}]
    /\ \E content \in agenda.contents :
          sent' = [sent EXCEPT ![m] = [at |-> clock, content |-> content]]
    /\ UNCHANGED <<clock, zalo, events, serial, rows, listenerVars, reader>>

\* Somebody reacts or takes the reaction back.  The event of a reaction to a
\* message of the account may have "0" for the message's id.
Reacts(p, m) ==
    /\ zalo' = [zalo EXCEPT ![m].by = IF p \in @ THEN @ \ {p} ELSE @ \cup {p}]
    /\ serial' = serial + 1
    /\ \E named \in IF m \in Own THEN BOOLEAN ELSE {TRUE} :
          events' = events \cup {[type |-> "reaction", n |-> serial + 1, m |-> m, by |-> p,
                                  on |-> p \notin zalo[m].by, named |-> named]}

Recalls(m) ==
    /\ zalo' = [zalo EXCEPT ![m].recalled = TRUE]
    /\ serial' = serial + 1
    /\ events' = events \cup {[type |-> "undo", n |-> serial + 1, m |-> m]}

PeerReacts(p, m) ==
    /\ p # Me /\ sent[m] # Nil /\ Spend("reactions")
    /\ Reacts(p, m)
    /\ UNCHANGED <<clock, sent, rows, listenerVars, reader>>

PeerRecalls(m) ==
    /\ m \notin Own /\ sent[m] # Nil /\ ~zalo[m].recalled /\ Spend("recalls")
    /\ Recalls(m)
    /\ UNCHANGED <<clock, sent, rows, listenerVars, reader>>

-----------------------------------------------------------------------------
(* Rows                                                                    *)

Row(m, live, auto) ==
    [m |-> m, at |-> clock, raw |-> live, auto |-> auto, by |-> {}, recalled |-> FALSE,
     type |-> IF live THEN LiveType(sent[m].content) ELSE HistoryType(sent[m].content)]

\* Deviation: a message that is handled again is inserted again.
StoreAgain(m) ==
    /\ sent[m] # Nil
    /\ Rows(m) # {} => agenda.rewrites > 0
    /\ agenda' = IF Rows(m) = {} THEN agenda ELSE [agenda EXCEPT !.rewrites = @ - 1]
    /\ rows' = Append(rows, Row(m, TRUE, FALSE))
    /\ UNCHANGED <<zaloVars, listenerVars, reader>>

\* MessageRepository.upsertInbound from persistInbound, when the inbound queue gets
\* to the message.  A reply that was generated is marked if its pending count is
\* found; handling it again may find it no longer, or only then.
Store(m) ==
    /\ sent[m] # Nil
    /\ \E auto \in IF m \in Own THEN BOOLEAN ELSE {FALSE} :
          \/ /\ Rows(m) = {}
             /\ rows' = Append(rows, Row(m, TRUE, auto))
             /\ UNCHANGED agenda
          \/ /\ Spend("rewrites")
             /\ \E i \in Rows(m) : rows' = [rows EXCEPT ![i].auto = auto]
    /\ UNCHANGED <<zaloVars, listenerVars, reader>>

-----------------------------------------------------------------------------
(* ZaloReactionListener and ZaloUndoListener                               *)

\* findMessageByTimeRange: the earliest row inserted near the time at which the
\* message was sent.
NearestRow(m) ==
    LET near == {i \in RowIds : rows[i].at - sent[m].at \in -Window .. Window} IN
    IF near = {} THEN {}
    ELSE {CHOOSE i \in near : \A j \in near :
             rows[i].at < rows[j].at \/ (rows[i].at = rows[j].at /\ i <= j)}

\* The row that a listener takes for the event's message: by the id, and then a
\* reaction, but not a recall, by the time.
FoundRow(e) ==
    IF e.type = "undo" THEN Rows(e.m)
    ELSE IF e.named /\ Rows(e.m) # {} THEN Rows(e.m)
    ELSE NearestRow(e.m)

\* Out of order: an earlier event of the same person waits or is being handled.
Overtakes(e) ==
    /\ e.type = "reaction"
    /\ \/ \E f \in events : f.type = "reaction" /\ f.m = e.m /\ f.by = e.by /\ f.n < e.n
       \/ \E h \in Handlers :
             /\ handler[h] # Nil /\ handler[h].e.type = "reaction" /\ handler[h].step = "write"
             /\ handler[h].e.m = e.m /\ handler[h].e.by = e.by

\* handle, to the row that was read; without one it ends.
FindMessage(h, e) ==
    /\ handler[h] = Nil /\ e \in events
    /\ events' = events \ {e}
    /\ IF FoundRow(e) = {}
       THEN /\ disturbed' = IF e.type = "reaction" THEN disturbed \cup {e.m} ELSE disturbed
            /\ unmarked' = IF e.type = "undo" THEN unmarked \cup {e.m} ELSE unmarked
            /\ UNCHANGED handler
       ELSE \E i \in FoundRow(e) :
            /\ handler' = [handler EXCEPT ![h] =
                  [e |-> e, row |-> i, by |-> rows[i].by, step |-> "write"]]
            /\ disturbed' = disturbed \cup (IF rows[i].m # e.m THEN {e.m, rows[i].m} ELSE {})
                                      \cup (IF Overtakes(e) THEN {e.m} ELSE {})
            /\ UNCHANGED unmarked
    /\ UNCHANGED <<clock, sent, zalo, serial, rows, pushed, reader, agenda>>

\* Deviation: a reaction that was taken back stays.
LongerList(h) == handler[h].by \cup {handler[h].e.by}

\* The list as it was read, without the person's reaction and with the new one.
NewList(h) ==
    IF handler[h].e.on THEN handler[h].by \cup {handler[h].e.by}
    ELSE handler[h].by \ {handler[h].e.by}

\* updateMessageReactions puts the whole list; another's write in between is lost.
WriteReaction(h) ==
    /\ handler[h] # Nil /\ handler[h].step = "write" /\ handler[h].e.type = "reaction"
    /\ LET i == handler[h].row IN
       /\ rows' = [rows EXCEPT ![i].by = NewList(h)]
       /\ disturbed' = IF rows[i].by # handler[h].by THEN disturbed \cup {rows[i].m} ELSE disturbed
    /\ handler' = [handler EXCEPT ![h].step = "push", ![h].by = NewList(h)]
    /\ UNCHANGED <<zaloVars, pushed, unmarked, reader, agenda>>

\* message:reaction
PushReaction(h) ==
    /\ handler[h] # Nil /\ handler[h].step = "push"
    /\ LET i == handler[h].row IN
       /\ pushed' = [pushed EXCEPT ![rows[i].m] = handler[h].by]
       /\ disturbed' = IF rows[i].by # handler[h].by THEN disturbed \cup {rows[i].m} ELSE disturbed
    /\ handler' = [handler EXCEPT ![h] = Nil]
    /\ UNCHANGED <<zaloVars, rows, unmarked, reader, agenda>>

\* updateMessageRaw, and message:recalled.
WriteRecall(h) ==
    /\ handler[h] # Nil /\ handler[h].e.type = "undo"
    /\ rows' = [rows EXCEPT ![handler[h].row].recalled = TRUE]
    /\ handler' = [handler EXCEPT ![h] = Nil]
    /\ UNCHANGED <<zaloVars, pushed, disturbed, unmarked, reader, agenda>>

Missed(type, E) == {e.m : e \in {f \in E : f.type = type}}

\* A statement fails: the handler logs it and ends.
HandlerThrows(h) ==
    /\ handler[h] # Nil /\ handler[h].step = "write"
    /\ disturbed' = disturbed \cup Missed("reaction", {handler[h].e})
    /\ unmarked' = unmarked \cup Missed("undo", {handler[h].e})
    /\ handler' = [handler EXCEPT ![h] = Nil]
    /\ UNCHANGED <<zaloVars, rows, pushed, reader, agenda>>

-----------------------------------------------------------------------------
(* Requests of the console to Zalo                                         *)

\* addReaction and undo name a message of the account by its client id, which is
\* in the raw event; a row without it answers with its own time.
ClientId(m) ==
    IF m \in Own /\ Rows(m) # {}
    THEN LET row == rows[CHOOSE i \in Rows(m) : TRUE] IN
         IF row.raw THEN sent[m].at ELSE row.at
    ELSE Nil

\* addReaction: by the client id or else, also when the row cannot be read, by the
\* message's id; Zalo refuses what it does not know.
ConsoleReacts(m) ==
    /\ sent[m] # Nil /\ Spend("requests")
    /\ \E time \in {ClientId(m), Nil} :
          \E x \in IF time = Nil THEN {m} ELSE {y \in Own : sent[y] # Nil /\ sent[y].at = time} :
             Reacts(Me, x)
    /\ UNCHANGED <<clock, sent, rows, listenerVars, reader>>

\* undo gives the message's id as well; Zalo refuses a message that is not the
\* account's.
ConsoleRecalls(m) ==
    /\ m \in Own /\ sent[m] # Nil /\ ~zalo[m].recalled /\ Spend("requests")
    /\ Recalls(m)
    /\ UNCHANGED <<clock, sent, rows, listenerVars, reader>>

\* forwardMessage of a stored message to this group: its text is a new message of
\* the account.  To another thread it changes nothing here.
ConsoleForwards(m) ==
    /\ Rows(m) # {} /\ agenda.requests > 0
    /\ \E x \in Own \cap agenda.messages :
          /\ sent' = [sent EXCEPT ![x] = [at |-> clock, content |-> "string"]]
          /\ agenda' = [agenda EXCEPT !.requests = @ - 1, !.messages = @ \ {x}]
    /\ UNCHANGED <<clock, zalo, events, serial, rows, listenerVars, reader>>

-----------------------------------------------------------------------------
(* MessageService.listByConversation                                       *)

Listing == reader # Nil /\ reader.step # "done"

\* The console opens the group or asks for the page before the ones it has.
Opens ==
    /\ ~Listing /\ Spend("listings")
    /\ reader' = [step |-> "page", cursor |-> Nil, got |-> <<>>, before |-> {}, todo |-> {},
                  listed |-> {}]
    /\ UNCHANGED <<zaloVars, rows, listenerVars>>

\* findManyPaged, findManyPagedWithCursor: one row more than the page has tells
\* whether there is another page.
Older(cursor) == {i \in RowIds : cursor = Nil \/ i < cursor}
Newest(S, n) == {i \in S : Cardinality({j \in S : j > i}) < n}
Descending(S) ==
    [n \in 1 .. Cardinality(S) |-> CHOOSE i \in S : Cardinality({j \in S : j > i}) = n - 1]

\* Deviation: the cursor is the row that only told of another page.
ReadsPagePast(cursor) ==
    LET found == Newest(Older(cursor), Take + 1)
        more  == Cardinality(found) > Take
    IN reader' = [reader EXCEPT
                    !.got = @ \o Descending(Newest(found, Take)),
                    !.before = IF cursor = Nil THEN RowIds ELSE @,
                    !.cursor = IF more THEN Last(Descending(found)) ELSE Nil,
                    !.step = IF more THEN "page" ELSE "done"]

\* The slice of the page and its nextCursor.
ReadsPage(cursor) ==
    LET found == Newest(Older(cursor), Take + 1)
        items == Newest(found, Take)
        more  == Cardinality(found) > Take
    IN reader' = [reader EXCEPT
                    !.got = @ \o Descending(items),
                    !.before = IF cursor = Nil THEN RowIds ELSE @,
                    !.cursor = IF more THEN Last(Descending(items)) ELSE Nil,
                    !.step = IF more THEN "page" ELSE "done"]

ListPage ==
    /\ reader # Nil /\ reader.step = "page"
    /\ IF reader.cursor = Nil /\ rows = <<>>
       THEN reader' = [reader EXCEPT !.step = "history"]
       ELSE ReadsPage(reader.cursor)
    /\ UNCHANGED <<zaloVars, rows, listenerVars, agenda>>

\* An empty group: getGroupChatHistory, which tells of some messages, or finds no
\* API object, fails, or knows of none; then the page is empty.
FetchHistory ==
    /\ reader # Nil /\ reader.step = "history"
    /\ \/ \E some \in (SUBSET {m \in Messages : sent[m] # Nil}) \ {{}} :
             reader' = [reader EXCEPT !.step = "import", !.todo = some, !.listed = some]
       \/ reader' = [reader EXCEPT !.step = "done"]
    /\ UNCHANGED <<zaloVars, rows, listenerVars, agenda>>

\* upsertInbound for each message, in whatever order Zalo lists them, without raw,
\* tokens or the mark of a generated reply; a row that is there is left alone.
ImportMessage(m) ==
    /\ reader # Nil /\ reader.step = "import" /\ m \in reader.todo
    /\ rows' = IF Rows(m) = {} THEN Append(rows, Row(m, FALSE, FALSE)) ELSE rows
    /\ reader' = [reader EXCEPT !.todo = @ \ {m}]
    /\ UNCHANGED <<zaloVars, listenerVars, agenda>>

\* Deviation: the page is read while the messages are being stored.
EndImportAtOnce ==
    /\ reader # Nil /\ reader.step = "import"
    /\ \/ ReadsPage(Nil)
       \/ reader' = [reader EXCEPT !.step = "done", !.listed = {}]
    /\ UNCHANGED <<zaloVars, rows, listenerVars, agenda>>

\* The page is read again; or that or an upsert failed, and the page is empty.
EndImport ==
    /\ reader # Nil /\ reader.step = "import"
    /\ \/ reader.todo = {} /\ ReadsPage(Nil)
       \/ reader' = [reader EXCEPT !.step = "done", !.listed = {}]
    /\ UNCHANGED <<zaloVars, rows, listenerVars, agenda>>

-----------------------------------------------------------------------------
\* The process is killed and started: handlers and the events that come while it
\* is down are lost, and the listing fails.
MessageLogRestart ==
    LET under == events \cup {handler[h].e : h \in {k \in Handlers : handler[k] # Nil}} IN
    /\ events' = {} /\ handler' = [h \in Handlers |-> Nil]
    /\ disturbed' = disturbed \cup Missed("reaction", under)
    /\ unmarked' = unmarked \cup Missed("undo", under)
    /\ reader' = Nil
    /\ UNCHANGED <<clock, sent, zalo, serial, rows, pushed, agenda>>

MessageLogNext ==
    \/ Tick \/ Opens \/ ListPage \/ FetchHistory \/ EndImport
    \/ \E m \in Messages :
          \/ Send(m) \/ Store(m) \/ PeerRecalls(m) \/ ImportMessage(m)
          \/ ConsoleReacts(m) \/ ConsoleRecalls(m) \/ ConsoleForwards(m)
          \/ \E p \in People : PeerReacts(p, m)
    \/ \E h \in Handlers :
          \/ WriteReaction(h) \/ PushReaction(h) \/ WriteRecall(h) \/ HandlerThrows(h)
          \/ \E e \in events : FindMessage(h, e)

MessageLogSpec ==
    /\ MessageLogInit /\ agenda \in Agendas
    /\ [][MessageLogNext \/ MessageLogRestart]_logVars

-----------------------------------------------------------------------------
(* Properties                                                              *)

Waits(m, type) ==
    \/ \E e \in events : e.m = m /\ e.type = type
    \/ \E h \in Handlers :
          handler[h] # Nil /\ handler[h].e.type = type /\ m \in {handler[h].e.m, rows[handler[h].row].m}

\* Each message has one row, whether it came live or with the history, of the type
\* that the normalizer's table gives it.  Once the events of the message are
\* handled, the row shows who reacts to it and whether it was recalled, as Zalo
\* does, and the console was last told the same: unless a reaction was written in
\* disorder or onto a row of about the same time, or an event came before the row,
\* or its handler was stopped.
LogAgrees ==
    \A i \in RowIds :
        LET m == rows[i].m IN
        /\ m \notin disturbed /\ ~Waits(m, "reaction") =>
              /\ rows[i].by = zalo[m].by
              /\ pushed[m] \in {Nil, rows[i].by}
        /\ m \notin unmarked /\ ~Waits(m, "undo") => rows[i].recalled = zalo[m].recalled
        /\ sent[m].content \in DOMAIN Documented => rows[i].type = Documented[sent[m].content]

\* A console that follows the cursors gets every row that the log had when it was
\* opened, each once and the newest first, while others are inserted.
PagesCover ==
    reader # Nil =>
        /\ \A a, b \in DOMAIN reader.got : a < b => reader.got[a] > reader.got[b]
        /\ reader.step = "done" => reader.before \subseteq ToSet(reader.got)

\* A console that opened an empty group, whose history was then imported to its
\* end, and that follows the cursors, is shown every message that Zalo told of,
\* whether the import or the inbound queue stored it, though others are stored in
\* between.
HistoryShown ==
    reader # Nil /\ reader.step = "done" =>
        \A m \in reader.listed : Rows(m) \cap ToSet(reader.got) # {}

=============================================================================
