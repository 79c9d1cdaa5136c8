------------------------------ MODULE AutoReply ------------------------------
(***************************************************************************)
(* Automatic replies in one conversation: the events that MessageHandler   *)
(* emits, BotResponseService.onMessageReceived running concurrently for    *)
(* each of them, the Redis limiter it asks, the history and the rolling    *)
(* summary that it gives the language model.                               *)
(*                                                                         *)
(* A message is its position in the conversation (createdAt order) and a   *)
(* summary is the set of the positions that went into it, {} being no      *)
(* summary: the language model is taken to forget nothing it was told, so  *)
(* what is missing from a summary is what the code left out.  The summary  *)
(* lives in conversation.metadata, which every inbound message reads and   *)
(* writes back as well.  An event is one execution of MessageHandler; how  *)
(* messages come to be executed is the matter of module Inbound.           *)
(***************************************************************************)
EXTENDS Naturals, FiniteSets

CONSTANTS Events,   \* messages handled: executions of MessageHandler.handle
          Kind,     \* Kind[e]: "self", "media", "plain" or "mention"
          Group,    \* TRUE for a group thread
          History,  \* CONVERSATION_HISTORY_LIMIT (40)
          Recent,   \* CONVERSATION_RECENT_LIMIT (15)
          Trigger,  \* CONVERSATION_SUMMARY_TRIGGER_LIMIT (10)
          RateMax   \* REPLY_RATE_MAX (5)

ASSUME AutoReplyAssumption ==
    /\ Kind \in [Events -> {"self", "media", "plain", "mention"}]
    /\ Group \in BOOLEAN
    /\ History \in Nat \ {0} /\ Recent \in Nat \ {0} /\ Trigger \in Nat \ {0}
    /\ RateMax \in Nat \ {0}

VARIABLES
    botOn,    \* bot.status is active and bot.autoReplyEnabled
    chatOn,   \* conversation.autoReplyEnabled
    summary,  \* conversation.metadata.summary
    rows,     \* messages stored in the conversation
    count,    \* ratelimit:reply:<conversation>; 0 when the key does not exist
    stage,    \* stage[e]: where the handling of e stands
    on,       \* on[e]: what e's copies of the bot and the conversation say
    meta,     \* meta[e]: the summary in the metadata that e writes back
    place,    \* place[e]: position of e's message, 0 before it is stored
    seen,     \* seen[e]: position of the last message of e's history
    used,     \* used[e]: the local summary of generateReply
    \* history
    late,     \* late[e]: rows when e read the summary
    windows,  \* limiter windows opened
    replied   \* events a reply was published for

settings == <<botOn, chatOn>>
limiter == <<count, windows>>
locals == <<on, meta, place, seen, used, late>>
vars == <<settings, summary, rows, limiter, stage, locals, replied>>

Stages == {"new", "metadata", "upsert", "store", "limit",
           "retrieve", "summary", "fold", "chat", "done"}

TypeOK ==
    /\ botOn \in BOOLEAN /\ chatOn \in BOOLEAN
    /\ rows \in Nat
    /\ summary \in SUBSET (1 .. rows)
    /\ count \in Nat /\ windows \in Nat
    /\ stage \in [Events -> Stages]
    /\ on \in [Events -> BOOLEAN]
    /\ meta \in [Events -> SUBSET (1 .. rows)]
    /\ place \in [Events -> 0 .. rows]
    /\ seen \in [Events -> 0 .. rows]
    /\ used \in [Events -> SUBSET (1 .. rows)]
    /\ late \in [Events -> 0 .. rows]
    /\ replied \in SUBSET Events

Init ==
    /\ botOn = TRUE /\ chatOn = TRUE
    /\ rows = 0
    /\ summary = {}
    /\ count = 0 /\ windows = 0
    /\ stage = [e \in Events |-> "new"]
    /\ on = [e \in Events |-> FALSE]
    /\ meta = [e \in Events |-> {}]
    /\ place = [e \in Events |-> 0]
    /\ seen = [e \in Events |-> 0]
    /\ used = [e \in Events |-> {}]
    /\ late = [e \in Events |-> 0]
    /\ replied = {}

Moves(e, from, to) == stage[e] = from /\ stage' = [stage EXCEPT ![e] = to]

\* The handling of e is over, its local variables are gone.
Ends(e) ==
    /\ stage' = [stage EXCEPT ![e] = "done"]
    /\ on' = [on EXCEPT ![e] = FALSE]
    /\ meta' = [meta EXCEPT ![e] = {}]
    /\ place' = [place EXCEPT ![e] = 0]
    /\ seen' = [seen EXCEPT ![e] = 0]
    /\ used' = [used EXCEPT ![e] = {}]
    /\ late' = [late EXCEPT ![e] = 0]

-----------------------------------------------------------------------------
(* MessageHandler.handle                                                   *)

\* upsertFromInbound: the bot's row is read, before the profile lookups.
ReadBot(e) ==
    /\ Moves(e, "new", "metadata")
    /\ on' = [on EXCEPT ![e] = botOn]
    /\ UNCHANGED <<settings, summary, rows, limiter, meta, place, seen, used, late, replied>>

\* upsertConversationFromInbound: findUnique of the metadata ...
ReadMetadata(e) ==
    /\ Moves(e, "metadata", "upsert")
    /\ meta' = [meta EXCEPT ![e] = summary]
    /\ UNCHANGED <<settings, summary, rows, limiter, on, place, seen, used, late, replied>>

\* ... and the upsert, which puts back the metadata that was read and returns
\* the row.
UpsertConversation(e) ==
    /\ Moves(e, "upsert", "store")
    /\ summary' = meta[e]
    /\ on' = [on EXCEPT ![e] = @ /\ chatOn]
    /\ meta' = [meta EXCEPT ![e] = {}]
    /\ UNCHANGED <<settings, rows, limiter, place, seen, used, late, replied>>

\* ReplyPolicyService.shouldConsider: a text of a peer, and in a group one
\* that mentions the bot.
ShouldConsider(e) == Kind[e] \in IF Group THEN {"mention"} ELSE {"plain", "mention"}

\* Deviation: the event is emitted while the insert is still under way.
StoreNotAwaited(e) ==
    /\ stage[e] = "store" /\ on[e] /\ ShouldConsider(e)
    /\ Moves(e, "store", "limit")
    /\ place' = [place EXCEPT ![e] = rows + 1]
    /\ UNCHANGED <<settings, summary, rows, limiter, on, meta, seen, used, late, replied>>

\* The message is stored and message.received emitted; onMessageReceived goes
\* on if the bot, the conversation and the policy let it.
StoreAndEmit(e) ==
    /\ stage[e] = "store"
    /\ rows' = rows + 1
    /\ \/ /\ on[e] /\ ShouldConsider(e)
          /\ Moves(e, "store", "limit")
          /\ place' = [place EXCEPT ![e] = rows + 1]
          /\ UNCHANGED <<on, meta, seen, used, late>>
       \/ ~(on[e] /\ ShouldConsider(e)) /\ Ends(e)
    /\ UNCHANGED <<settings, summary, limiter, replied>>

-----------------------------------------------------------------------------
(* BotResponseService.onMessageReceived                                    *)

\* Deviation: the limiter compares the count before it adds one.
AdmitOneMore(e) ==
    /\ stage[e] = "limit"
    /\ count' = count + 1
    /\ windows' = IF count = 0 THEN windows + 1 ELSE windows
    /\ \/ count <= RateMax /\ Moves(e, "limit", "retrieve") /\ UNCHANGED locals
       \/ count > RateMax /\ Ends(e)
    /\ UNCHANGED <<settings, summary, rows, replied>>

\* checkRateLimit: INCR, and EXPIRE when that made the key.
CheckRateLimit(e) ==
    /\ stage[e] = "limit"
    /\ count' = count + 1
    /\ windows' = IF count = 0 THEN windows + 1 ELSE windows
    /\ \/ count < RateMax /\ Moves(e, "limit", "retrieve") /\ UNCHANGED locals
       \/ count >= RateMax /\ Ends(e)
    /\ UNCHANGED <<settings, summary, rows, replied>>

\* Outside the active hours a fallback reply is published, if there is one.
OutOfHours(e) ==
    /\ stage[e] = "retrieve"
    /\ Ends(e)
    /\ replied' \in {replied, replied \cup {e}}
    /\ UNCHANGED <<settings, summary, rows, limiter>>

-----------------------------------------------------------------------------
(* BotResponseService.generateReply                                        *)

\* The history that ends with message n: its first message, all of it, the
\* recent messages and the older ones; message n is the "current" message.
First(n) == IF n <= History THEN 1 ELSE n - History + 1
Window(n) == First(n) .. n
RecentMessages(n) == {i \in First(n) .. n : i < n /\ n <= i + Recent}
OlderMessages(n) == {i \in First(n) .. n : i + Recent < n}

\* There are at least Trigger older messages.
FoldsOlder(n) == First(n) + Trigger + Recent <= n

\* Deviation: the history misses its last message.
HistoryTooShort(e) ==
    /\ rows > 0
    /\ Moves(e, "retrieve", "summary")
    /\ seen' = [seen EXCEPT ![e] = rows - 1]
    /\ UNCHANGED <<settings, summary, rows, limiter, on, meta, place, used, late, replied>>

\* The retrieval has answered or timed out; lastN of the messages.  With no
\* message there is no reply.
ReadHistory(e) ==
    /\ rows > 0
    /\ Moves(e, "retrieve", "summary")
    /\ seen' = [seen EXCEPT ![e] = rows]
    /\ UNCHANGED <<settings, summary, rows, limiter, on, meta, place, used, late, replied>>

\* getSummary; enough older messages make generateReply update it.
ReadSummary(e) ==
    /\ Moves(e, "summary", IF FoldsOlder(seen[e]) THEN "fold" ELSE "chat")
    /\ used' = [used EXCEPT ![e] = summary]
    /\ late' = [late EXCEPT ![e] = rows]
    /\ UNCHANGED <<settings, summary, rows, limiter, on, meta, place, seen, replied>>

\* updateRollingSummary: the model's answer and the write of the metadata.
UpdateRollingSummary(e) ==
    LET folded == used[e] \cup OlderMessages(seen[e]) \cup RecentMessages(seen[e]) IN
    /\ Moves(e, "fold", "chat")
    /\ used' = [used EXCEPT ![e] = folded]
    /\ summary' = folded
    /\ UNCHANGED <<settings, rows, limiter, on, meta, place, seen, late, replied>>

\* Deviation: the recent messages are all that is ever sent.
RecentOnly(e) == used[e] \cup RecentMessages(seen[e]) \cup {seen[e]}

\* What the model is told of the conversation: the whole history, or the
\* summary and the recent messages, and the current message.
Context(e) ==
    IF used[e] = {} THEN Window(seen[e])
                    ELSE used[e] \cup RecentMessages(seen[e]) \cup {seen[e]}

\* The model answers and publishOutbound takes the reply.
Reply(e) ==
    /\ stage[e] = "chat"
    /\ replied' = replied \cup {e}
    /\ Ends(e)
    /\ UNCHANGED <<settings, summary, rows, limiter>>

\* handle() or onMessageReceived() ends without a reply: an await rejects, the
\* process dies, there is no system prompt or the model answers nothing.
GiveUp(e) ==
    /\ stage[e] \notin {"new", "done"}
    /\ Ends(e)
    /\ UNCHANGED <<settings, summary, rows, limiter, replied>>

-----------------------------------------------------------------------------
\* The user switches automatic replies on or off, for the bot or for the
\* conversation; the bot expires or is logged in again.
SwitchAutoReply ==
    /\ \/ botOn' = ~botOn /\ UNCHANGED chatOn
       \/ chatOn' = ~chatOn /\ UNCHANGED botOn
    /\ UNCHANGED <<summary, rows, limiter, stage, locals, replied>>

\* REPLY_RATE_WINDOW_SEC after the key was made, Redis drops it.
WindowExpires ==
    /\ count > 0
    /\ count' = 0
    /\ UNCHANGED <<settings, summary, rows, windows, stage, locals, replied>>

Handle(e) ==
    \/ ReadBot(e) \/ ReadMetadata(e) \/ UpsertConversation(e) \/ StoreAndEmit(e)
    \/ CheckRateLimit(e) \/ OutOfHours(e)
    \/ ReadHistory(e) \/ ReadSummary(e) \/ UpdateRollingSummary(e) \/ Reply(e)
    \/ GiveUp(e)

Next == (\E e \in Events : Handle(e)) \/ SwitchAutoReply \/ WindowExpires

Spec == Init /\ [][Next]_vars

-----------------------------------------------------------------------------
\* So many messages were stored between e's reads of the history and of the
\* summary that the summary may come from a history that begins later.
Overtaken(e) == seen[e] + History < late[e] + Recent + Trigger

\* No message falls between the summary and the recent messages: whatever
\* concurrent replies and inbound messages do to the summary, the model is
\* told of every message of the history that generateReply has read.
ContextComplete ==
    \A e \in Events :
        stage[e] = "chat" => Overtaken(e) \/ Window(seen[e]) \subseteq Context(e)

\* The model is told of the message it is to answer, unless History messages
\* came after it.
TriggerInContext ==
    \A e \in Events :
        stage[e] = "chat" =>
            \/ Overtaken(e)
            \/ place[e] + History <= seen[e]
            \/ place[e] \in Context(e)

\* However replies overlap with the windows of the limiter, there are never
\* more of them than RateMax for each window opened.
RepliesWithinWindows == Cardinality(replied) <= RateMax * windows

=============================================================================
