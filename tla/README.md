# Verification of the chat engine

TLA+ models of the message engine in `src/src` (NestJS, Prisma/PostgreSQL, Redis,
BullMQ, zca-js), the TLC runs that check them on small instances and the theorems
that TLAPS proves about them for every value of the constants. Paths below are
relative to `src/src`.

## 1. Inventory

The server connects accounts ("bots") of a customer to Zalo, stores what is
received, lets people answer it, and answers by itself with a language model.

| Component | State it keeps | Operations | Correct if |
| --- | --- | --- | --- |
| Outbound queue (`messaging/outbound.processor.ts`, `messaging.publisher.ts`) | BullMQ jobs, `lock:send:*` in Redis | publish, fetch, lock, send, release, retry, stall | one send per thread at a time, no message sent twice without a fault, every message settled |
| Inbound queue and persistence (`messaging/inbound.processor.ts`, `message.handler.ts`, `conversations/message.service.ts`, `conversation.service.ts`, repositories) | BullMQ jobs with ids derived from the message, rows of conversations, participants and messages, `pending_tokens:*` | deliver, handle (upserts, tokens, insert, event), markRead | events follow rows, one event per message, unread counters right, own replies recognised |
| Automatic replies (`bot/bot-response.service.ts`, `messaging/reply-policy.service.ts`) | rolling summary in the conversation's metadata, `ratelimit:reply:*` | onMessageReceived, generateReply, updateRollingSummary | the model is told of every message of the history, the limit holds |
| Zalo sessions (`channels/zalo/zalo.adapter.ts`, `zalo-listeners.orchestrator.ts`, `zalo.module.ts`) | bot row and status, BotSession row, registry of API objects, attached callbacks | QR login, restore, logout, close, deletion | row, session, API object and callbacks agree |
| Contacts (`contacts/*`, `zalo-friend.listener.ts`, `syncFriends`) | Contact and FriendRequest rows, the name of each contact | friend events, accept, decline, remove, sync, aliases, opening a chat | rows agree with Zalo, an alias outlives syncs, and the chat bears it |
| Conversations, groups, participants (`conversations/conversation.service.ts`, `zalo-group.listener.ts`, `zalo-userchat.listener.ts`, `syncGroups`) | conversation rows with a JSON metadata object, participants | listing with refresh from Zalo, group administration, pins, group events | no writer loses another's keys, members agree with Zalo |
| Reactions, undo, typing (`channels/zalo/listeners`) | JSON list of reactions, recall in the row's raw event | events of the channel, calls of the API | row, console and Zalo agree on who reacts and what is recalled |
| Message history, forwarding (`conversations/conversations.controller.ts`, `message.service.ts`, `zalo-zca.service.ts`) | – | listing by pages, import of a group's history, forward, react, undo | pages cover the log, the history that was imported is shown |
| Documents and embedding (`rag/document.service.ts`, `embed.processor.ts`, `loaders/*`) | Document row with status, chunks, BullMQ jobs | ingest of a text, a file, a URL; delete, reembed, process | a document said to be embedded is found; every document is settled; a file is read as what it is |
| Retrieval and model (`rag/retrieval.service.ts`, `llm/llm.service.ts`) | none | calls of external services | answers in time or not at all |
| Bots (`bot/bot.service.ts`, `bot/repositories/bot.repository.ts`) | settings | update, delete, analytics | the figures of a report fit each other |
| Quotas (`quota/quota.service.ts`) | counters | none is called | – |
| Authentication (`auth/auth.service.ts`) | refresh tokens | login, refresh, logout | a device keeps its session, and old tokens end |
| Realtime gateway (`realtime/*`, `getLastOnline`) | socket rooms, a map of promises, a cache in Redis | connections, last-online queries, forwarding of domain events | everybody who asks is answered, and no answer outlives its cache |
| Telegram, HTTP layer, configuration, health | none of interest | – | – |

How they interact. A Zalo listener normalises a message and publishes it to the
inbound queue; a worker runs `MessageHandler.handle`, which upserts the
conversation and the participant, inserts the message and emits
`message.received`. The event reaches `BotResponseService`, outside of any job,
and the realtime gateway. A generated reply, like a message of the HTTP API, goes
to the outbound queue, whose worker takes a Redis lock for the thread and calls
`ZaloAdapter.send`. The outbound worker stores nothing: Zalo sends the
account's own message back to the listener, and this echo is stored by the inbound
path, where a hash of its text in `pending_tokens:*` marks it as a generated
reply. Friend, group, reaction and undo events bypass the queues and are
handled concurrently, as they come. At the console, requests write rows of
documents and enqueue jobs for the embedding worker, lists of messages are read in
pages and imported from Zalo if there are none, and one report reads the rows
that all others write. All of it lives in one process and dies with it.

What is hard:

- *Interleaving.* Ten inbound and five outbound slots, concurrent event
  handlers and HTTP requests, with reads and writes of one row in separate
  statements and hardly any transaction.
- *Failure.* BullMQ runs a stalled job again while the first run may still be
  going; the answer of a send or of a token refresh is lost; `handle()` stops between two
  writes; a process restarts between the writes of a login, or after a
  document's row and before its job.
- *Time.* The TTL of the send lock is not renewed; a limiter's window and
  cached tokens expire; jobs are delayed and retried.
- *Order.* Contention and retries delay a job that later ones overtake; friend
  events wait for a profile before they write; a reaction comes before the row of
  its message.
- *Stale state.* Copies of metadata, of switches, of lists of reactions and of Zalo's
  lists are used after awaits; callbacks keep the bot id they were attached with; a finished
  promise stays in the map of calls under way.

`PROJECT.json` lists 40 such hazards at their lines, each with the properties
that would catch it going wrong, or with the reason why there is none.

## 2. Modules

| Module | Models | Lines of interest |
| --- | --- | --- |
| `OutboundDelivery` | the promise to callers of `publishOutbound`: settled once, completed only once sent, a bounded number of copies | – |
| `Outbound` | the queue, its worker slots, the send lock, the channel's send | `OutboundProcessor.process`, `RedisService.acquireLock`/`releaseLock`, `publishOutbound`, `ZaloAdapter.send` |
| `Inbound` | the queue with its job ids, `handle()` statement by statement, unread counters, pending tokens | `publishInbound`, `MessageHandler.handle`, `upsertFromInbound`, `upsertInbound`, `markRead` |
| `AutoReply` | `handle()` as far as metadata is concerned, then `onMessageReceived` and `generateReply`, for concurrent messages of one conversation | `bot-response.service.ts`, `shouldConsider`, `RATE_LIMIT_LUA` |
| `ZaloSession` | one account's row, session, API object and callbacks | `startLogin`, `restore`, `logout`, `attach`, `handleClosed3003`, `onApplicationBootstrap` |
| `Contacts` | one account's friends and requests, on Zalo's side and in the database | `ZaloFriendListener`, `ContactsService`, `syncFriends` |
| `GroupChat` | one group's members, deputies and pins on Zalo's side, its participant rows and metadata | `ZaloGroupListener`, `listParticipants`, `getById`, `promoteDeputy`, `demoteDeputy`, `removeMember`, `setSummary` |
| `Loaders` | what is read of a file, a URL or a Google link, or why it is refused: operators | `FileLoaderService`, `DocumentLoaderService`, `GoogleDocsLoaderService` |
| `Library` | documents, their chunks, the embedding queue and its worker | `DocumentService`, `EmbedProcessor.process`, `replaceChunks` |
| `SignIn` | one device and its refresh tokens | `AuthService.login`, `refresh`, `logout` |
| `Presence` | sockets, and the queries of when a contact was online | `RealtimeGateway`, `getLastOnline` |
| `Names` | what one friend is called, in the contact, the chat and its participant | `changeFriendAlias`, `removeFriendAlias`, `getOrCreateConversation`, `resolveUserProfile`, `syncFriends`, `handleFriendAdd` |
| `MessageKinds` | the types of messages: operators | `ZaloNormalizer`, `MessageService.resolveMessageType` |
| `MessageLog` | a group's rows, reactions, recalls, pages, imported history, requests to Zalo | `ZaloReactionListener`, `ZaloUndoListener`, `listByConversation`, `addReaction`, `undo`, `forwardMessage` |
| `Report` | the figures of the bots, read statement by statement; extends `MessageLog` | `BotRepository.getAnalytics` |
| `Console` | the composition of `Library`, `SignIn`, `Presence`, `Names`, `MessageLog` and `Report` in one process | – |
| `MC*` | instances for TLC: constants, symmetry, views | – |
| `*Proofs` | theorems and their inductive invariants | – |

Conventions. One action stands for what the code does between two awaits that
matter: a statement of the database, a Redis command, a call of the channel. An
operation named `Deviation:` in a comment is a plausible mistake in the code that
is not part of `Next`; it shows that a property can fail. Variables under
`\* history` are read by no guard. External parties (Zalo, the user, expiry, crashes)
are actions without a line in `src`.

### Outbound

`state`, `waiting`, `attempts`, `started` and `stalls` are BullMQ's view of the
jobs; `run`, `pc` are the slots; `lock[t]` is `lock:send:...` with its owner. `Fetch`
takes the next job, `AcquireLock` and `Locked` are the two outcomes of
`SET NX PX`, `ChannelAccepts` is the moment at which Zalo takes the message,
`SendReturns` and `SendThrows` end the await, `ReleaseLock` is the finally
block, `Finish` reports to the queue. Either Redis command may be rejected, before or after
it took effect (`AcquireFails`, `ReleaseFails`): a lock that was taken all the same stays until its TTL,
and a release that is rejected makes a failed attempt of a message that was sent, which is then sent
again. `faulted` remembers the executions of an accepted message whose answer was lost or whose
release was rejected. `Stall` is BullMQ's stall check, `Crash` a slot
that dies without its finally block. A stalled job's first run goes on: executions
are numbered, and the queue ignores the result of an old one. Payloads, the limiter (it
only delays `Fetch`) and `markExpired` are left out; no adapter throws
`ChannelExpiredError`, so that branch is never taken.

### Inbound

`Deliver` is `publishInbound` with BullMQ's rule that an id that is still known
is not added again; `KeepCompleted` and `KeepFailed` stand for 1000 and 5000, after
which an id is forgotten. `UpsertConversation`, `UpsertParticipant`,
`ReadPendingTokens`, `DropPendingTokens`, `PersistMessage` and `Emit` are the awaits
of `handle()`; `HandleThrows` is an error in any of them, `MarkRead` and
`CacheReplyTokens` run in between. Titles, avatars and previews are left out.

### AutoReply

A message is its position in the order of `createdAt`; a summary is the set of
positions that went into it, so that the language model is taken to keep what it is told
and whatever is missing was left out by the code. `ReadMetadata` and
`UpsertConversation` write back the metadata of before, which may revert a summary.
Rejected awaits, a crash, a missing prompt and an empty answer are `GiveUp`; the
timeout of the retrieval changes nothing but the prompt and is part of `ReadHistory`.

### ZaloSession

A login, its cookie and its API object have one name; the API object of the
restore in run r of the process is called r. `phase` distinguishes bootstrapping from
serving, because the HTTP server listens only after `onApplicationBootstrap`. `holds[l]`
is the bot id a login works with, `bound[a]` the one in the callbacks of
an API object. `Closed3003` and `MarkExpired` are the two halves of
`handleClosed3003`; other close codes do nothing but stop the listener. A row comes from a login
(`UpsertBot`) or from `POST /bots` (`CreateBot`), which gives it the status "inactive" and attaches
nothing: such a row is not restored at the next start, and while an API object or a login of a deleted
row lives on, its callbacks name that one (`remade`, until a login or a restart).
`InstanceAgrees` excepts this for the callbacks; the session and the rows of logins are held to it.

### Contacts

`rel` is Zalo's truth, changed by the peer, by the user's phone or by a call, and each
change sends one event if a listener is connected. Handlers wait for a profile before
they write, so pending events are taken in any order. A sync's fetched lists, the rows it
chose to delete and the upserts it started are its local state; the upserts of a
`Promise.all` go on when one of them is rejected. Without an API object the
wrapper's calls answer null and the service goes on as if Zalo had agreed
(`CallOffline`). Names and aliases are in `Names`; blocking (which changes no row) and the chat
notices of friend events, but for that of a new friend, are left out.

### GroupChat

`group` is the group as Zalo has it, `participants` the rows, `meta` the keys of the
metadata that the properties tell apart. Each handler or request is a member of
`tasks` with the copy of the metadata it read and what Zalo answered; its `stage` is the
await it stands before. `Writes` is the update of the whole object; `missed` records
which keys others wrote since the copy was read, which is what the write takes back.
`sound` records what an answer of Zalo is still true of. `astray` collects
the persons and keys about which something overlapped or was lost, and loses those that
an undisturbed refresh, sync or write has put right. A failed `getPinnedMessages` is
answered with no pins and a failed `getGroupMembersInfo` leaves no members, so that the
sync erases the pins and the refresh every row: both are modelled (`FetchPins`,
`FetchProfiles`) and count as astray. `BeginRewrite` stands for all writers of keys that are left
out, syncs of the group list and changes of settings among them.

### Library and Loaders

A `Source` is what an ingest starts from. `Loaders!Load` says what becomes of it:
`ResolveKind` asks, in the code's order, for the extension and the content type,
`CheckAccess` and `FetchText` are the two fetches of a Google link. `Ingest` is one of
the three `ingest*` methods up to the row, `Enqueue` and `EnqueueFails` the second half of
`create` and `reembed`. `slot[s]` is a run of `process`: `FindDocument`, `Embed`, the two
statements of `replaceChunks` (`DeleteChunks`, `InsertChunks`: under READ COMMITTED the
first removes the chunks that it sees, so that two transactions can both leave theirs),
`SetStatus`, `Announce`; `Throws` goes to the catch block, `FailureLost` is a rejected update
there, and `RowGone` what a deletion does to a run. The look-up of the row stands before the try
block: when it is rejected (`FindRejected`) the job has failed for good, the row keeps its status and
nobody is told, which `astray` remembers. Jobs have no attempts, but the
stall check may run one again while its first run goes on. BullMQ 5 refuses a job id
that holds one colon, as `embed:<id>` does; whether a refusal is of this or another
cause, `EnqueueFails` is what it does.

### SignIn

A token is a number, in the order of creation, and `held` the device's.
`FindToken`, `CreateToken` and `DeleteToken` are the statements of `refresh`, of which
`login` and `logout` have one each. `StatementFails` is an error in any: `refresh`
swallows that of its deletion. `Answer` and `AnswerLost` are what becomes of the
response. `adrift` collects tokens that nobody will delete and why, `spent` tokens that
were consumed by a request whose answer did not arrive. The device refreshes with the
token it holds and ends its session when it is refused; this part is external.

### Presence

`question[q]` is the await in which a query of `getLastOnline` stands, `inflight` what
`lastOnlineInflight` has for the contact: nothing, the stage of a call, or a value that was
resolved already. `ShareOrCall` is the turn without an await that looks it up and
calls. Without an API object the function returns before its try block, so that the promise
is never taken out of the map (`unready`): the model keeps this, the property excepts it.

### Names

One friend, who is in no group: `contact`, `title` and `member` are the names in their three
rows, `person` is Zalo's, whose display name may be the person's own or the alias.
`errand[e]` is a request, an inbound job or an event's handler that is under way, with what it
read and the names it looked up so far. Each statement is an action: `ReadContact`, `CallZalo`,
`SaveAlias`, `RestoreName`, `FindChat`, `SaveTitle` of the two alias requests; `Resolve` (the
contact first, then the participant, then Zalo by way of the cached profile), `UpsertChat` and
`UpsertMember` of a message; `OpenChat`; `FetchFriend`, `ReadForSync`, `SyncContact`;
`ReadProfile`, `AddContact`, `AnnounceFriend`. `ErrandFails` is a rejected await. Contacts are
numbered, because removing an alias updates the row it read by id. `lost` and `behind`
remember the writes that the two properties except: a sync that cannot see that a name is an alias
(there is no `zaloName`, or it is the same, or its copy is old), a friend who is added again; and,
for the title, everything that ran beside what wrote it, and renamings of the contact alone. A
page that is out of date may open a chat under an older name, which counts as such.

### MessageLog, MessageKinds and Report

Rows are numbered by their ids, which the database hands out in ascending order. `Store` is the insert of the
inbound path (its statements are in `Inbound`), `ImportMessage` that of the history.
`FindMessage` is a listener up to the row it reads: by the message's id and else, for
reactions, by a window of time around the client id, so that another message's row may be
taken. `WriteReaction` puts the list as it was read with the change, `PushReaction` tells the
console. `ListPage`, `FetchHistory`, `ImportMessage`, `EndImport` are `listByConversation`;
`reader.before` remembers the rows that were there when it was opened, `reader.listed` the messages
of the history that Zalo told of, some of those it has. A failing upsert ends the import with an empty
page and leaves the rows it made. `ConsoleReacts`, `ConsoleRecalls`, `ConsoleForwards` are the
requests to Zalo: a reaction names the message by a time (`ClientId`), which may be that of another
message; a forwarded text comes back as a new message of the account. `disturbed` and `unmarked` collect the messages whose events were
handled in disorder, written to another row, or lost.

`Report` reads one figure at a time, in the order of the code's statements (those of
one `Promise.all` too: any order would only matter for rows that change, which the
inequalities allow for), while messages come in; `quiet` remembers whether none did.
`ChartDays` and `Charted` are the chart, in quarters of a day. Counts of contacts, titles and reply
times are left out.

### Console

`ConsoleNext` is a step of one part while the others stand still, or a `Restart` of
all. `ConsoleInit` picks a plan: what users, Zalo and fate may do in the behaviour.

## 3. Runs

| Run | Module, instance | Shows |
| --- | --- | --- |
| `outbound_safety` | `Outbound`; 2 slots, 1 thread, 2 jobs, 2 attempts, 1 stall | types; `LockExclusion`: two sends to a thread overlap only when a send has outlived the lock's TTL; `ResendNeedsFault`: a message is sent again only after a lost answer, a rejected release of the lock or a stall; `DeliverySpec`: the queue implements `OutboundDelivery` |
| `outbound_liveness` | the same under fairness | `Settled`: every message completes or fails; `LockFreed`: no thread is locked for good |
| `outbound_order` | 2 slots, 2 threads, 3 jobs | counterexample to `SentInOrder` |
| `inbound_safety` | `Inbound`; 2 slots, a peer's message and an own echo, 1 stall | types; `StoredBeforeAnnounced`; `UnreadAgrees`: the counter neither hides nor invents messages, but for messages in flight while the conversation is read, errors and re-runs |
| `inbound_delivery` | 1 slot, 2 deliveries of each message, fairness | `AnnouncedOncePerRun`, `AutoReplyHasSource`, `AnnouncedOrFailed` |
| `inbound_redelivery` | 2 deliveries, no stalls | counterexample to `RedeliveryIsNoOp` |
| `autoreply` | `AutoReply`; a group, 2 mentions among 5 messages, history 4, recent 1, trigger 2, limit 1 | types; `ContextComplete` and `TriggerInContext` unless more messages overtook the reply than the windows hold; `RepliesWithinWindows` |
| `zalo_session` | `ZaloSession`; 3 logins, 2 restarts, `POST /bots` while fewer than 2 rows were made | types; `StatusAgrees`, `InstanceAgrees` (stored session and row are those of the connection), `LoggedOutStaysOut`, each with the races that are excepted named in it |
| `zalo_logout` | 2 logins, 1 restart | counterexample to `LogoutCloses` |
| `contacts` | `Contacts`; 1 person, 2 calls, 2 syncs, 3 changes | types; `FriendsAgree`, `RequestsAgree`: the rows are as Zalo's lists, but for persons about whom steps overlapped or something was lost |
| `group_chat` | `GroupChat`; a group of 2 persons, 1 message to pin, 2 changes, 3 tasks | types; `MembersAgree`, `MetadataAgrees` (deputies and pins), `SummaryKept`, but for what is on its way, overlapped or was lost |
| `console` | `Console`; 23 plans, see below | `ConsoleTypeOK`; of documents `EmbeddedIsFound`, `QuietIsSettled`, `TextReadable` and, under fairness, `Settles`; of tokens `SessionKept`, `OldTokensEnd`; of queries `InflightMeansCall`; of names `NamesKept`; of the log `LogAgrees`, `PagesCover`, `HistoryShown`; of figures `ReportAgrees` |

### Why the bounds are enough

- *Outbound.* Threads share nothing but slots, so one thread with two slots shows
  all contention; two jobs are needed for it and two attempts for a retry after
  it. `MaxStalls` is BullMQ's default of 1. `outbound_order` has three
  attempts and two threads, as the counterexample should not depend on the
  smaller numbers. The theorems hold for every number of each.
- *Inbound.* One peer message and one echo of a reply meet in every statement of
  `handle()`; the same message delivered twice and a queue that remembers one id show
  what happens before and after an id is forgotten.
- *AutoReply.* The limits are small so that all cases of `generateReply`
  occur: history longer than recent and trigger, a summary that exists or not, a
  reply overtaken by others. With `Overtaken` dropped `ContextComplete` fails, so the
  exception is needed; with the configured limits (40, 15, 10) it takes more
  than 15 messages between two adjacent reads.
- *ZaloSession.* A race needs two logins, a third follows it after a restart; two
  restarts allow a restore that follows a restore. `MaxRows` bounds the rows of `POST /bots`: with 2
  one is made from nothing and one after a deletion, beside the API object of the deleted row.
- *Contacts.* Persons share no row, and a call, an event and a sync name one
  person each or treat all alike. Two calls and two syncs overlap with each other and with
  three changes: to ask, to become a friend, to be removed. Two persons with
  one call and one sync were checked as well.
- *GroupChat.* Three tasks are a writer, another whose key it takes back, and the event
  or refresh that meets them; two changes reverse each other (to leave and to come back, to pin and
  to unpin). Two persons are needed for two promotions that meet in `adminIds`. `MCInit` starts
  with everybody in the group and nothing pinned; all initial groups of one person with
  three changes were checked as well.

- *Console.* The parts share the process and, of the log and the report, the rows; so each
  plan of `MCConsole` exercises one part, or the log with the report, and most have no
  restart. All plans are initial states of the one run.
  - *Documents*: two documents, one of them blank, with a deletion; one with a new
    embedding and a deletion; one with a new embedding, a blocked event loop (a stall of a
    run that goes on) and a restart; and an upload or link of every kind there is. Two slots
    and two jobs of one document overlap; `MaxStalls` is BullMQ's 1. No step of a run
    reads another document's row.
  - *Sign-in*: four requests by two at a time, which is a login, two refreshes of one token,
    and what follows; with an error, a lost answer, an expiry and a restart.
  - *Presence*: two sockets, three questions of which two at a time, two changes of the
    account, a lapse of the cache, an error and a restart: enough for a promise that is
    shared, one that is left behind, and one that is asked for after each.
  - *Names*: two names, two errands at a time. Two aliases with two syncs and a change of the own
    name; an alias, a sync and a message, or an opened chat; a friend who is removed and added
    again beside an alias or a message; an alias and a message with an error and a restart. An
    alias that is lost needs one overlapping errand, a title that lags behind one more to see it.
  - *Messages*: two handlers; contents of every kind; one message with three reactions (two that
    overlap, and one that could put it right); two messages within the window of time
    with a reaction; three rows read by pages of one while they are inserted or imported; requests
    about rows that came live or with the history; a restart between event and write.
  - *Report*: three rows of which the chart takes two; ranges that start in the middle of
    a day, of 32 and of more days, of a single instant, open at either end; a clock a
    quarter of a day ahead of UTC.

Symmetry is used in runs of invariants and of `DeliverySpec`, in which the permuted
values occur alike; never with liveness. The views of `outbound_liveness` and
`inbound_delivery` drop history that no guard and none of the run's properties reads.
Deadlock is not checked: all inputs are bounded and the system may
come to rest.

### Fairness

`FairSpec` of `Outbound` and `Inbound` assumes that a slot that can fetch or go on does so
(one event loop, awaits that end by an answer or by a time limit of the library
or the TCP connection), that BullMQ's timers for delays and stalls run, and that
Redis expires keys. Publishing, crashing, errors, and which way a send ends are
not fair. The slot of a crashed process is fair again because the process is
restarted.

`LibraryFairness`, which `ConsoleSpec` includes, assumes the same of documents: a
request that wrote a row goes on to enqueue or fails, each slot that can take a step does,
the stall check runs. Every await of `process` has a client with a time limit. Nothing is assumed of users,
of which way a step ends, or of the restart.

### What the counterexamples say

- `outbound_order`: `docs/bullmq.md:81` says the lock keeps the order of a
  conversation's messages. Two slots take two messages in their order and ask for the free lock at
  the same time; `SET NX` gives it to whoever comes first, and the later message is sent first.
- `inbound_redelivery`: the comment at `conversations/message.service.ts:29` says the
  upsert of a message delivered again is a no-op. It rewrites `isAutoReply` and
  `tokens`, and the pending tokens of a generated reply are gone by then.
- `zalo_logout`: `channel-adapter.interface.ts:98` says logout closes the listener.
  The registry's key is the uid and `logout` deletes the bot's id.

### Disagreements without a run

- `docs/bullmq.md:52` and `:109` say that failed inbound and embedding jobs are retried.
  Neither `publishInbound` nor `enqueue` sets attempts, and BullMQ's default is one:
  in the models a failure is final, and the properties allow for it.
- The status of a document is sent to the room of the bot's id
  (`realtime/realtime.listener.ts:66`), which no socket joins; the model's
  `told` is the event, not its arrival.
- A content type with parameters (`text/html; charset=utf-8`) misses the equality tests of
  `resolveKind`, so that a page without a file name is indexed with its markup; and a public
  Google document that has the words "sign in" is refused as private. Both are in `Loaders`.

## 4. Theorems

Each theorem is `Spec => []P` for all constants that satisfy the named assumption
of the module (`OutboundAssumption`, ...), which TLC evaluates in every run. The proofs
state an inductive invariant, prove `Init => Inv` and `Inv /\ [Next]_vars => Inv'` with a
step for each action, and `Inv => P`.

| Module | Theorem | Property |
| --- | --- | --- |
| `OutboundProofs` | `TypeCorrect` | `TypeOK` |
| | `MutualExclusion` | `LockExclusion` |
| | `NoResendWithoutFault` | `ResendNeedsFault` |
| | `Implements` | `DeliverySpec` (refinement of `OutboundDelivery`) |
| `InboundProofs` | `TypeCorrect` | `TypeOK` |
| | `RowsBeforeEvents` | `StoredBeforeAnnounced` |
| | `NoSecondEventWithoutRerun` | `AnnouncedOncePerRun` |
| | `MarkedRepliesWereGenerated` | `AutoReplyHasSource` |
| | `UnreadIsRight` | `UnreadAgrees` |
| `AutoReplyProofs` | `TypeCorrect` | `TypeOK` |
| | `NoGapInContext` | `ContextComplete` |
| | `TriggerAnswered` | `TriggerInContext` |
| | `RepliesBounded` | `RepliesWithinWindows` |
| `ZaloSessionProofs` | `TypeCorrect` | `TypeOK` (with `PhaseInv`) |
| | `StatusIsOfInstance` | `StatusAgrees`, from `ActiveHasInstance` and `ExpiredHasNoInstance` |
| | `InstanceDoesAgree` | `InstanceAgrees`, from `SessionIsOfInstance` and `CallbacksReachBot` |
| | `LogoutOutlivesRestart` | `LoggedOutStaysOut` |
| `ContactsProofs` | `TypeCorrect` | `TypeOK` |
| | `FriendsDoAgree` | `FriendsAgree` |
| | `RequestsDoAgree` | `RequestsAgree` |
| `GroupChatProofs` | `GroupChatTypeCorrect` | `TypeOK` |
| | `RowsFollowTheGroup` | `MembersAgree` |
| | `KeysFollowTheGroup` | `MetadataAgrees` |
| | `SummaryStays` | `SummaryKept` |
| `PartsProofs` | `LibraryTypeCorrect` | `LibraryTypeOK` |
| | `EmbeddedDocumentsAreFound` | `EmbeddedIsFound` |
| | `QuietDocumentsAreSettled` | `QuietIsSettled` |
| | `TextsAreReadable` | `TextReadable` |
| | `SignInTypeCorrect` | `SignInTypeOK` |
| | `SessionIsKept` | `SessionKept` |
| | `OldTokensDoEnd` | `OldTokensEnd` |
| | `PresenceTypeCorrect` | `PresenceTypeOK` |
| | `PromisesAreCalls` | `InflightMeansCall` |
| | `NamesTypeCorrect` | `NamesTypeOK` |
| | `NamesAreKept` | `NamesKept` |
| `ConsoleProofs` | `LogTypeCorrect` | `MessageLogTypeOK` |
| | `LogDoesAgree` | `LogAgrees` |
| | `HistoryIsShown` | `HistoryShown` |
| | `PagesDoCover` | `PagesCover` |
| | `FiguresDoFit` | `ReportAgrees`, of `ConsoleSpec` |
| | `ConsoleTypeCorrect` | `ConsoleTypeOK`, of `ConsoleSpec` |
| | `ConsoleImplementsParts` | `ConsoleSpec` implies `LibrarySpec`, `SignInSpec`, `PresenceSpec`, `NamesSpec`, `MessageLogSpec` |
| | `ConsoleKeepsPromises` | the safety properties of all parts, of `ConsoleSpec` |

Every invariant and every action property of the passing runs, and the refinement of
`OutboundDelivery`, is the statement of one of these theorems. Beyond the sorts and sizes of
the constants the assumptions say only that what stands for null or nothing (`None`, `Nil`,
`Idle`, `Free`) is none of the values it stands beside, and that the names of different
sorts of things differ.

Why the invariants are what they are:

- *Outbound.* `LockExclusion` alone is not inductive: the proof needs that a slot in its
  critical section whose lock has not lapsed is the owner of the key (`OwnerInv`), and
  that no two slots run the same numbered execution (`RunInv`, with `QueueInv` for the wait
  list). `SendInv` says by a slot's progress whether its message was accepted,
  `AcceptedInv` that an accepted message whose answer arrived belongs to the job's
  last execution, `BudgetInv` that every execution ended in a failed attempt, a stall or
  the completion; from these follow `ResendNeedsFault` and the bound on copies.
  `CompletedInv` carries the refinement's `Complete`.
- *Inbound.* `RunInv` says which rows an execution has written by where it stands;
  `EmittedInv` that an event has its rows; `CountInv` that every execution but the
  first was paid for by a re-run; `FinishedInv` that the queue remembers each finished job once.
  `EchoInv` says that the pending tokens, every copy of them and every marked row go back to a
  reply whose tokens were cached. `UnreadInv` compares the counter with `Counted(c)`, the
  messages that were counted since the last reading: never less, and the same while
  all messages of the conversation are sound, that is, went through `handle()` without
  an error or a re-run. The step is a lemma on a set that gains or loses one element.
- *AutoReply.* `SummaryInv`: the summary, and each copy about to be written back, is
  none or covers a history that was long enough to be folded. `KnowsInv`: when the
  prompt is built the reply's summary holds its history but for the last
  message, or the history was too short to be folded and the summary is one that
  `SummaryInv` allows; completeness is then arithmetic on the limits. `RepliesBounded` counts admitted
  replies against windows (`QuotaInv`) with the library's facts on cardinality.
- *ZaloSession.* For each property an invariant says what holds while
  something is under way. `ActiveInv`: an active bot without an API object has a login or a
  close in progress, or was not finished. `ExpiredInv`: an expired bot with an API
  object, or about to have one, is a known discord. `OverlapInv` and `SessionInv`:
  a login finds the session as it saved it or cleared, unless it
  overlapped. `BoundInv`: a login, and the callbacks in use, hold the present row's id.
  `LogoutInv`: after a logout there is no session and nothing left to register after
  a restart. All rest on `PhaseInv`, which says what is in memory in each phase.

- *Library.* `EmbeddedIsFound` needs that a run about to write "embedded" has put chunks in place,
  or finds a row that is gone (`PlacedInv`), which needs that the status a run will write is told
  by its stage (`StageInv`). `QuietIsSettled` is about documents that are not astray: whose runs
  were alone (`AloneInv`), so that what a run found is what it replaced and one set of chunks
  is left (`ChunkInv`), and whose status was announced unless something that will announce
  one is still to come (`ComingInv`, with the case of a run that announces what is no longer so
  because a request reset the row: then a job is to come). `UploadInv` says that of a document
  not yet uploaded there is nothing, which the creation relies on.
- *SignIn.* `CallInv` says of each request what its step implies for its old and its new
  token, `NewInv` that a new token is stored and nobody else's. With these, the two
  properties are inductive.
- *Presence.* `InflightMeansCall` is inductive as it stands, given the types.
- *Names.* The alias needs only the types: a sync that keeps a name is one whose copy is the row. The
  title needs `ErrandsInv`: an errand is alone only while no other is busy (`Busy = {e}`), and
  then the name it holds is the contact's (`Agrees`): what a look-up found, what an alias saved; and
  that its kind and step tell what sort of name it is (`Carries`). `TitleInv` is the property
  while errands are under way: a title may lag if somebody is about to write it (`HalfWritten`).
  `TextReadable` is by cases of the kinds of files, once for what is read at the upload.
- *Contacts.* Most of the proof is about who is not astray (`SteadyInv`): at most one event about
  them is under way and it tells what they are now (`EventsFit`); what Zalo answered to a call
  is still so (`CallsFit`); every sync that runs knows them as they are (`SyncFits`); and the rows
  are right but for what that event will write (`RowsFit`). The property follows when nothing
  is under way. `SoundInv` is what lets a person cease to be astray: how far the one sync
  that can vouch for them has come, with nothing else under way about them. `CleanInv` carries
  the second half of `FriendsAgree`, which a sync does not restore, and `IdsInv` says that the
  row a decline or an event deletes by its id is that person's and not a later one.
- *GroupChat.* `CopyInv`: a task's copy of the metadata is the metadata but for the
  keys in `missed`; so a write of the whole object takes back those keys and no other.
  `AdminsInv` and `PinsInv`: a key that is not astray is the group's, up to the rank or the
  handlers that are on their way, and an answer of Zalo that counts as sound is the group's.
  `RowsInv` says the same of each participant's row, with what each task will do to it
  (`Right`) and with the refresh that vouches for the person (`Vouches`). All depend on
  what sort of task stands where (`TasksInv`).
- *MessageLog.* A message that is not disturbed has, for each person, the reaction of Zalo in its
  row, or else the last event under way tells it (`LevelInv`); what a handler is about to write came
  before the events that wait (`FirstCome`), and no other handler writes about the two. A handler
  that holds another message's row disturbed both (`HeldInv`): that the row it chose exists rests on
  the order of the naturals being well-founded. `ToldInv` gives the same of what the
  console was told, `RecallInv` says where an unmarked recall still is. `HistoryShown` needs
  that each message of the history was in the log when the page was read again (`HistoryInv`, with
  `RowsLast`: rows are not taken away), so that it is in `before`, which the pages cover.
- *Pages.* `PagesInv`: what a listing has got falls, and holds every row of before that is
  not older than the cursor. The step needs what `Newest` and `Descending` are: with a row
  every newer one is in, all rows when they are fewer, and a descending enumeration exists. That is
  proved without induction, from the number of newer rows (`Ranks`), which maps a finite set of ids
  one to one to an interval.
- *Report.* `ReportInv` is by how far the report is: what was counted is no more than what will be
  counted (`Growing`), as rows are only added; of rows that stayed, each figure is what
  its statement finds (`Exact`), and at the end the equalities hold (`Balanced`), because what the
  statements find partitions the range (`CountsAddUp`; `MarksInv` says that a marked row is
  the account's own). `ChartIsWhole` is the arithmetic of days; a chart once
  complete stays so for the property while the clock goes on (`Charting`).
- *Console.* A step of the whole is a step of one part and a stutter of the others, and a restart
  is a restart of each; so the parts' theorems carry over. The report has no specification of
  its own: its invariant is that of the log and its own, over the steps of the whole.

Only model-checked:

- the liveness properties `Settled`, `LockFreed`, `AnnouncedOrFailed` and `Settles`, for fairness and
  ENABLED are out of the prover's reach;
- the counterexamples of the runs that expect a violation.

## 5. Not modelled, and why

- Payloads: texts, quotes, previews, emoji, prompts, scores, chunk sizes. No property depends on
  them; of a message's content its kind is modelled, of a file its format.
- HTTP controllers but for those whose requests are actions, validation, Swagger, health,
  configuration, error formatting: no history.
- Telegram: a login hands out an id, and registering a bot throws.
- Quotas: `consumeRequest`, `assertCanAttachDocuments`, `attachDocuments` and `getDetailed` have no caller in
  the repository, so no counter is ever checked or raised.
- Retrieval, embedding service, language model, Firebase: external, their outcomes are choices.
- The gateway's forwarding of other events keeps nothing.
- Avatars, owners and settings, the names of group members, and the metadata of direct chats,
  which the chat listener writes in the way of the group listener. Two of their races are hazards
  without a property: a preview and `lastMessageAt` go back (`conversation.repository.ts:117`), and
  a copy of `autoReplyEnabled` is old when it is used (`bot-response.service.ts:91`).
- Calls of the Zalo wrapper that pass a request on (stickers, profiles, search, polls).
- Close codes other than 3003, after which the code does nothing
  (`zalo-listeners.orchestrator.ts:48`).

## 6. What could follow

1. A composition of `Inbound` and `Outbound` over the echo: that a generated reply is stored once
   as one, from `AutoReplyHasSource` and the refinement of `OutboundDelivery`.
2. A composition of `Contacts` with `ZaloSession` over the API object that comes and goes, and of
   `GroupChat` with `AutoReply` over the summary that both write.
3. Abstract specifications of `Inbound` (a message is stored, then announced) and of a
   listing (a snapshot that is handed out in pieces), with the invariants proved here as the step
   lemmas of their refinements.
