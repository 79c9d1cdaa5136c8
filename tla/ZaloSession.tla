----------------------------- MODULE ZaloSession -----------------------------
(***************************************************************************)
(* One Zalo account in the server: the row of its bot, the session saved   *)
(* for it, the zca-js API object that ZaloInstanceRegistry holds under its *)
(* uid and the listeners attached to API objects, under QR logins that may *)
(* overlap, closed connections, logout, deletion of the bot and its        *)
(* creation by request, and restarts of the process with the restore that  *)
(* follows them.                                                           *)
(*                                                                         *)
(* A QR login and the API object and cookie it yields have one name; the   *)
(* API object that the restore of process run r creates is called r.       *)
(***************************************************************************)
EXTENDS Naturals

CONSTANTS Logins,   \* QR logins
          MaxRuns,  \* bound: restarts of the process
          MaxRows,  \* bound: POST /bots makes a row only while fewer were made
          None      \* no API object, no session, no cookie

ASSUME ZaloSessionAssumption ==
    /\ MaxRuns \in Nat
    /\ MaxRows \in Nat
    /\ Logins \cap (1 .. MaxRuns) = {}
    /\ None \notin Logins \cup (1 .. MaxRuns)

Apis == Logins \cup (1 .. MaxRuns)

VARIABLES
    phase,     \* the process: "down", "restore" (bootstrapping) or "up"
    run,       \* how often the process was restarted
    row,       \* id of the bot's row, 0 when there is none
    lastRow,   \* highest id a row has had
    status,    \* status in the row, "none" without a row
    session,   \* cookie in the BotSession row, or None
    instance,  \* API object registered under the uid, or None
    bound,     \* bound[a]: bot id in the callbacks attached to a, 0 for none
    open,      \* API objects whose listener is connected
    cookie,    \* cookie[a]: the cookie a logs in with
    revoked,   \* cookies that Zalo no longer accepts
    at,        \* at[l]: progress of the login
    holds,     \* holds[l]: the bot id that upsertByExternal returned to l
    closing,   \* listeners whose handleClosed3003 has not updated the row
    \* history
    unfinished,  \* the last login or restore did not get to register
    discord,     \* a login raced with a closed connection, or an expired bot
                 \* was restored
    overlapped,  \* logins that were between upsert and registration together
    remade,      \* POST /bots made the row beside an API object or a login that
                 \* may name an older row; no login or restart has followed
    loggedOut    \* run of the last logout that no login has followed, or None

bot == <<row, lastRow, status>>
registry == <<instance, bound, open, closing>>
zalo == <<cookie, revoked>>
logins == <<at, holds>>
history == <<unfinished, discord, overlapped, remade, loggedOut>>
vars == <<phase, run, bot, session, registry, zalo, logins, history>>

TypeOK ==
    /\ phase \in {"down", "restore", "up"}
    /\ run \in 0 .. MaxRuns
    /\ lastRow \in Nat /\ row \in 0 .. lastRow
    /\ status \in IF row = 0 THEN {"none"} ELSE {"active", "expired", "inactive"}
    /\ session \in Logins \cup {None}
    /\ instance \in Apis \cup {None}
    /\ bound \in [Apis -> 0 .. lastRow]
    /\ open \subseteq {a \in Apis : bound[a] # 0}
    /\ cookie \in [Apis -> Logins \cup {None}]
    /\ revoked \subseteq Logins
    /\ at \in [Logins -> {"qr", "upserted", "saved", "done", "failed"}]
    /\ holds \in [Logins -> 0 .. lastRow]
    /\ closing \subseteq Apis
    /\ unfinished \in BOOLEAN /\ discord \in BOOLEAN
    /\ overlapped \subseteq Logins
    /\ remade \in BOOLEAN
    /\ loggedOut \in 0 .. MaxRuns \cup {None}

Init ==
    /\ phase = "up" /\ run = 0
    /\ row = 0 /\ lastRow = 0 /\ status = "none"
    /\ session = None
    /\ instance = None
    /\ bound = [a \in Apis |-> 0]
    /\ open = {} /\ closing = {}
    /\ cookie = [a \in Apis |-> IF a \in Logins THEN a ELSE None]
    /\ revoked = {}
    /\ at = [l \in Logins |-> "qr"]
    /\ holds = [l \in Logins |-> 0]
    /\ unfinished = FALSE /\ discord = FALSE
    /\ overlapped = {} /\ remade = FALSE /\ loggedOut = None

Between == {l \in Logins : at[l] \in {"upserted", "saved"}}

-----------------------------------------------------------------------------
(* ZaloInstanceRegistry.set and ZaloListeners.attach: no await in between. *)
(* attachListeners looks the API object up in the registry.                *)

Attach(a, id) ==
    /\ bound' = [bound EXCEPT ![a] = id]
    /\ open' = open \cup {a}

SetAndAttach(a, id) ==
    /\ instance' = a
    /\ Attach(a, id)

-----------------------------------------------------------------------------
(* ZaloAdapter.startLogin                                                  *)

\* The QR code was confirmed; upsertByExternal.
UpsertBot(l) ==
    /\ phase = "up" /\ at[l] = "qr"
    /\ row' = IF row = 0 THEN lastRow + 1 ELSE row
    /\ lastRow' = IF row = 0 THEN lastRow + 1 ELSE lastRow
    /\ status' = "active"
    /\ at' = [at EXCEPT ![l] = "upserted"]
    /\ holds' = [holds EXCEPT ![l] = row']
    /\ discord' = (closing # {})
    /\ overlapped' = IF Between = {} THEN overlapped
                     ELSE overlapped \cup Between \cup {l}
    /\ remade' = FALSE
    /\ UNCHANGED <<phase, run, session, registry, zalo, unfinished, loggedOut>>

\* Deviation: a session is created but an existing one is not replaced.
CreateSession(l) ==
    /\ at[l] = "upserted" /\ holds[l] = row
    /\ session' = IF session = None THEN l ELSE session
    /\ at' = [at EXCEPT ![l] = "saved"]
    /\ loggedOut' = None
    /\ UNCHANGED <<phase, run, bot, registry, zalo, holds, unfinished, discord, overlapped, remade>>

\* sessions.save
SaveSession(l) ==
    /\ at[l] = "upserted" /\ holds[l] = row
    /\ session' = l
    /\ at' = [at EXCEPT ![l] = "saved"]
    /\ loggedOut' = None
    /\ UNCHANGED <<phase, run, bot, registry, zalo, holds, unfinished, discord, overlapped, remade>>

\* The upsert of the session is rejected, by the foreign key if the bot was
\* deleted; startLogin throws.
LoginThrows(l) ==
    /\ at[l] = "upserted"
    /\ at' = [at EXCEPT ![l] = "failed"]
    /\ unfinished' = TRUE
    /\ UNCHANGED <<phase, run, bot, session, registry, zalo, holds, discord, overlapped, remade, loggedOut>>

\* startLogin goes on after the save.
Register(l) ==
    /\ at[l] = "saved"
    /\ SetAndAttach(l, holds[l])
    /\ at' = [at EXCEPT ![l] = "done"]
    /\ unfinished' = FALSE
    /\ discord' = (discord \/ closing # {})
    /\ UNCHANGED <<phase, run, bot, session, closing, zalo, holds, overlapped, remade, loggedOut>>

-----------------------------------------------------------------------------
(* ZaloListeners                                                           *)

\* Deviation: the closed listener's API object stays registered.
KeepInstance(a) ==
    /\ a \in open /\ cookie[a] \in revoked
    /\ open' = open \ {a}
    /\ closing' = closing \cup {a}
    /\ UNCHANGED <<phase, run, bot, session, instance, bound, zalo, logins, history>>

\* A listener closes with code 3003; handleClosed3003 deletes whatever the
\* registry holds under the uid ...
Closed3003(a) ==
    /\ a \in open /\ cookie[a] \in revoked
    /\ open' = open \ {a}
    /\ instance' = None
    /\ closing' = closing \cup {a}
    /\ UNCHANGED <<phase, run, bot, session, bound, zalo, logins, history>>

\* Deviation: the status is written without looking for the row.
MarkWithoutRow(a) ==
    /\ a \in closing
    /\ closing' = closing \ {a}
    /\ status' = "expired"
    /\ discord' = (discord \/ Between # {})
    /\ UNCHANGED <<phase, run, row, lastRow, session, instance, bound, open, zalo, logins,
                   unfinished, overlapped, remade, loggedOut>>

\* ... and marks the bot's row, if there is one.  No code catches a rejected
\* updateMany: the unhandled rejection ends the process, as Crash does.
MarkExpired(a) ==
    /\ a \in closing
    /\ closing' = closing \ {a}
    /\ status' = IF row = 0 THEN status ELSE "expired"
    /\ discord' = (discord \/ Between # {})
    /\ UNCHANGED <<phase, run, row, lastRow, session, instance, bound, open, zalo, logins,
                   unfinished, overlapped, remade, loggedOut>>

\* A listener closes with another code, which is ignored.
ClosedOtherwise(a) ==
    /\ a \in open
    /\ open' = open \ {a}
    /\ UNCHANGED <<phase, run, bot, session, instance, bound, closing, zalo, logins, history>>

\* Zalo invalidates a cookie.
Revoke(c) ==
    /\ c \notin revoked
    /\ revoked' = revoked \cup {c}
    /\ UNCHANGED <<phase, run, bot, session, registry, cookie, logins, history>>

-----------------------------------------------------------------------------
\* Deviation: logout() leaves the session to the database's housekeeping.
LogoutKeepsSession ==
    /\ phase = "up" /\ row # 0
    /\ loggedOut' = run
    /\ UNCHANGED <<phase, run, bot, session, registry, zalo, logins, unfinished, discord, overlapped,
                   remade>>

\* ZaloAdapter.logout: the registry's entry is looked for under the bot's id,
\* not its uid; the session is cleared.
Logout ==
    /\ phase = "up" /\ row # 0
    /\ session' = None
    /\ loggedOut' = run
    /\ UNCHANGED <<phase, run, bot, registry, zalo, logins, unfinished, discord, overlapped,
                   remade>>

\* BotService.delete: the session goes with the row, the registry is not told.
DeleteBot ==
    /\ phase = "up" /\ row # 0
    /\ row' = 0 /\ status' = "none"
    /\ session' = None
    /\ UNCHANGED <<phase, run, lastRow, registry, zalo, logins, history>>

\* POST /bots: BotService.create makes a row of its own for the account, which
\* the unique key refuses if there is one.  Its status is the schema's default.
CreateBot ==
    /\ phase = "up" /\ row = 0 /\ lastRow < MaxRows
    /\ row' = lastRow + 1 /\ lastRow' = lastRow + 1
    /\ status' = "inactive"
    /\ remade' = (instance # None \/ Between # {})
    /\ UNCHANGED <<phase, run, session, registry, zalo, logins, unfinished, discord,
                   overlapped, loggedOut>>

-----------------------------------------------------------------------------
(* The process and ZaloModule.onApplicationBootstrap                       *)

\* What is in memory is lost and no request is pending any more.
Crash ==
    /\ phase # "down" /\ run < MaxRuns
    /\ phase' = "down"
    /\ instance' = None
    /\ bound' = [a \in Apis |-> 0]
    /\ open' = {} /\ closing' = {}
    /\ at' = [l \in Logins |-> IF at[l] \in {"upserted", "saved"} THEN "failed" ELSE at[l]]
    /\ remade' = FALSE
    /\ UNCHANGED <<run, bot, session, zalo, holds, unfinished, discord, overlapped, loggedOut>>

\* A bot that is active or expired is restored if it has a session.
Boot ==
    /\ phase = "down"
    /\ run' = run + 1
    /\ IF status \in {"active", "expired"} /\ session # None
       THEN /\ phase' = "restore"
            /\ cookie' = [cookie EXCEPT ![run'] = session]
            /\ UNCHANGED unfinished
       ELSE /\ phase' = "up"
            /\ unfinished' = TRUE
            /\ UNCHANGED cookie
    /\ UNCHANGED <<bot, session, registry, revoked, logins, discord, overlapped, remade,
                   loggedOut>>

\* ZaloAdapter.restore logs in with the session and registers.
Restore ==
    /\ phase = "restore" /\ cookie[run] \notin revoked
    /\ phase' = "up"
    /\ SetAndAttach(run, row)
    /\ unfinished' = FALSE
    /\ discord' = (status = "expired")
    /\ UNCHANGED <<run, bot, session, closing, zalo, logins, overlapped, remade, loggedOut>>

\* The login is refused or fails; the error is logged.
RestoreThrows ==
    /\ phase = "restore"
    /\ phase' = "up"
    /\ unfinished' = TRUE
    /\ UNCHANGED <<run, bot, session, registry, zalo, logins, discord, overlapped, remade,
                   loggedOut>>

-----------------------------------------------------------------------------
Login(l) == UpsertBot(l) \/ SaveSession(l) \/ LoginThrows(l) \/ Register(l)
Closes(a) == Closed3003(a) \/ MarkExpired(a) \/ ClosedOtherwise(a)

Next ==
    \/ \E l \in Logins : Login(l) \/ Revoke(l)
    \/ \E a \in Apis : Closes(a)
    \/ Logout \/ DeleteBot \/ CreateBot
    \/ Crash \/ Boot \/ Restore \/ RestoreThrows

Spec == Init /\ [][Next]_vars

-----------------------------------------------------------------------------
\* No login is under way and no closed connection is being handled.
Settled == phase = "up" /\ Between = {} /\ closing = {}

\* A bot said to be active has an API object to send with, unless the last
\* login failed after its upsert or the last restore did not succeed.
ActiveIsRegistered ==
    Settled /\ status = "active" => instance # None \/ unfinished

\* A bot said to be expired has no API object, unless a login raced with a
\* connection that closed or an expired bot was restored.
ExpiredIsUnregistered ==
    Settled /\ status = "expired" => instance = None \/ discord

\* The status that the console shows is that of the connection, whatever login,
\* close or restart came last, with both exceptions.
StatusAgrees == ActiveIsRegistered /\ ExpiredIsUnregistered

\* The session that the next restart will use is that of the API object in
\* use, unless logins overlapped.
SessionOfInstance ==
    Settled /\ instance # None /\ session # None =>
        instance \in overlapped \/ cookie[instance] = session

\* The callbacks of the API object in use name the bot's present row, so that
\* friend and group events are not dropped, unless logins overlapped, the last one
\* was not finished, or the row was made by POST /bots while the account was in use.
BoundToRow ==
    Settled /\ instance # None /\ row # 0 =>
        instance \in overlapped \/ unfinished \/ remade \/ bound[instance] = row

\* What is stored of a bot, its session and its row, is that of the connection in
\* use, however logins, deletions, creations and restarts followed each other, with
\* these exceptions.
InstanceAgrees == SessionOfInstance /\ BoundToRow

\* A bot that was logged out stays offline after a restart.
LoggedOutStaysOut ==
    loggedOut # None /\ run # loggedOut => instance = None

\* channel-adapter.interface.ts: logout closes the listener.
LogoutCloses == Settled /\ loggedOut = run => open = {} /\ instance = None

=============================================================================
