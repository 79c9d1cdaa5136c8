-------------------------- MODULE ZaloSessionProofs --------------------------
(***************************************************************************)
(* Proofs about ZaloSession for any set of logins and any number of        *)
(* restarts: type correctness and every invariant its run checks.          *)
(***************************************************************************)
EXTENDS ZaloSession, TLAPS

\* What the phase of the process says: nothing is in memory while it is down
\* or restoring, and a restore uses the session that is saved.
PhaseInv ==
    /\ phase # "up" => Between = {} /\ closing = {} /\ open = {} /\ instance = None
    /\ phase = "down" => run < MaxRuns
    /\ phase = "restore" =>
          run \in 1 .. MaxRuns /\ row # 0 /\ session # None /\ cookie[run] = session
    /\ \A l \in Logins : cookie[l] = l
    /\ \A l \in Between : holds[l] # 0

\* An active bot without an API object is on its way to one, or to expire.
ActiveInv ==
    phase = "up" /\ status = "active" /\ instance = None =>
        unfinished \/ Between # {} \/ closing # {}

\* An expired bot with an API object, or about to have one, is a known discord.
ExpiredInv ==
    /\ closing # {} /\ instance # None => discord
    /\ status = "expired" /\ (Between # {} \/ (phase = "up" /\ instance # None)) => discord

\* Logins that are between upsert and registration together overlap.
OverlapInv == \A l, m \in Between : l # m => l \in overlapped

\* A login finds the session as it saved it or cleared, unless it overlapped.
SessionInv ==
    /\ \A l \in Logins : at[l] = "saved" => l \in overlapped \/ session \in {l, None}
    /\ instance # None /\ session # None =>
          \/ instance \in overlapped
          \/ cookie[instance] = session
          \/ \E l \in Logins : at[l] = "saved" /\ session = l

\* A login holds the id of the bot's row, unless it overlapped, the row was
\* deleted or POST /bots made it anew, and so do the callbacks of the API object in
\* use.
BoundInv ==
    row # 0 =>
        /\ \A l \in Between : l \in overlapped \/ remade \/ holds[l] = row
        /\ instance # None =>
              \/ instance \in overlapped
              \/ unfinished
              \/ remade
              \/ bound[instance] = row
              \/ \E l \in Between : holds[l] = row

\* After a logout there is no session, and after a restart nothing to register.
LogoutInv ==
    loggedOut # None =>
        /\ session = None
        /\ run # loggedOut => instance = None /\ \A l \in Logins : at[l] # "saved"

-----------------------------------------------------------------------------
\* API objects in a step of a listener are not None.
LEMMA ApisNotNone == None \notin Apis /\ Logins \subseteq Apis /\ 1 .. MaxRuns \subseteq Apis
  BY ZaloSessionAssumption DEF Apis

\* Types and phases are preserved together: what a login holds is a row's id.
LEMMA TypeStep == ASSUME TypeOK, PhaseInv, [Next]_vars PROVE TypeOK' /\ PhaseInv'
<1> USE ApisNotNone, ZaloSessionAssumption
<1> USE DEF bot, registry, zalo, logins, history
<1>1. ASSUME NEW l \in Logins, UpsertBot(l) PROVE TypeOK' /\ PhaseInv'
  <2>1. row' \in 1 .. lastRow' /\ lastRow' \in Nat /\ lastRow <= lastRow'
    BY <1>1 DEF UpsertBot, TypeOK
  <2>2. 0 .. lastRow \subseteq 0 .. lastRow'
    BY <2>1 DEF TypeOK
  <2>3. TypeOK'
    <3>1. /\ bound' \in [Apis -> 0 .. lastRow'] /\ holds' \in [Logins -> 0 .. lastRow']
          /\ open' \subseteq {a \in Apis : bound'[a] # 0}
      BY <1>1, <2>1, <2>2 DEF UpsertBot, TypeOK
    <3>2. at' \in [Logins -> {"qr", "upserted", "saved", "done", "failed"}]
      BY <1>1 DEF UpsertBot, TypeOK
    <3>3. overlapped' \subseteq Logins /\ discord' \in BOOLEAN
      BY <1>1 DEF UpsertBot, TypeOK, Between
    <3>4. /\ status' = "active" /\ remade' \in BOOLEAN
          /\ UNCHANGED <<phase, run, session, instance, cookie, revoked, closing,
                        unfinished, loggedOut>>
      BY <1>1 DEF UpsertBot
    <3> QED
      BY <2>1, <3>1, <3>2, <3>3, <3>4 DEF TypeOK
  <2>4. Between' = Between \cup {l}
    BY <1>1 DEF UpsertBot, TypeOK, Between
  <2>5. PhaseInv'
    BY <1>1, <2>1, <2>4 DEF UpsertBot, TypeOK, PhaseInv
  <2> QED
    BY <2>3, <2>5
<1>2. ASSUME NEW l \in Logins, SaveSession(l) \/ LoginThrows(l) PROVE TypeOK' /\ PhaseInv'
  <2>1. l \in Between /\ phase = "up" /\ Between' \subseteq Between
    BY <1>2 DEF SaveSession, LoginThrows, TypeOK, PhaseInv, Between
  <2>2. TypeOK'
    <3>1. at' \in [Logins -> {"qr", "upserted", "saved", "done", "failed"}]
      BY <1>2 DEF SaveSession, LoginThrows, TypeOK
    <3> QED
      BY <1>2, <3>1 DEF SaveSession, LoginThrows, TypeOK
  <2>3. PhaseInv'
    BY <1>2, <2>1 DEF SaveSession, LoginThrows, TypeOK, PhaseInv
  <2> QED
    BY <2>2, <2>3
<1>3. ASSUME NEW l \in Logins, Register(l) PROVE TypeOK' /\ PhaseInv'
  <2>1. l \in Between /\ phase = "up" /\ holds[l] \in 1 .. lastRow
    BY <1>3 DEF Register, TypeOK, PhaseInv, Between
  <2>2. TypeOK'
    <3>1. /\ bound' \in [Apis -> 0 .. lastRow]
          /\ open' \subseteq {a \in Apis : bound'[a] # 0}
      BY <1>3, <2>1 DEF Register, SetAndAttach, Attach, TypeOK
    <3>2. at' \in [Logins -> {"qr", "upserted", "saved", "done", "failed"}]
      BY <1>3 DEF Register, TypeOK
    <3>3. instance' \in Apis /\ discord' \in BOOLEAN
      BY <1>3 DEF Register, SetAndAttach, TypeOK
    <3> QED
      BY <1>3, <3>1, <3>2, <3>3 DEF Register, TypeOK
  <2>3. PhaseInv'
    BY <1>3, <2>1 DEF Register, SetAndAttach, Attach, TypeOK, PhaseInv, Between
  <2> QED
    BY <2>2, <2>3
<1>4. ASSUME NEW a \in Apis, Closes(a) PROVE TypeOK' /\ PhaseInv'
  BY <1>4 DEF Closes, Closed3003, MarkExpired, ClosedOtherwise, TypeOK, PhaseInv, Between
<1>5. ASSUME NEW c \in Logins, Revoke(c) PROVE TypeOK' /\ PhaseInv'
  BY <1>5 DEF Revoke, TypeOK, PhaseInv, Between
<1>6. CASE Logout \/ DeleteBot
  BY <1>6 DEF Logout, DeleteBot, TypeOK, PhaseInv, Between
<1>11. CASE CreateBot
  <2>1. row' = lastRow' /\ lastRow' = lastRow + 1 /\ lastRow \in Nat
    BY <1>11 DEF CreateBot, TypeOK
  <2>2. 0 .. lastRow \subseteq 0 .. lastRow' /\ row' # 0 /\ row' \in 0 .. lastRow'
    BY <2>1
  <2>3. bound' \in [Apis -> 0 .. lastRow'] /\ holds' \in [Logins -> 0 .. lastRow']
    BY <1>11, <2>2 DEF CreateBot, TypeOK
  <2> QED
    BY <1>11, <2>1, <2>2, <2>3 DEF CreateBot, TypeOK, PhaseInv, Between
<1>7. CASE Crash
  <2>1. Between' = {}
    BY <1>7 DEF Crash, TypeOK, Between
  <2>2. at' \in [Logins -> {"qr", "upserted", "saved", "done", "failed"}]
    BY <1>7 DEF Crash, TypeOK
  <2>3. bound' \in [Apis -> 0 .. lastRow'] /\ open' = {} /\ closing' = {}
    BY <1>7 DEF Crash, TypeOK
  <2>4. TypeOK'
    BY <1>7, <2>2, <2>3 DEF Crash, TypeOK
  <2>5. PhaseInv'
    BY <1>7, <2>1 DEF Crash, TypeOK, PhaseInv
  <2> QED
    BY <2>4, <2>5
<1>8. CASE Boot
  <2>1. run' \in 1 .. MaxRuns /\ run' \in Apis
    BY <1>8 DEF Boot, TypeOK, PhaseInv
  <2>2. cookie' \in [Apis -> Logins \cup {None}]
    BY <1>8, <2>1 DEF Boot, TypeOK
  <2>3. \A l \in Logins : cookie'[l] = l
    BY <1>8, <2>1 DEF Boot, TypeOK, PhaseInv
  <2>4. phase' = "restore" => cookie'[run'] = session
    BY <1>8, <2>1 DEF Boot, TypeOK
  <2>5. TypeOK'
    <3>1. phase' \in {"restore", "up"} /\ unfinished' \in BOOLEAN
      BY <1>8 DEF Boot, TypeOK
    <3>2. UNCHANGED <<row, lastRow, status, session, instance, bound, open, revoked, at, holds,
                      closing, discord, overlapped, remade, loggedOut>>
      BY <1>8 DEF Boot
    <3> QED
      BY <2>1, <2>2, <3>1, <3>2 DEF TypeOK
  <2>6. PhaseInv'
    BY <1>8, <2>1, <2>3, <2>4 DEF Boot, TypeOK, PhaseInv, Between
  <2> QED
    BY <2>5, <2>6
<1>9. CASE Restore
  <2>1. run \in Apis /\ row \in 1 .. lastRow
    BY <1>9 DEF Restore, TypeOK, PhaseInv
  <2> QED
    BY <1>9, <2>1 DEF Restore, SetAndAttach, Attach, TypeOK, PhaseInv, Between
<1>10. CASE RestoreThrows \/ UNCHANGED vars
  BY <1>10 DEF RestoreThrows, vars, TypeOK, PhaseInv, Between
<1> QED
  BY <1>1, <1>2, <1>3, <1>4, <1>5, <1>6, <1>7, <1>8, <1>9, <1>10, <1>11 DEF Next, Login

\* The variables keep their types, whatever overlaps and fails.
THEOREM TypeCorrect == Spec => [](TypeOK /\ PhaseInv)
<1>1. Init => TypeOK /\ PhaseInv
  <2> SUFFICES ASSUME Init PROVE TypeOK /\ PhaseInv
    OBVIOUS
  <2>1. cookie \in [Apis -> Logins \cup {None}] /\ \A l \in Logins : cookie[l] = l
    BY ApisNotNone DEF Init
  <2>2. bound \in [Apis -> 0 .. 0] /\ holds \in [Logins -> 0 .. 0]
    BY DEF Init
  <2>3. at \in [Logins -> {"qr", "upserted", "saved", "done", "failed"}]
    BY DEF Init
  <2>4. run \in 0 .. MaxRuns /\ lastRow \in Nat /\ row \in 0 .. lastRow /\ lastRow = 0
    BY ZaloSessionAssumption DEF Init
  <2>5. TypeOK
    BY <2>1, <2>2, <2>3, <2>4 DEF Init, TypeOK
  <2>6. PhaseInv
    BY <2>1 DEF Init, PhaseInv, Between
  <2> QED
    BY <2>5, <2>6
<1> QED
  BY <1>1, TypeStep, PTL DEF Spec

-----------------------------------------------------------------------------
\* How each kind of step changes the set of logins under way.
LEMMA BetweenStep ==
    ASSUME TypeOK, NEW l \in Logins
    PROVE  /\ UpsertBot(l) => Between' = Between \cup {l} /\ l \notin Between
           /\ SaveSession(l) => Between' = Between /\ l \in Between
           /\ LoginThrows(l) \/ Register(l) => Between' = Between \ {l} /\ l \in Between
  BY DEF TypeOK, Between, UpsertBot, SaveSession, LoginThrows, Register

\* Preservation of ActiveInv.
LEMMA ActiveStep ==
    ASSUME TypeOK, PhaseInv, ActiveInv, [Next]_vars PROVE ActiveInv'
<1> USE ApisNotNone DEF bot, registry, zalo, logins, history
<1>1. ASSUME NEW l \in Logins, Login(l) PROVE ActiveInv'
  <2>1. CASE UpsertBot(l) \/ SaveSession(l)
    BY <2>1, BetweenStep DEF UpsertBot, SaveSession, ActiveInv
  <2>2. CASE LoginThrows(l) \/ Register(l)
    BY <2>2 DEF LoginThrows, Register, SetAndAttach, ActiveInv
  <2> QED
    BY <1>1, <2>1, <2>2 DEF Login
<1>2. ASSUME NEW a \in Apis, Closes(a) PROVE ActiveInv'
  BY <1>2 DEF Closes, Closed3003, MarkExpired, ClosedOtherwise, TypeOK, ActiveInv, Between
<1>3. ASSUME NEW c \in Logins, Revoke(c) PROVE ActiveInv'
  BY <1>3 DEF Revoke, ActiveInv, Between
<1>4. CASE Logout \/ DeleteBot \/ CreateBot \/ UNCHANGED vars
  BY <1>4 DEF Logout, DeleteBot, CreateBot, vars, ActiveInv, Between
<1>5. CASE Crash \/ Boot \/ RestoreThrows
  BY <1>5 DEF Crash, Boot, RestoreThrows, ActiveInv
<1>6. CASE Restore
  BY <1>6 DEF Restore, SetAndAttach, TypeOK, PhaseInv, ActiveInv
<1> QED
  BY <1>1, <1>2, <1>3, <1>4, <1>5, <1>6 DEF Next

\* A bot said to be active has an API object once everything has settled,
\* unless its last login or restore was not finished (startLogin, restore and
\* handleClosed3003).
THEOREM ActiveHasInstance == Spec => []ActiveIsRegistered
<1>1. Init => ActiveInv
  BY DEF Init, ActiveInv
<1>2. ActiveInv => ActiveIsRegistered
  BY DEF ActiveInv, ActiveIsRegistered, Settled
<1> QED
  BY <1>1, <1>2, TypeCorrect, ActiveStep, PTL DEF Spec

-----------------------------------------------------------------------------
\* Preservation of ExpiredInv.
LEMMA ExpiredStep ==
    ASSUME TypeOK, PhaseInv, ExpiredInv, [Next]_vars PROVE ExpiredInv'
<1> USE ApisNotNone DEF bot, registry, zalo, logins, history
<1>1. ASSUME NEW l \in Logins, Login(l) PROVE ExpiredInv'
  <2>1. CASE UpsertBot(l)
    BY <2>1 DEF UpsertBot, ExpiredInv
  <2>2. CASE SaveSession(l) \/ LoginThrows(l)
    BY <2>2, BetweenStep DEF SaveSession, LoginThrows, ExpiredInv
  <2>3. CASE Register(l)
    <3>1. l \in Between /\ discord' = (discord \/ closing # {}) /\ UNCHANGED <<status, closing>>
      BY <2>3, BetweenStep DEF Register
    <3>2. status = "expired" => discord
      <4>1. Between # {}
        BY <3>1
      <4> QED
        BY <4>1, Zenon DEF ExpiredInv
    <3> QED
      BY <3>1, <3>2 DEF ExpiredInv
  <2> QED
    BY <1>1, <2>1, <2>2, <2>3 DEF Login
<1>2. ASSUME NEW a \in Apis, Closes(a) PROVE ExpiredInv'
  BY <1>2 DEF Closes, Closed3003, MarkExpired, ClosedOtherwise, TypeOK, ExpiredInv, Between
<1>3. ASSUME NEW c \in Logins, Revoke(c) PROVE ExpiredInv'
  BY <1>3 DEF Revoke, ExpiredInv, Between
<1>4. CASE Logout \/ DeleteBot \/ CreateBot \/ UNCHANGED vars
  BY <1>4 DEF Logout, DeleteBot, CreateBot, vars, ExpiredInv, Between
<1>5. CASE Crash \/ Boot \/ RestoreThrows
  BY <1>5 DEF Crash, Boot, RestoreThrows, PhaseInv, ExpiredInv, Between
<1>6. CASE Restore
  BY <1>6 DEF Restore, SetAndAttach, PhaseInv, ExpiredInv, Between
<1> QED
  BY <1>1, <1>2, <1>3, <1>4, <1>5, <1>6 DEF Next

\* A bot said to be expired has no API object once everything has settled,
\* unless a login raced with handleClosed3003 or restore() took up a bot that
\* had expired.
THEOREM ExpiredHasNoInstance == Spec => []ExpiredIsUnregistered
<1>1. Init => ExpiredInv
  BY DEF Init, ExpiredInv
<1>2. ExpiredInv => ExpiredIsUnregistered
  BY DEF ExpiredInv, ExpiredIsUnregistered, Settled
<1> QED
  BY <1>1, <1>2, TypeCorrect, ExpiredStep, PTL DEF Spec

\* The bot's status says whether it is connected, with the exceptions of both
\* (the writers of Bot.status against the registry).
THEOREM StatusIsOfInstance == Spec => []StatusAgrees
  BY ActiveHasInstance, ExpiredHasNoInstance, PTL DEF StatusAgrees

-----------------------------------------------------------------------------
\* Preservation of OverlapInv.
LEMMA OverlapStep == ASSUME TypeOK, OverlapInv, [Next]_vars PROVE OverlapInv'
<1> USE DEF bot, registry, zalo, logins, history
<1>1. ASSUME NEW l \in Logins, UpsertBot(l) PROVE OverlapInv'
  BY <1>1, BetweenStep DEF UpsertBot, OverlapInv
<1>2. ASSUME NEW l \in Logins, SaveSession(l) \/ LoginThrows(l) \/ Register(l) PROVE OverlapInv'
  BY <1>2, BetweenStep DEF SaveSession, LoginThrows, Register, OverlapInv
<1>3. ASSUME Between' = {} \/ UNCHANGED <<at, overlapped>> PROVE OverlapInv'
  BY <1>3 DEF OverlapInv, Between
<1>4. Crash => Between' = {}
  BY DEF Crash, TypeOK, Between
<1>5. ASSUME NEW a \in Apis, Closes(a) PROVE UNCHANGED <<at, overlapped>>
  BY <1>5 DEF Closes, Closed3003, MarkExpired, ClosedOtherwise
<1>6. ASSUME NEW c \in Logins, Revoke(c) PROVE UNCHANGED <<at, overlapped>>
  BY <1>6 DEF Revoke
<1>7. Logout \/ DeleteBot \/ CreateBot \/ Boot \/ Restore \/ RestoreThrows \/ UNCHANGED vars
        => UNCHANGED <<at, overlapped>>
  BY DEF Logout, DeleteBot, CreateBot, Boot, Restore, RestoreThrows, vars
<1> QED
  BY <1>1, <1>2, <1>3, <1>4, <1>5, <1>6, <1>7 DEF Next, Login

\* Preservation of SessionInv.
LEMMA SessionStep ==
    ASSUME TypeOK, PhaseInv, OverlapInv, SessionInv, [Next]_vars PROVE SessionInv'
<1> USE ApisNotNone DEF bot, registry, zalo, logins, history
<1>1. ASSUME NEW l \in Logins, Login(l) PROVE SessionInv'
  <2>1. CASE UpsertBot(l)
    BY <2>1 DEF UpsertBot, TypeOK, SessionInv
  <2>2. CASE SaveSession(l)
    <3>1. ASSUME NEW m \in Logins, at'[m] = "saved", m # l PROVE m \in overlapped
      BY <2>2, <3>1 DEF SaveSession, TypeOK, OverlapInv, Between
    <3> QED
      BY <2>2, <3>1 DEF SaveSession, TypeOK, SessionInv
  <2>3. CASE LoginThrows(l)
    BY <2>3 DEF LoginThrows, TypeOK, SessionInv
  <2>4. CASE Register(l)
    BY <2>4 DEF Register, SetAndAttach, TypeOK, PhaseInv, SessionInv
  <2> QED
    BY <1>1, <2>1, <2>2, <2>3, <2>4 DEF Login
<1>2. ASSUME NEW a \in Apis, Closes(a) PROVE SessionInv'
  BY <1>2 DEF Closes, Closed3003, MarkExpired, ClosedOtherwise, SessionInv
<1>3. ASSUME NEW c \in Logins, Revoke(c) PROVE SessionInv'
  BY <1>3 DEF Revoke, SessionInv
<1>4. CASE Logout \/ DeleteBot \/ CreateBot \/ UNCHANGED vars
  BY <1>4 DEF Logout, DeleteBot, CreateBot, vars, SessionInv
<1>5. CASE Crash
  BY <1>5 DEF Crash, TypeOK, SessionInv
<1>6. CASE Boot \/ RestoreThrows
  BY <1>6 DEF Boot, RestoreThrows, PhaseInv, SessionInv
<1>7. CASE Restore
  BY <1>7 DEF Restore, SetAndAttach, PhaseInv, SessionInv
<1> QED
  BY <1>1, <1>2, <1>3, <1>4, <1>5, <1>6, <1>7 DEF Next

\* The session saved for the next restart is that of the API object in use,
\* unless logins overlapped (sessions.save before instances.set).
THEOREM SessionIsOfInstance == Spec => []SessionOfInstance
<1>1. Init => OverlapInv /\ SessionInv
  BY DEF Init, OverlapInv, SessionInv, Between
<1>2. SessionInv => SessionOfInstance
  BY DEF SessionInv, SessionOfInstance, Settled, Between
<1> QED
  BY <1>1, <1>2, TypeCorrect, OverlapStep, SessionStep, PTL DEF Spec

-----------------------------------------------------------------------------
\* Preservation of BoundInv.
LEMMA BoundStep ==
    ASSUME TypeOK, PhaseInv, OverlapInv, BoundInv, [Next]_vars PROVE BoundInv'
<1> USE ApisNotNone DEF bot, registry, zalo, logins, history
<1>1. ASSUME NEW l \in Logins, Login(l) PROVE BoundInv'
  <2>1. CASE UpsertBot(l)
    <3>1. Between' = Between \cup {l} /\ holds'[l] = row'
      BY <2>1, BetweenStep DEF UpsertBot, TypeOK
    <3>2. ASSUME NEW m \in Between PROVE m \in overlapped'
      BY <2>1, <3>2 DEF UpsertBot
    <3> QED
      BY <3>1, <3>2 DEF BoundInv
  <2>2. CASE SaveSession(l)
    BY <2>2, BetweenStep DEF SaveSession, BoundInv
  <2>3. CASE LoginThrows(l)
    BY <2>3, BetweenStep DEF LoginThrows, BoundInv
  <2>4. CASE Register(l)
    BY <2>4, BetweenStep DEF Register, SetAndAttach, Attach, TypeOK, BoundInv
  <2> QED
    BY <1>1, <2>1, <2>2, <2>3, <2>4 DEF Login
<1>2. ASSUME NEW a \in Apis, Closes(a) PROVE BoundInv'
  BY <1>2 DEF Closes, Closed3003, MarkExpired, ClosedOtherwise, BoundInv, Between
<1>3. ASSUME NEW c \in Logins, Revoke(c) PROVE BoundInv'
  BY <1>3 DEF Revoke, BoundInv, Between
<1>4. CASE Logout \/ DeleteBot \/ UNCHANGED vars
  BY <1>4 DEF Logout, DeleteBot, vars, BoundInv, Between
<1>8. CASE CreateBot
  <2>1. instance' # None \/ Between' # {} => remade'
    BY <1>8 DEF CreateBot, Between
  <2> QED
    BY <2>1 DEF BoundInv
<1>5. CASE Crash
  BY <1>5 DEF Crash, TypeOK, BoundInv, Between
<1>6. CASE Boot \/ RestoreThrows
  BY <1>6 DEF Boot, RestoreThrows, PhaseInv, BoundInv, Between
<1>7. CASE Restore
  BY <1>7 DEF Restore, SetAndAttach, Attach, TypeOK, PhaseInv, BoundInv, Between
<1> QED
  BY <1>1, <1>2, <1>3, <1>4, <1>5, <1>6, <1>7, <1>8 DEF Next

\* The callbacks of the API object in use name the row the bot has now, unless
\* logins overlapped, one was not finished, or POST /bots made the row anew
\* (ZaloListeners.attach, BotRepository.create).
THEOREM CallbacksReachBot == Spec => []BoundToRow
<1>1. Init => OverlapInv /\ BoundInv
  BY DEF Init, OverlapInv, BoundInv, Between
<1>2. BoundInv => BoundToRow
  BY DEF BoundInv, BoundToRow, Settled
<1> QED
  BY <1>1, <1>2, TypeCorrect, OverlapStep, BoundStep, PTL DEF Spec

\* Session and row are those of the connection in use (both theorems above).
THEOREM InstanceDoesAgree == Spec => []InstanceAgrees
<1>1. SessionOfInstance /\ BoundToRow => InstanceAgrees
  BY DEF InstanceAgrees
<1> QED
  BY <1>1, SessionIsOfInstance, CallbacksReachBot, PTL

-----------------------------------------------------------------------------
\* Preservation of LogoutInv.
LEMMA LogoutStep ==
    ASSUME TypeOK, PhaseInv, LogoutInv, [Next]_vars PROVE LogoutInv'
<1> USE ApisNotNone, ZaloSessionAssumption DEF bot, registry, zalo, logins, history
<1>1. ASSUME NEW l \in Logins, Login(l) PROVE LogoutInv'
  BY <1>1 DEF Login, UpsertBot, SaveSession, LoginThrows, Register, SetAndAttach, TypeOK, LogoutInv
<1>2. ASSUME NEW a \in Apis, Closes(a) PROVE LogoutInv'
  BY <1>2 DEF Closes, Closed3003, MarkExpired, ClosedOtherwise, LogoutInv
<1>3. ASSUME NEW c \in Logins, Revoke(c) PROVE LogoutInv'
  BY <1>3 DEF Revoke, LogoutInv
<1>4. CASE Logout \/ DeleteBot \/ CreateBot \/ RestoreThrows \/ UNCHANGED vars
  BY <1>4 DEF Logout, DeleteBot, CreateBot, RestoreThrows, vars, LogoutInv
<1>5. CASE Crash
  BY <1>5 DEF Crash, TypeOK, LogoutInv
<1>6. CASE Boot
  BY <1>6 DEF Boot, TypeOK, PhaseInv, LogoutInv, Between
<1>7. CASE Restore
  BY <1>7 DEF Restore, PhaseInv, LogoutInv
<1> QED
  BY <1>1, <1>2, <1>3, <1>4, <1>5, <1>6, <1>7 DEF Next

\* A bot that was logged out is not restored by a restart (logout clears the
\* session, restore needs one).
THEOREM LogoutOutlivesRestart == Spec => []LoggedOutStaysOut
<1>1. Init => LogoutInv
  BY DEF Init, LogoutInv
<1>2. LogoutInv => LoggedOutStaysOut
  BY DEF LogoutInv, LoggedOutStaysOut
<1> QED
  BY <1>1, <1>2, TypeCorrect, LogoutStep, PTL DEF Spec

=============================================================================
