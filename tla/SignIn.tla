------------------------------- MODULE SignIn -------------------------------
(***************************************************************************)
(* Refresh tokens: their rows, the requests login, refresh and logout as    *)
(* far as they touch them, and what the user's device holds of them.        *)
(*                                                                         *)
(* A token is a number, each made once.  What is signed into the access     *)
(* token, the customer's row and Firebase's verification are left out, but  *)
(* for their failing; a refusal of theirs leaves no trace.  The device is    *)
(* outside of the repository: it keeps the last token it was answered and   *)
(* forgets it when it is refused or logs out.                              *)
(***************************************************************************)
EXTENDS Naturals

CONSTANTS Requests,  \* requests that can be under way at a time
          Idle

\* Bounds: how many requests are made, and how often statements fail.
SignInWants == [requests : Nat, errors : Nat, lost : Nat, expiries : Nat]

Kinds == {"login", "refresh", "logout"}
Steps == {"find", "expired", "create", "delete", "answer", "refused", "error"}

\* A request under way: the token that came with it and the one it made, or 0.
Calls == [kind : Kinds, step : Steps, old : Nat, new : Nat]

ASSUME SignInAssumption == Idle \notin Calls

VARIABLES
    tokens,    \* the rows of RefreshToken
    stale,     \* tokens whose expiresAt has passed
    made,      \* how many tokens were made
    held,      \* the token on the device, or 0
    request,   \* what each request is doing
    wants,     \* what may still happen
    \* history
    adrift,    \* tokens that live on for a reason: the answer with it was lost
               \* or came too late, its deletion failed, or another sign-in
    spent      \* tokens taken from a device that was not told

signInVars == <<tokens, stale, made, held, request, wants, adrift, spent>>

Ids == 1 .. made
Pending == {r \in Requests : request[r] # Idle}

SignInTypeOK ==
    /\ made \in Nat /\ tokens \subseteq Ids /\ stale \subseteq Ids /\ held \in 0 .. made
    /\ adrift \subseteq Ids /\ spent \subseteq Ids
    /\ request \in [Requests -> Calls \cup {Idle}]
    /\ \A r \in Pending : request[r].old \in 0 .. made /\ request[r].new \in 0 .. made

SignInInit ==
    /\ tokens = {} /\ stale = {} /\ made = 0 /\ held = 0
    /\ request = [r \in Requests |-> Idle]
    /\ adrift = {} /\ spent = {}

-----------------------------------------------------------------------------
Is(r, step) == request[r] # Idle /\ request[r].step = step
Goes(r, step) == request' = [request EXCEPT ![r].step = step]
Fails == wants.errors > 0 /\ wants' = [wants EXCEPT !.errors = @ - 1]

\* The device asks to log in, or to refresh or end the session that it has.
AskLogin(r) ==
    /\ request[r] = Idle /\ wants.requests > 0
    /\ request' = [request EXCEPT ![r] =
                     [kind |-> "login", step |-> "create", old |-> 0, new |-> 0]]
    /\ wants' = [wants EXCEPT !.requests = @ - 1]
    /\ UNCHANGED <<tokens, stale, made, held, adrift, spent>>

AskWithToken(r, kind) ==
    /\ request[r] = Idle /\ wants.requests > 0 /\ held # 0
    /\ request' = [request EXCEPT ![r] =
                     [kind |-> kind, step |-> IF kind = "refresh" THEN "find" ELSE "delete",
                      old |-> held, new |-> 0]]
    /\ wants' = [wants EXCEPT !.requests = @ - 1]
    /\ UNCHANGED <<tokens, stale, made, held, adrift, spent>>

\* Deviation: the token is taken out as it is found, ahead of its successor.
TakeToken(r) ==
    /\ Is(r, "find")
    /\ LET old == request[r].old IN
       /\ Goes(r, IF old \in tokens \ stale THEN "create" ELSE "refused")
       /\ tokens' = tokens \ {old}
    /\ UNCHANGED <<stale, made, held, wants, adrift, spent>>

\* refresh: findRefreshToken, and the refusal of one that is unknown or expired.
FindToken(r) ==
    /\ Is(r, "find")
    /\ LET old == request[r].old IN
       Goes(r, IF old \notin tokens THEN "refused" ELSE IF old \in stale THEN "expired" ELSE "create")
    /\ UNCHANGED <<tokens, stale, made, held, wants, adrift, spent>>

\* generateRefreshToken, of login and refresh.
CreateToken(r) ==
    /\ Is(r, "create")
    /\ made' = made + 1
    /\ tokens' = tokens \cup {made + 1}
    /\ request' = [request EXCEPT ![r].new = made + 1,
                      ![r].step = IF request[r].kind = "login" THEN "answer" ELSE "delete"]
    /\ UNCHANGED <<stale, held, wants, adrift, spent>>

\* Deviation: refresh leaves the token, as long as it has not expired.
DeleteExpiredOnly(r) ==
    /\ Is(r, "expired") \/ Is(r, "delete")
    /\ tokens' = IF Is(r, "delete") /\ request[r].kind = "refresh" THEN tokens
                 ELSE tokens \ {request[r].old}
    /\ Goes(r, IF Is(r, "expired") THEN "refused" ELSE "answer")
    /\ UNCHANGED <<stale, made, held, wants, adrift, spent>>

\* The token that was presented is deleted: when it is expired, when its
\* successor exists, and at a logout.
DeleteToken(r) ==
    /\ Is(r, "expired") \/ Is(r, "delete")
    /\ tokens' = tokens \ {request[r].old}
    /\ Goes(r, IF Is(r, "expired") THEN "refused" ELSE "answer")
    /\ UNCHANGED <<stale, made, held, wants, adrift, spent>>

\* A statement fails.  refresh ignores that a token could not be deleted.
StatementFails(r) ==
    /\ Fails
    /\ \/ Is(r, "find") /\ Goes(r, "error") /\ UNCHANGED adrift
       \/ Is(r, "create") /\ Goes(r, "error") /\ UNCHANGED adrift
       \/ Is(r, "expired") /\ Goes(r, "refused") /\ UNCHANGED adrift
       \/ /\ Is(r, "delete") /\ request[r].kind = "refresh"
          /\ Goes(r, "answer")
          /\ adrift' = adrift \cup {request[r].old}
       \/ Is(r, "delete") /\ request[r].kind = "logout" /\ Goes(r, "error") /\ UNCHANGED adrift
    /\ UNCHANGED <<tokens, stale, made, held, spent>>

\* The device is answered: by a token, unless it has logged out or moved on to
\* another since, by a refusal, which ends its session, or by an error.
Answer(r) ==
    /\ request[r] # Idle /\ request[r].step \in {"answer", "refused", "error"}
    /\ LET old == request[r].old
           new == request[r].new
       IN
       \/ /\ Is(r, "answer") /\ request[r].kind = "login"
          /\ held' = new
          /\ adrift' = adrift \cup ({held} \ {0})
       \/ /\ Is(r, "answer") /\ request[r].kind = "refresh"
          /\ held' = IF held = old THEN new ELSE held
          /\ adrift' = IF held = old THEN adrift ELSE adrift \cup {new}
       \/ /\ \/ Is(r, "answer") /\ request[r].kind = "logout"
             \/ Is(r, "refused")
          /\ held' = IF held = old THEN 0 ELSE held
          /\ UNCHANGED adrift
       \/ Is(r, "error") /\ UNCHANGED <<held, adrift>>
    /\ request' = [request EXCEPT ![r] = Idle]
    /\ UNCHANGED <<tokens, stale, made, wants, spent>>

\* What remains of requests whose answers do not arrive.
Unanswered(R) ==
    /\ adrift' = adrift \cup ({request[r].new : r \in R} \ {0})
    /\ spent' = spent \cup ({request[r].old : r \in R} \ (tokens \cup {0}))

AnswerLost(r) ==
    /\ request[r] # Idle /\ request[r].step \in {"answer", "refused", "error"}
    /\ wants.lost > 0 /\ wants' = [wants EXCEPT !.lost = @ - 1]
    /\ Unanswered({r})
    /\ request' = [request EXCEPT ![r] = Idle]
    /\ UNCHANGED <<tokens, stale, made, held>>

Expire(t) ==
    /\ t \in Ids \ stale
    /\ wants.expiries > 0 /\ wants' = [wants EXCEPT !.expiries = @ - 1]
    /\ stale' = stale \cup {t}
    /\ UNCHANGED <<tokens, made, held, request, adrift, spent>>

\* The process is killed: its requests vanish.
SignInRestart ==
    /\ Unanswered({r \in Requests : request[r] # Idle})
    /\ request' = [r \in Requests |-> Idle]
    /\ UNCHANGED <<tokens, stale, made, held, wants>>

SignInNext ==
    \/ \E r \in Requests :
          \/ AskLogin(r) \/ AskWithToken(r, "refresh") \/ AskWithToken(r, "logout")
          \/ FindToken(r) \/ CreateToken(r) \/ DeleteToken(r) \/ StatementFails(r)
          \/ Answer(r) \/ AnswerLost(r)
    \/ \E t \in Ids : Expire(t)

SignInSpec ==
    SignInInit /\ wants \in SignInWants /\ [][SignInNext \/ SignInRestart]_signInVars

-----------------------------------------------------------------------------
(* Properties                                                              *)

\* A device keeps its session: the token it holds can be refreshed, whatever
\* statement failed, unless the token expired, a request of the device that took it
\* away is about to be answered, or the answer of such a request was lost.
SessionKept ==
    held # 0 =>
        \/ held \in tokens \cup stale \cup spent
        \/ \E r \in Pending : request[r].step \in {"answer", "refused"} /\ request[r].old = held

\* Refreshing rotates: a token that has not expired lives on only on the device,
\* with a request that made it, or adrift; so that after a logout no other is left.
OldTokensEnd ==
    tokens \ (stale \cup adrift) \subseteq {held} \cup {request[r].new : r \in Pending}

=============================================================================
