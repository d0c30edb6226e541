----------------------------- MODULE Accounts -----------------------------
(***************************************************************************)
(* The account of one email address: its row of users, its sessions, its   *)
(* email verification and password reset tokens, the rate limit of its     *)
(* logins, and the API requests that work on them at the same time         *)
(* (crates/api).                                                           *)
(*                                                                         *)
(* Every action is one SQL statement, but for the transaction that         *)
(* confirms an address, whose two rows nobody can see in between.  A       *)
(* password reset is three actions, since sessions may be opened between   *)
(* its statement that revokes and its commit.  The buckets of the other    *)
(* routes work like that of logins and are not kept: a refused request     *)
(* changes nothing else.  Whether a password is right is the client's      *)
(* affair.  Audit rows come last and change nothing more.                  *)
(***************************************************************************)
EXTENDS RateLimit

CONSTANTS
  MaxSessions,  \* bound on the sessions ever opened
  MaxTokens,    \* bound on the tokens ever issued
  Requests      \* concurrent API requests

ASSUME AccountsAssumption == MaxSessions \in Nat /\ MaxTokens \in Nat

Sessions == 1 .. MaxSessions
Tokens   == 1 .. MaxTokens
None     == 0

VARIABLES
  registered, verified,  \* the row of users, and email_verified_at
  session,   \* state of each session: revoked_at, expires_at
  from,      \* the session that was refreshed to open it
  token,     \* state of each token: consumed_at, expires_at
  kind,      \* its table
  changes,   \* how often a token has changed the password
  pc, at,    \* where each request is, and the session or token it works on
  doomed,    \* sessions the reset in progress has revoked, not committed
  closing,   \* sessions up to this were there when it revoked
  closed     \* the same of resets that have committed

userVars    == <<registered, verified>>
sessionVars == <<session, from>>
tokenVars   == <<token, kind, changes>>
requestVars == <<pc, at>>
resetVars   == <<doomed, closing, closed>>
vars == <<limitVars, userVars, sessionVars, tokenVars, requestVars, resetVars>>

SessionStates == {"absent", "live", "revoked", "expired"}
TokenStates   == {"absent", "open", "consumed", "expired"}
Kinds         == {"verification", "reset"}
Resetting     == {"resetting", "revoking"}
Steps == {"idle", "checking", "greeting", "opening", "refreshing", "leaving"}
           \cup Resetting

(* The columns are of their types, and requests hold what their step says. *)
TypeOK ==
  /\ RateLimitTypeOK
  /\ registered \in BOOLEAN /\ verified \in BOOLEAN
  /\ session \in [Sessions -> SessionStates]
  /\ from \in [Sessions -> Sessions \cup {None}]
  /\ token \in [Tokens -> TokenStates]
  /\ kind \in [Tokens -> Kinds]
  /\ changes \in [Tokens -> Nat]
  /\ pc \in [Requests -> Steps]
  /\ at \in [Requests -> Sessions \cup Tokens \cup {None}]
  /\ doomed \subseteq Sessions
  /\ closing \in 0 .. MaxSessions /\ closed \in 0 .. MaxSessions

Init ==
  /\ RateLimitInit
  /\ registered = FALSE /\ verified = FALSE
  /\ session = [s \in Sessions |-> "absent"]
  /\ from = [s \in Sessions |-> None]
  /\ token = [t \in Tokens |-> "absent"]
  /\ kind = [t \in Tokens |-> "verification"]
  /\ changes = [t \in Tokens |-> 0]
  /\ pc = [r \in Requests |-> "idle"]
  /\ at = [r \in Requests |-> None]
  /\ doomed = {} /\ closing = 0 /\ closed = 0

(* Row locks: a reset in progress holds its token, the user and, once it   *)
(* has revoked them, sessions.                                             *)
UserLocked       == \E r \in Requests : pc[r] \in Resetting
SessionLocked(s) == s \in doomed

Goes(r, step, item) ==
  /\ pc' = [pc EXCEPT ![r] = step]
  /\ at' = [at EXCEPT ![r] = item]

Ends(r) == Goes(r, "idle", None)

---------------------------------------------------------------------------
(* Registration and login.                                                 *)

RegisterUser(r) ==
  /\ pc[r] = "idle"
  /\ ~registered
  /\ registered' = TRUE
  /\ Goes(r, "greeting", None)
  /\ UNCHANGED <<limitVars, verified, sessionVars, tokenVars, resetVars>>

Issue(k) ==
  \E t \in Tokens :
    /\ token[t] = "absent"
    /\ \A u \in Tokens : u < t => token[u] # "absent"
    /\ token' = [token EXCEPT ![t] = "open"]
    /\ kind' = [kind EXCEPT ![t] = k]
    /\ UNCHANGED changes

CreateEmailVerificationToken(r) ==
  /\ pc[r] = "greeting"
  /\ Issue("verification")
  /\ Goes(r, "opening", None)
  /\ UNCHANGED <<limitVars, userVars, sessionVars, resetVars>>

LoginUser(r) ==
  /\ pc[r] = "idle"
  /\ \E ok \in BOOLEAN :
       /\ EnforceAuthRateLimit(ok)
       /\ Goes(r, IF ok THEN "checking" ELSE "idle", None)
  /\ UNCHANGED <<userVars, sessionVars, tokenVars, resetVars>>

CheckPassword(r) ==
  /\ pc[r] = "checking"
  /\ registered /\ verified
  /\ Goes(r, "opening", None)
  /\ UNCHANGED <<limitVars, userVars, sessionVars, tokenVars, resetVars>>

SessionForUser(r) ==
  /\ pc[r] = "opening"
  /\ \E s \in Sessions :
       /\ session[s] = "absent"
       /\ \A u \in Sessions : u < s => session[u] # "absent"
       /\ session' = [session EXCEPT ![s] = "live"]
       /\ from' = [from EXCEPT ![s] = at[r]]
  /\ Ends(r)
  /\ UNCHANGED <<limitVars, userVars, tokenVars, resetVars>>

---------------------------------------------------------------------------
(* Logout and refresh: the session is looked up, then revoked.             *)

CurrentSession(r, s, step) ==
  /\ pc[r] = "idle"
  /\ session[s] = "live"
  /\ ~SessionLocked(s)
  /\ Goes(r, step, s)
  /\ UNCHANGED <<limitVars, userVars, sessionVars, tokenVars, resetVars>>

LogoutUser(r)     == \E s \in Sessions : CurrentSession(r, s, "leaving")
RefreshSession(r) == \E s \in Sessions : CurrentSession(r, s, "refreshing")

(* UPDATE ... WHERE revoked_at IS NULL: a session revoked meanwhile is no   *)
(* error.                                                                  *)
Revoked(S) ==
  [s \in Sessions |-> IF s \in S /\ session[s] \in {"live", "expired"}
                        THEN "revoked" ELSE session[s]]

(* Mutant: a refresh that opens the new session and leaves the old one to  *)
(* expire.                                                                 *)
RevokeAtLogoutOnly(r) ==
  /\ pc[r] \in {"leaving", "refreshing"}
  /\ ~SessionLocked(at[r])
  /\ IF pc[r] = "leaving" THEN session' = Revoked({at[r]}) /\ Ends(r)
                          ELSE UNCHANGED session /\ Goes(r, "opening", at[r])
  /\ UNCHANGED <<limitVars, userVars, from, tokenVars, resetVars>>

RevokeSession(r) ==
  /\ pc[r] \in {"leaving", "refreshing"}
  /\ ~SessionLocked(at[r])
  /\ session' = Revoked({at[r]})
  /\ IF pc[r] = "leaving" THEN Ends(r) ELSE Goes(r, "opening", at[r])
  /\ UNCHANGED <<limitVars, userVars, from, tokenVars, resetVars>>

---------------------------------------------------------------------------
(* Tokens.                                                                 *)

RequestPasswordReset(r) ==
  /\ pc[r] = "idle"
  /\ registered
  /\ Issue("reset")
  /\ UNCHANGED <<limitVars, userVars, sessionVars, requestVars, resetVars>>

RequestEmailVerification(r) ==
  /\ pc[r] = "idle"
  /\ registered /\ ~verified
  /\ Issue("verification")
  /\ UNCHANGED <<limitVars, userVars, sessionVars, requestVars, resetVars>>

ConfirmEmailVerification(r) ==
  /\ pc[r] = "idle"
  /\ ~UserLocked
  /\ \E t \in Tokens :
       /\ token[t] = "open" /\ kind[t] = "verification"
       /\ token' = [token EXCEPT ![t] = "consumed"]
  /\ verified' = TRUE
  /\ UNCHANGED <<limitVars, registered, sessionVars, kind, changes, requestVars,
                 resetVars>>

(* Mutant: the token looked up before the transaction, without a lock on   *)
(* its row.                                                                *)
ConfirmUnlocked(r) ==
  /\ pc[r] = "idle"
  /\ \E t \in Tokens : /\ token[t] = "open" /\ kind[t] = "reset"
                       /\ Goes(r, "resetting", t)
  /\ UNCHANGED <<limitVars, userVars, sessionVars, tokenVars, resetVars>>

(* The transaction consumes the token and writes the password ...          *)
ConfirmPasswordReset(r) ==
  /\ pc[r] = "idle"
  /\ ~UserLocked
  /\ \E t \in Tokens : /\ token[t] = "open" /\ kind[t] = "reset"
                       /\ Goes(r, "resetting", t)
  /\ UNCHANGED <<limitVars, userVars, sessionVars, tokenVars, resetVars>>

(* Mutant: a reset that revokes the latest session only.                   *)
RevokeLatest(r) ==
  /\ pc[r] = "resetting"
  /\ doomed' = {s \in Sessions : /\ session[s] \in {"live", "expired"}
                                 /\ \A u \in Sessions : session[u] = "live" => u <= s}
  /\ \E n \in 0 .. MaxSessions :
       (\A s \in Sessions : session[s] # "absent" <=> s <= n) /\ closing' = n
  /\ Goes(r, "revoking", at[r])
  /\ UNCHANGED <<limitVars, userVars, sessionVars, tokenVars, closed>>

(* ... revokes the sessions there are ...                                  *)
RevokeSessions(r) ==
  /\ pc[r] = "resetting"
  /\ doomed' = {s \in Sessions : session[s] \in {"live", "expired"}}
  /\ \E n \in 0 .. MaxSessions :
       (\A s \in Sessions : session[s] # "absent" <=> s <= n) /\ closing' = n
  /\ Goes(r, "revoking", at[r])
  /\ UNCHANGED <<limitVars, userVars, sessionVars, tokenVars, closed>>

(* ... and commits.                                                        *)
CommitReset(r) ==
  /\ pc[r] = "revoking"
  /\ token' = [token EXCEPT ![at[r]] = "consumed"]
  /\ changes' = [changes EXCEPT ![at[r]] = @ + 1]
  /\ session' = Revoked(doomed)
  /\ doomed' = {} /\ closing' = 0
  /\ closed' = closing
  /\ Ends(r)
  /\ UNCHANGED <<limitVars, userVars, from, kind>>

---------------------------------------------------------------------------
(* An error, a wrong password, a crash or a disconnect: what was not        *)
(* committed is rolled back.                                               *)
RequestEnds(r) ==
  /\ pc[r] # "idle"
  /\ IF pc[r] = "revoking" THEN doomed' = {} /\ closing' = 0
                           ELSE UNCHANGED <<doomed, closing>>
  /\ Ends(r)
  /\ UNCHANGED <<limitVars, userVars, sessionVars, tokenVars, closed>>

SessionExpires(s) ==
  /\ session[s] = "live"
  /\ session' = [session EXCEPT ![s] = "expired"]
  /\ UNCHANGED <<limitVars, userVars, from, tokenVars, requestVars, resetVars>>

TokenExpires(t) ==
  /\ token[t] = "open"
  /\ token' = [token EXCEPT ![t] = "expired"]
  /\ UNCHANGED <<limitVars, userVars, sessionVars, kind, changes, requestVars, resetVars>>

ClockTicks ==
  /\ TimePasses
  /\ UNCHANGED <<userVars, sessionVars, tokenVars, requestVars, resetVars>>

RequestStep(r) ==
  \/ RegisterUser(r) \/ CreateEmailVerificationToken(r)
  \/ LoginUser(r) \/ CheckPassword(r) \/ SessionForUser(r)
  \/ LogoutUser(r) \/ RefreshSession(r) \/ RevokeSession(r)
  \/ RequestPasswordReset(r) \/ RequestEmailVerification(r)
  \/ ConfirmEmailVerification(r)
  \/ ConfirmPasswordReset(r) \/ RevokeSessions(r) \/ CommitReset(r)
  \/ RequestEnds(r)

Next ==
  \/ ClockTicks
  \/ \E s \in Sessions : SessionExpires(s)
  \/ \E t \in Tokens : TokenExpires(t)
  \/ \E r \in Requests : RequestStep(r)

Spec == Init /\ [][Next]_vars

---------------------------------------------------------------------------
(* A token changes the password once at most, and is consumed if and only  *)
(* if it did: two confirmations with one token, or one that fails half-way, *)
(* leave the two in step (api 562-596).                                    *)
TokenOnce ==
  \A t \in Tokens :
    changes[t] = IF kind[t] = "reset" /\ token[t] = "consumed" THEN 1 ELSE 0

(* "Existing sessions were revoked": none of the sessions there were when a *)
(* committed reset revoked is live again, whatever requests were using them *)
(* (api 591-596, 609).                                                     *)
ResetCloses == \A s \in Sessions : s <= closed => session[s] = "revoked"

(* A session that was refreshed is over before its successor opens, also   *)
(* when a logout, a reset or a second refresh of it comes in between (api  *)
(* 501-508).                                                               *)
RefreshReplaces ==
  \A s \in Sessions : from[s] # None => session[from[s]] = "revoked"

---------------------------------------------------------------------------
(* What the invariants above rest on.  One reset at a time has the user's  *)
(* row, and its token is not consumed yet; a request that logs out or      *)
(* refreshes holds a session that was opened, and one that is about to     *)
(* open a successor has revoked it.                                        *)
RequestsAgree ==
  /\ \A r, q \in Requests : r # q => ~(pc[r] \in Resetting /\ pc[q] \in Resetting)
  /\ \A r \in Requests :
       /\ pc[r] \in Resetting =>
            at[r] \in Tokens /\ kind[at[r]] = "reset" /\ token[at[r]] \in {"open", "expired"}
       /\ pc[r] \in {"leaving", "refreshing"} =>
            at[r] \in Sessions /\ session[at[r]] # "absent"
       /\ pc[r] = "opening" /\ at[r] # None =>
            at[r] \in Sessions /\ session[at[r]] = "revoked"

(* Between its statement and its commit a reset holds every session there  *)
(* was that is not revoked already.                                        *)
ResetAgrees ==
  \A r \in Requests : pc[r] = "revoking" =>
    \A s \in Sessions :
      s <= closing => s \in doomed \/ session[s] = "revoked"

DoomedExist == \A s \in doomed : session[s] # "absent"

IInv == /\ TypeOK
        /\ TokenOnce
        /\ ResetCloses
        /\ RefreshReplaces
        /\ RequestsAgree
        /\ ResetAgrees
        /\ DoomedExist
===========================================================================
