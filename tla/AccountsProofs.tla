-------------------------- MODULE AccountsProofs --------------------------
(***************************************************************************)
(* Proofs about Accounts, for any number of sessions, tokens and requests. *)
(***************************************************************************)
EXTENDS Accounts, RateLimitProofs

(* The initial state satisfies the inductive invariant.                    *)
LEMMA InitIInv == Init => IInv
<1> SUFFICES ASSUME Init PROVE IInv
  OBVIOUS
<1>1. RateLimitTypeOK
  BY WindowsInit DEF Init, WindowsAgree
<1>2. TypeOK
  <2>1. /\ session \in [Sessions -> SessionStates]
        /\ token \in [Tokens -> TokenStates]
        /\ kind \in [Tokens -> Kinds]
    BY DEF Init, SessionStates, TokenStates, Kinds
  <2>2. /\ from \in [Sessions -> Sessions \cup {None}]
        /\ changes \in [Tokens -> Nat]
    BY DEF Init
  <2>3. /\ pc \in [Requests -> Steps]
        /\ at \in [Requests -> Sessions \cup Tokens \cup {None}]
    BY DEF Init, Steps
  <2>4. /\ registered \in BOOLEAN /\ verified \in BOOLEAN
        /\ doomed \subseteq Sessions
    BY Zenon DEF Init
  <2>5. closing \in 0 .. MaxSessions /\ closed \in 0 .. MaxSessions
    <3>1. closing = 0 /\ closed = 0
      BY Zenon DEF Init
    <3> QED BY <3>1, AccountsAssumption
  <2> QED BY <1>1, <2>1, <2>2, <2>3, <2>4, <2>5 DEF TypeOK
<1>3. TokenOnce /\ RequestsAgree /\ ResetAgrees
  BY DEF Init, TokenOnce, RequestsAgree, ResetAgrees, Resetting
<1>4. ResetCloses /\ RefreshReplaces /\ DoomedExist
  BY DEF Init, ResetCloses, RefreshReplaces, DoomedExist, Sessions
<1> QED BY <1>2, <1>3, <1>4 DEF IInv

(* A request that goes on to a step outside a reset, with an item that fits *)
(* the step, while sessions and tokens stay as they are.                   *)
LEMMA GoingKeepsIInv ==
  ASSUME IInv, RateLimitTypeOK', registered' \in BOOLEAN, verified' \in BOOLEAN,
         UNCHANGED <<sessionVars, tokenVars>>,
         NEW r \in Requests, NEW step \in Steps \ Resetting,
         NEW item \in Sessions \cup {None}, Goes(r, step, item),
         step \in {"leaving", "refreshing"} =>
           item \in Sessions /\ session[item] # "absent",
         step = "opening" /\ item # None =>
           item \in Sessions /\ session[item] = "revoked",
         closed' = closed,
         \/ doomed' = doomed /\ closing' = closing
         \/ doomed' = {} /\ closing' = 0 /\ pc[r] \in Resetting
  PROVE  IInv'
<1>1. /\ UNCHANGED <<session, from, token, kind, changes, closed>>
      /\ pc' = [pc EXCEPT ![r] = step]
      /\ at' = [at EXCEPT ![r] = item]
      /\ step \notin Resetting
      /\ doomed' \subseteq doomed /\ closing' \in 0 .. MaxSessions
  BY AccountsAssumption DEF IInv, TypeOK, Goes, sessionVars, tokenVars
<1>2. TypeOK'
  BY <1>1 DEF IInv, TypeOK, Resetting
<1>3. TokenOnce' /\ ResetCloses' /\ RefreshReplaces' /\ DoomedExist'
  BY <1>1 DEF IInv, TokenOnce, ResetCloses, RefreshReplaces, DoomedExist
<1>4. RequestsAgree'
  BY <1>1 DEF IInv, TypeOK, RequestsAgree, Resetting
<1>5. ResetAgrees'
  <2> SUFFICES ASSUME NEW q \in Requests, pc'[q] = "revoking", NEW s \in Sessions,
                      s <= closing'
               PROVE  s \in doomed' \/ session[s] = "revoked"
    BY <1>1 DEF ResetAgrees
  <2>1. q # r /\ pc[q] = "revoking"
    BY <1>1 DEF IInv, TypeOK, Resetting
  <2>2. pc[r] \notin Resetting
    BY <2>1 DEF IInv, RequestsAgree, Resetting
  <2> QED BY <2>1, <2>2 DEF IInv, ResetAgrees
<1> QED BY <1>2, <1>3, <1>4, <1>5 DEF IInv

(* The rows of tokens grow by an open one.                                 *)
LEMMA IssueKeepsTokens ==
  ASSUME IInv, NEW k \in Kinds, Issue(k)
  PROVE  /\ token' \in [Tokens -> TokenStates]
         /\ kind' \in [Tokens -> Kinds]
         /\ changes' = changes
         /\ TokenOnce'
         /\ \A t \in Tokens : token[t] # "absent" => token'[t] = token[t] /\ kind'[t] = kind[t]
<1>1. PICK t \in Tokens : /\ token[t] = "absent"
                          /\ token' = [token EXCEPT ![t] = "open"]
                          /\ kind' = [kind EXCEPT ![t] = k]
                          /\ UNCHANGED changes
  BY DEF Issue
<1>2. changes[t] = 0
  BY <1>1 DEF IInv, TokenOnce
<1>3. /\ token' \in [Tokens -> TokenStates]
      /\ kind' \in [Tokens -> Kinds]
      /\ \A u \in Tokens : token[u] # "absent" => token'[u] = token[u] /\ kind'[u] = kind[u]
  BY <1>1 DEF IInv, TypeOK, TokenStates
<1>4. TokenOnce'
  BY <1>1, <1>2 DEF IInv, TypeOK, TokenOnce
<1> QED BY <1>1, <1>3, <1>4

(* Issuing a token leaves sessions, requests and resets in order.          *)
LEMMA IssueKeepsIInv ==
  ASSUME IInv, NEW k \in Kinds, Issue(k),
         UNCHANGED <<limitVars, userVars, sessionVars, requestVars, resetVars>>
  PROVE  IInv'
<1>1. /\ UNCHANGED <<now, windowStart, attempts, admissions, registered, verified,
                     session, from, pc, at, doomed, closing, closed>>
  BY DEF limitVars, userVars, sessionVars, requestVars, resetVars
<1>2. TypeOK'
  BY <1>1, IssueKeepsTokens DEF IInv, TypeOK, RateLimitTypeOK
<1>3. ResetCloses' /\ RefreshReplaces' /\ ResetAgrees' /\ DoomedExist'
  BY <1>1 DEF IInv, ResetCloses, RefreshReplaces, ResetAgrees, DoomedExist
<1>4. RequestsAgree'
  BY <1>1, IssueKeepsTokens DEF IInv, RequestsAgree
<1> QED BY <1>2, <1>3, <1>4, IssueKeepsTokens DEF IInv

(* Registration goes on from its verification token (api 387-437).         *)
LEMMA CreateTokenKeepsIInv ==
  ASSUME IInv, NEW r \in Requests, CreateEmailVerificationToken(r)
  PROVE  IInv'
<1>1. /\ UNCHANGED <<now, windowStart, attempts, admissions, registered, verified,
                     session, from, doomed, closing, closed>>
      /\ pc[r] = "greeting"
      /\ pc' = [pc EXCEPT ![r] = "opening"]
      /\ at' = [at EXCEPT ![r] = None]
      /\ Issue("verification") /\ "verification" \in Kinds
  BY DEF CreateEmailVerificationToken, Goes, limitVars, userVars, sessionVars,
         resetVars, Kinds
<1>2. TypeOK'
  BY <1>1, IssueKeepsTokens DEF IInv, TypeOK, RateLimitTypeOK, Steps
<1>3. ResetCloses' /\ RefreshReplaces' /\ DoomedExist'
  BY <1>1 DEF IInv, ResetCloses, RefreshReplaces, DoomedExist
<1>4. ResetAgrees'
  BY <1>1 DEF IInv, TypeOK, ResetAgrees
<1>5. RequestsAgree'
  BY <1>1, IssueKeepsTokens DEF IInv, TypeOK, RequestsAgree, Resetting
<1> QED BY <1>1, <1>2, <1>3, <1>4, <1>5, IssueKeepsTokens DEF IInv

(* A session is inserted (api 2957-2989): a reset that has revoked already *)
(* does not count it.                                                      *)
LEMMA OpenKeepsIInv ==
  ASSUME IInv, NEW r \in Requests, SessionForUser(r)
  PROVE  IInv'
<1>1. PICK s \in Sessions : /\ session[s] = "absent"
                            /\ session' = [session EXCEPT ![s] = "live"]
                            /\ from' = [from EXCEPT ![s] = at[r]]
  BY DEF SessionForUser
<1>2. /\ UNCHANGED <<now, windowStart, attempts, admissions, registered, verified,
                     token, kind, changes, doomed, closing, closed>>
      /\ pc[r] = "opening"
      /\ pc' = [pc EXCEPT ![r] = "idle"]
      /\ at' = [at EXCEPT ![r] = None]
  BY DEF SessionForUser, Ends, Goes, limitVars, userVars, tokenVars, resetVars
<1>3. at[r] # None => at[r] \in Sessions /\ session[at[r]] = "revoked"
  BY <1>2 DEF IInv, RequestsAgree
<1>4. TypeOK'
  BY <1>1, <1>2, <1>3 DEF IInv, TypeOK, RateLimitTypeOK, Steps, SessionStates
<1>5. TokenOnce'
  BY <1>2 DEF IInv, TokenOnce
<1>6. /\ s \notin doomed /\ ~ s <= closed
      /\ \A q \in Requests : pc[q] = "revoking" => ~ s <= closing
  BY <1>1 DEF IInv, DoomedExist, ResetCloses, ResetAgrees
<1>7. ResetCloses' /\ DoomedExist'
  BY <1>1, <1>2, <1>6 DEF IInv, TypeOK, ResetCloses, DoomedExist
<1>8. RefreshReplaces'
  BY <1>1, <1>3 DEF IInv, TypeOK, RefreshReplaces, None
<1>9. ResetAgrees'
  BY <1>1, <1>2, <1>6 DEF IInv, TypeOK, ResetAgrees
<1>10. RequestsAgree'
  BY <1>1, <1>2 DEF IInv, TypeOK, RequestsAgree, Resetting
<1> QED BY <1>4, <1>5, <1>7, <1>8, <1>9, <1>10 DEF IInv

(* The statement that revokes never brings a session back.                 *)
LEMMA RevokedIsFinal ==
  ASSUME TypeOK, NEW S \in SUBSET Sessions, session' = Revoked(S)
  PROVE  /\ session' \in [Sessions -> SessionStates]
         /\ \A s \in Sessions :
              /\ session[s] = "revoked" => session'[s] = "revoked"
              /\ session[s] # "absent" <=> session'[s] # "absent"
              /\ s \in S /\ session[s] # "absent" => session'[s] = "revoked"
  BY DEF TypeOK, Revoked, SessionStates

(* Logout and refresh revoke the session they hold (api 477-482, 501-506). *)
LEMMA RevokeKeepsIInv ==
  ASSUME IInv, NEW r \in Requests, RevokeSession(r)
  PROVE  IInv'
<1>1. /\ UNCHANGED <<now, windowStart, attempts, admissions, registered, verified,
                     from, token, kind, changes, doomed, closing, closed>>
      /\ pc[r] \in {"leaving", "refreshing"}
      /\ session' = Revoked({at[r]})
      /\ at[r] \in Sessions /\ session[at[r]] # "absent"
  BY DEF RevokeSession, limitVars, userVars, tokenVars, resetVars, IInv, RequestsAgree
<1>2. /\ session' \in [Sessions -> SessionStates]
      /\ \A s \in Sessions :
           /\ session[s] = "revoked" => session'[s] = "revoked"
           /\ session[s] # "absent" <=> session'[s] # "absent"
      /\ session'[at[r]] = "revoked"
  BY <1>1, RevokedIsFinal DEF IInv
<1>3. PICK step \in {"idle", "opening"}, item \in {None, at[r]} :
        /\ pc' = [pc EXCEPT ![r] = step]
        /\ at' = [at EXCEPT ![r] = item]
  BY DEF RevokeSession, Ends, Goes
<1>4. TypeOK'
  BY <1>1, <1>2, <1>3 DEF IInv, TypeOK, RateLimitTypeOK, Steps
<1>5. TokenOnce' /\ ResetCloses' /\ RefreshReplaces' /\ DoomedExist'
  BY <1>1, <1>2 DEF IInv, TypeOK, TokenOnce, ResetCloses, RefreshReplaces, DoomedExist,
                    None
<1>6. ResetAgrees'
  BY <1>1, <1>2, <1>3 DEF IInv, TypeOK, ResetAgrees
<1>7. RequestsAgree'
  <2>1. ASSUME NEW q \in Requests, q # r
        PROVE  pc'[q] = pc[q] /\ at'[q] = at[q]
    BY <1>3, <2>1 DEF IInv, TypeOK
  <2>2. pc'[r] = step /\ at'[r] = item /\ step \notin Resetting
    BY <1>3 DEF IInv, TypeOK, Resetting
  <2> QED BY <1>1, <1>2, <2>1, <2>2 DEF IInv, RequestsAgree, None, Resetting
<1> QED BY <1>4, <1>5, <1>6, <1>7 DEF IInv

(* Confirming an address touches no reset token (api 651-674).             *)
LEMMA VerifyKeepsIInv ==
  ASSUME IInv, NEW r \in Requests, ConfirmEmailVerification(r)
  PROVE  IInv'
<1>1. PICK t \in Tokens : /\ token[t] = "open" /\ kind[t] = "verification"
                          /\ token' = [token EXCEPT ![t] = "consumed"]
  BY DEF ConfirmEmailVerification
<1>2. /\ UNCHANGED <<now, windowStart, attempts, admissions, registered, session, from,
                     kind, changes, pc, at, doomed, closing, closed>>
      /\ verified' = TRUE
  BY DEF ConfirmEmailVerification, limitVars, sessionVars, requestVars, resetVars
<1>3. TypeOK'
  BY <1>1, <1>2 DEF IInv, TypeOK, RateLimitTypeOK, TokenStates
<1>4. TokenOnce'
  BY <1>1, <1>2 DEF IInv, TypeOK, TokenOnce
<1>5. ResetCloses' /\ RefreshReplaces' /\ ResetAgrees' /\ DoomedExist'
  BY <1>2 DEF IInv, ResetCloses, RefreshReplaces, ResetAgrees, DoomedExist
<1>6. RequestsAgree'
  BY <1>1, <1>2 DEF IInv, TypeOK, RequestsAgree
<1> QED BY <1>3, <1>4, <1>5, <1>6 DEF IInv

(* A reset begins: it alone has the user's row (api 562-590).              *)
LEMMA BeginKeepsIInv ==
  ASSUME IInv, NEW r \in Requests, ConfirmPasswordReset(r)
  PROVE  IInv'
<1>1. PICK t \in Tokens : /\ token[t] = "open" /\ kind[t] = "reset"
                          /\ pc' = [pc EXCEPT ![r] = "resetting"]
                          /\ at' = [at EXCEPT ![r] = t]
  BY DEF ConfirmPasswordReset, Goes
<1>2. /\ UNCHANGED <<now, windowStart, attempts, admissions, registered, verified, session,
                     from, token, kind, changes, doomed, closing, closed>>
      /\ \A q \in Requests : pc[q] \notin Resetting
  BY DEF ConfirmPasswordReset, UserLocked, limitVars, userVars, sessionVars, tokenVars,
         resetVars
<1>3. TypeOK'
  BY <1>1, <1>2 DEF IInv, TypeOK, RateLimitTypeOK, Steps, Resetting
<1>4. TokenOnce' /\ ResetCloses' /\ RefreshReplaces' /\ DoomedExist'
  BY <1>2 DEF IInv, TokenOnce, ResetCloses, RefreshReplaces, DoomedExist
<1>5. ResetAgrees'
  BY <1>1, <1>2 DEF IInv, TypeOK, ResetAgrees, Resetting
<1>6. RequestsAgree'
  BY <1>1, <1>2 DEF IInv, TypeOK, RequestsAgree, Resetting
<1> QED BY <1>3, <1>4, <1>5, <1>6 DEF IInv

(* It revokes every session there is that is not revoked (api 591-595).    *)
LEMMA DoomKeepsIInv ==
  ASSUME IInv, NEW r \in Requests, RevokeSessions(r)
  PROVE  IInv'
<1>1. PICK n \in 0 .. MaxSessions :
        (\A s \in Sessions : session[s] # "absent" <=> s <= n) /\ closing' = n
  BY DEF RevokeSessions
<1>2. /\ UNCHANGED <<now, windowStart, attempts, admissions, registered, verified, session,
                     from, token, kind, changes, closed>>
      /\ pc[r] = "resetting"
      /\ doomed' = {s \in Sessions : session[s] \in {"live", "expired"}}
      /\ pc' = [pc EXCEPT ![r] = "revoking"]
      /\ at' = [at EXCEPT ![r] = at[r]]
  BY DEF RevokeSessions, Goes, limitVars, userVars, sessionVars, tokenVars
<1>3. TypeOK'
  BY <1>1, <1>2 DEF IInv, TypeOK, RateLimitTypeOK, Steps, Resetting
<1>4. TokenOnce' /\ ResetCloses' /\ RefreshReplaces' /\ DoomedExist'
  BY <1>2 DEF IInv, TokenOnce, ResetCloses, RefreshReplaces, DoomedExist
<1>5. ResetAgrees'
  BY <1>1, <1>2 DEF IInv, TypeOK, ResetAgrees, SessionStates
<1>6. RequestsAgree'
  BY <1>2 DEF IInv, TypeOK, RequestsAgree, Resetting
<1> QED BY <1>3, <1>4, <1>5, <1>6 DEF IInv

(* It commits: its token is spent and the sessions it held are over.       *)
LEMMA CommitKeepsIInv ==
  ASSUME IInv, NEW r \in Requests, CommitReset(r)
  PROVE  IInv'
<1>1. /\ UNCHANGED <<now, windowStart, attempts, admissions, registered, verified, from, kind>>
      /\ pc[r] = "revoking"
      /\ token' = [token EXCEPT ![at[r]] = "consumed"]
      /\ changes' = [changes EXCEPT ![at[r]] = @ + 1]
      /\ session' = Revoked(doomed)
      /\ doomed' = {} /\ closing' = 0 /\ closed' = closing
      /\ pc' = [pc EXCEPT ![r] = "idle"]
      /\ at' = [at EXCEPT ![r] = None]
  BY DEF CommitReset, Ends, Goes, limitVars, userVars
<1>2. /\ session' \in [Sessions -> SessionStates]
      /\ \A s \in Sessions :
           /\ session[s] = "revoked" => session'[s] = "revoked"
           /\ session[s] # "absent" <=> session'[s] # "absent"
           /\ s \in doomed => session'[s] = "revoked"
  BY <1>1, RevokedIsFinal DEF IInv, TypeOK, DoomedExist
<1>3. /\ at[r] \in Tokens /\ kind[at[r]] = "reset"
      /\ token[at[r]] \in {"open", "expired"} /\ changes[at[r]] = 0
  BY <1>1 DEF IInv, RequestsAgree, TokenOnce, Resetting
<1>4. \A q \in Requests : q # r => pc[q] \notin Resetting
  BY <1>1 DEF IInv, RequestsAgree, Resetting
<1>5. TypeOK'
  BY <1>1, <1>2, <1>3, AccountsAssumption
  DEF IInv, TypeOK, RateLimitTypeOK, Steps, TokenStates
<1>6. TokenOnce'
  BY <1>1, <1>3 DEF IInv, TypeOK, TokenOnce
<1>7. ResetCloses'
  BY <1>1, <1>2 DEF IInv, ResetCloses, ResetAgrees
<1>8. RefreshReplaces' /\ DoomedExist'
  BY <1>1, <1>2 DEF IInv, TypeOK, RefreshReplaces, DoomedExist, None
<1>9. ResetAgrees'
  BY <1>1, <1>4 DEF IInv, TypeOK, ResetAgrees, Resetting
<1>10. RequestsAgree'
  BY <1>1, <1>2, <1>4 DEF IInv, TypeOK, RequestsAgree, Resetting
<1> QED BY <1>5, <1>6, <1>7, <1>8, <1>9, <1>10 DEF IInv

(* A session or a token runs out of time.                                  *)
LEMMA ExpiryKeepsIInv ==
  ASSUME IInv, \/ \E s \in Sessions : SessionExpires(s)
               \/ \E t \in Tokens : TokenExpires(t)
  PROVE  IInv'
<1>1. ASSUME NEW s \in Sessions, SessionExpires(s)
      PROVE  IInv'
  <2>1. /\ UNCHANGED <<now, windowStart, attempts, admissions, registered, verified, from,
                       token, kind, changes, pc, at, doomed, closing, closed>>
        /\ session[s] = "live"
        /\ session' = [session EXCEPT ![s] = "expired"]
    BY <1>1 DEF SessionExpires, limitVars, userVars, tokenVars, requestVars, resetVars
  <2>2. TypeOK'
    BY <2>1 DEF IInv, TypeOK, RateLimitTypeOK, SessionStates
  <2>3. TokenOnce' /\ ResetCloses' /\ RefreshReplaces' /\ ResetAgrees' /\ DoomedExist'
    BY <2>1 DEF IInv, TypeOK, TokenOnce, ResetCloses, RefreshReplaces, ResetAgrees,
                DoomedExist
  <2>4. RequestsAgree'
    BY <2>1 DEF IInv, TypeOK, RequestsAgree
  <2> QED BY <2>2, <2>3, <2>4 DEF IInv
<1>2. ASSUME NEW t \in Tokens, TokenExpires(t)
      PROVE  IInv'
  <2>1. /\ UNCHANGED <<now, windowStart, attempts, admissions, registered, verified, session,
                       from, kind, changes, pc, at, doomed, closing, closed>>
        /\ token[t] = "open"
        /\ token' = [token EXCEPT ![t] = "expired"]
    BY <1>2 DEF TokenExpires, limitVars, userVars, sessionVars, requestVars, resetVars
  <2>2. TypeOK'
    BY <2>1 DEF IInv, TypeOK, RateLimitTypeOK, TokenStates
  <2>3. TokenOnce' /\ ResetCloses' /\ RefreshReplaces' /\ ResetAgrees' /\ DoomedExist'
    BY <2>1 DEF IInv, TypeOK, TokenOnce, ResetCloses, RefreshReplaces, ResetAgrees,
                DoomedExist
  <2>4. RequestsAgree'
    BY <2>1 DEF IInv, TypeOK, RequestsAgree
  <2> QED BY <2>2, <2>3, <2>4 DEF IInv
<1> QED BY <1>1, <1>2

(* Time passes, or nothing happens.                                        *)
LEMMA ClockKeepsIInv ==
  ASSUME IInv, ClockTicks \/ UNCHANGED vars
  PROVE  IInv'
<1>1. /\ UNCHANGED <<registered, verified, session, from, token, kind, changes, pc, at,
                     doomed, closing, closed>>
      /\ TimePasses \/ UNCHANGED limitVars
  BY DEF ClockTicks, vars, userVars, sessionVars, tokenVars, requestVars, resetVars
<1>2. RateLimitTypeOK'
  BY <1>1, LimitKeepsType DEF LimitStep, IInv, TypeOK
<1>3. TypeOK'
  BY <1>1, <1>2 DEF IInv, TypeOK
<1>4. /\ TokenOnce' /\ ResetCloses' /\ RefreshReplaces' /\ RequestsAgree'
      /\ ResetAgrees' /\ DoomedExist'
  BY <1>1 DEF IInv, TokenOnce, ResetCloses, RefreshReplaces, RequestsAgree, ResetAgrees,
              DoomedExist
<1> QED BY <1>3, <1>4 DEF IInv

(* Every step of every request keeps the inductive invariant.              *)
LEMMA NextIInv == IInv /\ [Next]_vars => IInv'
<1> SUFFICES ASSUME IInv, [Next]_vars PROVE IInv'
  OBVIOUS
<1>1. ASSUME NEW r \in Requests, RequestStep(r)
      PROVE  IInv'
  <2>0. /\ RateLimitTypeOK /\ registered \in BOOLEAN /\ verified \in BOOLEAN
        /\ None \in Sessions \cup {None}
        /\ {"idle", "checking", "greeting", "opening", "leaving", "refreshing"}
             \subseteq Steps \ Resetting
    BY DEF IInv, TypeOK, Steps, Resetting
  <2>1. CASE RegisterUser(r)
    <3>1. RateLimitTypeOK' /\ registered' \in BOOLEAN /\ verified' \in BOOLEAN
      BY <2>0, <2>1, LimitKeepsType DEF LimitStep, RegisterUser
    <3> QED BY <2>0, <2>1, <3>1, GoingKeepsIInv DEF RegisterUser, resetVars
  <2>2. CASE CreateEmailVerificationToken(r)
    BY <2>2, CreateTokenKeepsIInv
  <2>3. CASE LoginUser(r)
    <3>1. PICK ok \in BOOLEAN : /\ EnforceAuthRateLimit(ok)
                                /\ Goes(r, IF ok THEN "checking" ELSE "idle", None)
      BY <2>3 DEF LoginUser
    <3>2. PICK step \in {"checking", "idle"} : Goes(r, step, None)
      BY <3>1
    <3>3. RateLimitTypeOK' /\ UNCHANGED <<registered, verified>>
      BY <2>0, <2>3, <3>1, LimitKeepsType DEF LimitStep, LoginUser, userVars
    <3> QED BY <2>0, <2>3, <3>2, <3>3, GoingKeepsIInv DEF LoginUser, resetVars
  <2>4. CASE CheckPassword(r)
    <3>1. RateLimitTypeOK' /\ UNCHANGED <<registered, verified>>
      BY <2>0, <2>4, LimitKeepsType DEF LimitStep, CheckPassword, userVars
    <3> QED BY <2>0, <2>4, <3>1, GoingKeepsIInv DEF CheckPassword, resetVars
  <2>5. CASE SessionForUser(r)
    BY <2>5, OpenKeepsIInv
  <2>6. CASE LogoutUser(r) \/ RefreshSession(r)
    <3>1. PICK s \in Sessions, step \in {"leaving", "refreshing"} :
            CurrentSession(r, s, step)
      BY <2>6 DEF LogoutUser, RefreshSession
    <3>2. RateLimitTypeOK' /\ UNCHANGED <<registered, verified>>
      BY <2>0, <3>1, LimitKeepsType DEF LimitStep, CurrentSession, userVars
    <3> QED BY <2>0, <3>1, <3>2, GoingKeepsIInv DEF CurrentSession, resetVars
  <2>7. CASE RevokeSession(r)
    BY <2>7, RevokeKeepsIInv
  <2>8. CASE RequestPasswordReset(r) \/ RequestEmailVerification(r)
    BY <2>8, IssueKeepsIInv DEF RequestPasswordReset, RequestEmailVerification, Kinds
  <2>9. CASE ConfirmEmailVerification(r)
    BY <2>9, VerifyKeepsIInv
  <2>10. CASE ConfirmPasswordReset(r)
    BY <2>10, BeginKeepsIInv
  <2>11. CASE RevokeSessions(r)
    BY <2>11, DoomKeepsIInv
  <2>12. CASE CommitReset(r)
    BY <2>12, CommitKeepsIInv
  <2>13. CASE RequestEnds(r)
    <3>1. RateLimitTypeOK' /\ UNCHANGED <<registered, verified>>
      BY <2>0, <2>13, LimitKeepsType DEF LimitStep, RequestEnds, userVars
    <3>2. /\ Goes(r, "idle", None)
          /\ closed' = closed
          /\ \/ doomed' = doomed /\ closing' = closing
             \/ doomed' = {} /\ closing' = 0 /\ pc[r] \in Resetting
      BY <2>13 DEF RequestEnds, Ends, Resetting
    <3> QED BY <2>0, <2>13, <3>1, <3>2, GoingKeepsIInv DEF RequestEnds
  <2> QED BY <1>1, <2>1, <2>2, <2>3, <2>4, <2>5, <2>6, <2>7, <2>8, <2>9, <2>10, <2>11,
             <2>12, <2>13 DEF RequestStep
<1>2. CASE \/ \E s \in Sessions : SessionExpires(s)
           \/ \E t \in Tokens : TokenExpires(t)
  BY <1>2, ExpiryKeepsIInv
<1>3. CASE ClockTicks \/ UNCHANGED vars
  BY <1>3, ClockKeepsIInv
<1> QED BY <1>1, <1>2, <1>3 DEF Next

(* The inductive invariant holds of the whole system.                      *)
THEOREM IInvCorrect == Spec => []IInv
  BY InitIInv, NextIInv, PTL DEF Spec

(* The columns are of their types, for any number of rows and requests.    *)
THEOREM TypeCorrect == Spec => []TypeOK
<1>1. IInv => TypeOK
  BY DEF IInv
<1> QED BY <1>1, IInvCorrect, PTL

(* A reset token changes the password once if it is consumed, else never,   *)
(* however many requests confirm it and wherever they are cut off.         *)
THEOREM TokenOnceCorrect == Spec => []TokenOnce
<1>1. IInv => TokenOnce
  BY DEF IInv
<1> QED BY <1>1, IInvCorrect, PTL

(* No session there was when a committed reset revoked is ever live again.  *)
THEOREM ResetClosesCorrect == Spec => []ResetCloses
<1>1. IInv => ResetCloses
  BY DEF IInv
<1> QED BY <1>1, IInvCorrect, PTL

(* A session that was refreshed is revoked.                                *)
THEOREM RefreshReplacesCorrect == Spec => []RefreshReplaces
<1>1. IInv => RefreshReplaces
  BY DEF IInv
<1> QED BY <1>1, IInvCorrect, PTL

(* Every step of the accounts is a step of the limit.                      *)
LEMMA NextIsLimitStep == [Next]_vars => LimitStep
<1> SUFFICES ASSUME [Next]_vars PROVE LimitStep
  OBVIOUS
<1>1. CASE ClockTicks
  BY <1>1 DEF ClockTicks, LimitStep
<1>2. CASE \E s \in Sessions : SessionExpires(s)
  BY <1>2 DEF SessionExpires, LimitStep
<1>3. CASE \E t \in Tokens : TokenExpires(t)
  BY <1>3 DEF TokenExpires, LimitStep
<1>4. ASSUME NEW r \in Requests, RequestStep(r)
      PROVE  LimitStep
  <2>1. CASE LoginUser(r)
    BY <2>1 DEF LoginUser, LimitStep
  <2>2. CASE \/ RegisterUser(r) \/ CreateEmailVerificationToken(r)
             \/ CheckPassword(r) \/ SessionForUser(r)
    BY <2>2 DEF RegisterUser, CreateEmailVerificationToken, CheckPassword, SessionForUser,
                LimitStep
  <2>3. CASE LogoutUser(r) \/ RefreshSession(r) \/ RevokeSession(r)
    BY <2>3 DEF LogoutUser, RefreshSession, CurrentSession, RevokeSession, LimitStep
  <2>4. CASE \/ RequestPasswordReset(r) \/ RequestEmailVerification(r)
             \/ ConfirmEmailVerification(r)
    BY <2>4 DEF RequestPasswordReset, RequestEmailVerification, Issue,
                ConfirmEmailVerification, LimitStep
  <2>5. CASE \/ ConfirmPasswordReset(r) \/ RevokeSessions(r) \/ CommitReset(r)
             \/ RequestEnds(r)
    BY <2>5 DEF ConfirmPasswordReset, RevokeSessions, CommitReset, RequestEnds, LimitStep
  <2> QED BY <1>4, <2>1, <2>2, <2>3, <2>4, <2>5 DEF RequestStep
<1>5. CASE UNCHANGED vars
  BY <1>5 DEF vars, LimitStep
<1> QED BY <1>1, <1>2, <1>3, <1>4, <1>5 DEF Next

(* However attempts fall on the edge between two windows, a stretch of time *)
(* as long as a window admits fewer than twice the limit: for any window,  *)
(* limit and number of requests (api 2915-2955).                           *)
THEOREM AdmittedPerWindowCorrect == Spec => []AdmittedPerWindow
<1>1. Init => WindowsAgree
  BY WindowsInit DEF Init
<1>2. WindowsAgree /\ [Next]_vars => WindowsAgree'
  BY NextIsLimitStep, WindowsStep
<1>3. WindowsAgree => AdmittedPerWindow
  BY AdmittedFollows
<1> QED BY <1>1, <1>2, <1>3, PTL DEF Spec
===========================================================================
