-------------------------- MODULE RateLimitProofs --------------------------
(***************************************************************************)
(* Proofs about RateLimit, for any window, limit and time: what a step of  *)
(* the limit preserves, and that it bounds what any window-long stretch of *)
(* time admits.  RateLimit is part of a larger specification, whose steps  *)
(* are steps of the limit.                                                 *)
(***************************************************************************)
EXTENDS RateLimit, TLAPS

LimitStep ==
  \/ \E ok \in BOOLEAN : EnforceAuthRateLimit(ok)
  \/ TimePasses
  \/ UNCHANGED limitVars

(* The counter, its window and the history keep their types (api           *)
(* 2915-2955).                                                             *)
LEMMA LimitKeepsType ==
  ASSUME RateLimitTypeOK, LimitStep
  PROVE  RateLimitTypeOK'
<1>0. /\ now \in Times /\ now \in 0 .. MaxTime
      /\ MaxAttempts \in Nat \ {0} /\ MaxTime \in Nat
  BY RateLimitAssumption DEF RateLimitTypeOK, Times
<1>1. ASSUME NEW ok \in BOOLEAN, EnforceAuthRateLimit(ok)
      PROVE  RateLimitTypeOK'
  <2>1. /\ now' = now
        /\ windowStart' \in 0 .. MaxTime
        /\ attempts' \in 0 .. MaxAttempts + 1
    BY <1>0, <1>1 DEF RateLimitTypeOK, EnforceAuthRateLimit, CountAttempt
  <2>2. admissions' \in Seq(Admissions)
    <3>1. CASE ~ok
      BY <1>1, <3>1 DEF EnforceAuthRateLimit, RateLimitTypeOK
    <3>2. CASE ok
      <4>1. [at |-> now, window |-> windowStart'] \in Admissions
        BY <1>0, <2>1 DEF Admissions
      <4> QED BY <1>1, <3>2, <4>1 DEF EnforceAuthRateLimit, RateLimitTypeOK
    <3> QED BY <3>1, <3>2
  <2> QED BY <1>0, <2>1, <2>2 DEF RateLimitTypeOK
<1>2. CASE TimePasses
  BY <1>0, <1>2 DEF RateLimitTypeOK, TimePasses, Times
<1>3. CASE UNCHANGED limitVars
  BY <1>3 DEF RateLimitTypeOK, limitVars
<1> QED BY <1>1, <1>2, <1>3 DEF LimitStep

LEMMA AdmissionTypes ==
  ASSUME RateLimitTypeOK
  PROVE  /\ MaxAttempts \in Nat \ {0} /\ Window \in Nat
         /\ attempts \in Nat /\ now \in Nat /\ windowStart \in Nat
         /\ Len(admissions) \in Nat
         /\ DOMAIN admissions = 1 .. Len(admissions)
         /\ Counted \in 0 .. MaxAttempts
         /\ \A i \in 1 .. Len(admissions) :
              admissions[i].window \in Nat /\ admissions[i].at \in Nat
<1>1. /\ MaxAttempts \in Nat \ {0} /\ Window \in Nat /\ MaxTime \in Nat
      /\ attempts \in Nat /\ now \in Nat /\ windowStart \in Nat
  BY RateLimitAssumption DEF RateLimitTypeOK, Times
<1>2. /\ Len(admissions) \in Nat
      /\ DOMAIN admissions = 1 .. Len(admissions)
      /\ \A i \in 1 .. Len(admissions) : admissions[i] \in Admissions
  BY DEF RateLimitTypeOK
<1>3. \A m \in Admissions : m.window \in Nat /\ m.at \in Nat
  BY <1>1 DEF Admissions, Times
<1>4. Counted \in 0 .. MaxAttempts
  BY <1>1 DEF Counted
<1> QED BY <1>1, <1>2, <1>3, <1>4

(* The upsert starts a window, or goes on in the one there is; an attempt  *)
(* is refused when it finds the window full.                               *)
LEMMA UpsertCounts ==
  ASSUME WindowsAgree, NEW ok \in BOOLEAN, EnforceAuthRateLimit(ok)
  PROVE  /\ now' = now /\ windowStart' \in Nat
         /\ attempts' \in Nat /\ attempts' # 0
         /\ ok <=> attempts' <= MaxAttempts
         /\ \/ WindowIsOver /\ windowStart' = now /\ attempts' = 1
            \/ /\ ~WindowIsOver /\ windowStart' = windowStart
               /\ attempts' = IF attempts > MaxAttempts THEN attempts ELSE attempts + 1
<1>1. /\ MaxAttempts \in Nat \ {0} /\ attempts \in Nat
      /\ now \in Nat /\ windowStart \in Nat
  BY AdmissionTypes DEF WindowsAgree
<1>2. ok <=> attempts' <= MaxAttempts
  BY DEF EnforceAuthRateLimit
<1>3. \/ WindowIsOver /\ windowStart' = now /\ attempts' = 1
      \/ /\ ~WindowIsOver /\ windowStart' = windowStart
         /\ attempts' = IF attempts > MaxAttempts THEN attempts ELSE attempts + 1
  BY DEF EnforceAuthRateLimit, CountAttempt
<1>4. /\ now' = now /\ windowStart' \in Nat
      /\ attempts' \in Nat /\ attempts' # 0
  BY <1>1, <1>3 DEF EnforceAuthRateLimit, WindowIsOver
<1> QED BY <1>2, <1>3, <1>4

LEMMA Refused ==
  ASSUME WindowsAgree, EnforceAuthRateLimit(FALSE)
  PROVE  /\ UNCHANGED <<now, windowStart, admissions, Counted>>
         /\ attempts' # 0
<1>1. /\ MaxAttempts \in Nat \ {0} /\ attempts \in Nat
  BY AdmissionTypes DEF WindowsAgree
<1>2. admissions' = admissions
  BY DEF EnforceAuthRateLimit
<1>3. /\ now' = now /\ attempts' \in Nat /\ attempts' # 0
      /\ ~(attempts' <= MaxAttempts)
      /\ \/ windowStart' = now /\ attempts' = 1
         \/ /\ windowStart' = windowStart
            /\ attempts' = IF attempts > MaxAttempts THEN attempts ELSE attempts + 1
  BY UpsertCounts
<1>4. windowStart' = windowStart /\ attempts >= MaxAttempts
  BY <1>1, <1>3
<1>5. Counted' = Counted
  BY <1>1, <1>3, <1>4 DEF Counted
<1> QED BY <1>2, <1>3, <1>4, <1>5

(* An admission is added at the end, in the window the upsert has written. *)
LEMMA Admitted ==
  ASSUME WindowsAgree, EnforceAuthRateLimit(TRUE)
  PROVE  /\ now' = now /\ windowStart' \in Nat
         /\ attempts' \in Nat /\ attempts' # 0
         /\ \/ WindowIsOver /\ windowStart' = now /\ Counted' = 1
            \/ /\ ~WindowIsOver /\ windowStart' = windowStart
               /\ Counted' = Counted + 1
         /\ Len(admissions') = Len(admissions) + 1
         /\ DOMAIN admissions' = 1 .. Len(admissions) + 1
         /\ \A i \in 1 .. Len(admissions) : admissions'[i] = admissions[i]
         /\ admissions'[Len(admissions) + 1] = [at |-> now, window |-> windowStart']
<1>1. /\ MaxAttempts \in Nat \ {0} /\ attempts \in Nat
      /\ admissions \in Seq(Admissions)
  BY AdmissionTypes DEF WindowsAgree, RateLimitTypeOK
<1>2. /\ now' = now /\ windowStart' \in Nat
      /\ attempts' \in Nat /\ attempts' # 0
      /\ attempts' <= MaxAttempts
      /\ \/ WindowIsOver /\ windowStart' = now /\ attempts' = 1
         \/ /\ ~WindowIsOver /\ windowStart' = windowStart
            /\ attempts' = IF attempts > MaxAttempts THEN attempts ELSE attempts + 1
  BY UpsertCounts
<1>3. attempts' = 1 => Counted' = 1
  BY <1>1 DEF Counted
<1>4. attempts' = (IF attempts > MaxAttempts THEN attempts ELSE attempts + 1)
        => Counted' = Counted + 1
  BY <1>1, <1>2 DEF Counted
<1>5. admissions' = Append(admissions, [at |-> now, window |-> windowStart'])
  BY DEF EnforceAuthRateLimit
<1>6. /\ Len(admissions') = Len(admissions) + 1
      /\ DOMAIN admissions' = 1 .. Len(admissions) + 1
      /\ \A i \in 1 .. Len(admissions) : admissions'[i] = admissions[i]
      /\ admissions'[Len(admissions) + 1] = [at |-> now, window |-> windowStart']
  BY <1>1, <1>5
<1> QED BY <1>2, <1>3, <1>4, <1>6

(* What the limit knows of the admissions so far stays true.               *)
LEMMA WindowsInit == RateLimitInit => WindowsAgree
<1> SUFFICES ASSUME RateLimitInit PROVE WindowsAgree
  OBVIOUS
<1>1. RateLimitTypeOK
  BY RateLimitAssumption DEF RateLimitInit, RateLimitTypeOK, Times
<1>2. PresentWindow /\ WindowsApart
  BY RateLimitAssumption DEF RateLimitInit, PresentWindow, WindowsApart, Counted
<1> QED BY <1>1, <1>2 DEF WindowsAgree

LEMMA MoreThanFewer ==
  ASSUME NEW n \in Nat, NEW c \in Nat, 1 <= c
  PROVE  /\ n + 1 > (n + 1) - c
         /\ ~(n > (n + 1) - c) => c = 1
         /\ \A k, m \in Nat : c <= m /\ n + 1 = k + m => ~(k > (n + 1) - c)
OBVIOUS

LEMMA WindowsStep ==
  ASSUME WindowsAgree, LimitStep
  PROVE  WindowsAgree'
<1> DEFINE N == Len(admissions)
           W(i) == admissions[i].window
           T(i) == admissions[i].at
<1>0. /\ MaxAttempts \in Nat \ {0} /\ Window \in Nat
      /\ attempts \in Nat /\ now \in Nat /\ windowStart \in Nat
      /\ N \in Nat /\ DOMAIN admissions = 1 .. N
      /\ Counted \in Nat /\ Counted <= MaxAttempts
  BY AdmissionTypes DEF WindowsAgree
<1>7. \A i \in 1 .. N : W(i) \in Nat /\ T(i) \in Nat
  BY AdmissionTypes DEF WindowsAgree
<1>1. RateLimitTypeOK'
  BY LimitKeepsType DEF WindowsAgree
<1>2. CASE TimePasses
  <2>1. /\ UNCHANGED <<windowStart, attempts, admissions, Counted>>
        /\ now' = now + 1
    BY <1>2 DEF TimePasses, Counted
  <2> QED BY <1>0, <1>1, <2>1 DEF WindowsAgree, PresentWindow, WindowsApart
<1>3. CASE UNCHANGED limitVars
  <2>1. UNCHANGED <<now, windowStart, attempts, admissions, Counted>>
    BY <1>3 DEF limitVars, Counted
  <2> QED BY <1>1, <2>1 DEF WindowsAgree, PresentWindow, WindowsApart
<1>4. ASSUME EnforceAuthRateLimit(FALSE) PROVE WindowsAgree'
  <2>1. /\ UNCHANGED <<now, windowStart, admissions, Counted>>
        /\ attempts' # 0
    BY <1>4, Refused
  <2> QED BY <1>1, <2>1 DEF WindowsAgree, PresentWindow, WindowsApart
<1>5. ASSUME EnforceAuthRateLimit(TRUE) PROVE WindowsAgree'
  <2> DEFINE V(i) == admissions'[i].window
             U(i) == admissions'[i].at
  <2>0. /\ now' = now /\ windowStart' \in Nat
        /\ attempts' \in Nat /\ attempts' # 0
        /\ \/ WindowIsOver /\ windowStart' = now /\ Counted' = 1
           \/ /\ ~WindowIsOver /\ windowStart' = windowStart
              /\ Counted' = Counted + 1
    BY <1>5, Admitted
  <2>15. Len(admissions') = N + 1 /\ DOMAIN admissions' = 1 .. N + 1
    BY <1>5, Admitted
  <2>1. /\ \A i \in 1 .. N : V(i) = W(i) /\ U(i) = T(i)
        /\ V(N + 1) = windowStart' /\ U(N + 1) = now
    BY <1>5, Admitted
  <2>16. /\ \A i \in DOMAIN admissions' : V(i) = admissions'[i].window
        /\ \A i \in DOMAIN admissions' : U(i) = admissions'[i].at
    OBVIOUS
  <2>2. /\ \A i \in 1 .. N : W(i) <= T(i) /\ T(i) <= W(i) + Window
        /\ \A i, j \in 1 .. N :
             /\ i < j => W(i) = W(j) \/ W(i) + Window < W(j)
             /\ j = i + MaxAttempts => W(i) # W(j)
             /\ j = i + 1 /\ W(i) # W(j) => T(j) = W(j)
        /\ 1 \in 1 .. N => T(1) = W(1)
    BY <1>0 DEF WindowsAgree, WindowsApart
  <2>3. /\ attempts = 0 => N = 0
        /\ Counted <= N
        /\ windowStart <= now
    BY <1>0 DEF WindowsAgree, PresentWindow
  <2>14. \A i \in 1 .. N : IF i > N - Counted THEN W(i) = windowStart
                                             ELSE W(i) + Window < windowStart
    BY <1>0 DEF WindowsAgree, PresentWindow
  <2>4. /\ Counted' \in Nat /\ 1 <= Counted' /\ Counted' <= MaxAttempts
        /\ Counted = 0 => attempts = 0
    BY <1>0, <2>0 DEF Counted
  <2> HIDE DEF N, W, T, V, U
  <2>5. windowStart' <= now /\ now <= windowStart' + Window
    <3>1. CASE windowStart' = now
      BY <1>0, <3>1
    <3>2. CASE ~WindowIsOver /\ windowStart' = windowStart
      <4>1. ~(windowStart + Window < now)
        BY <3>2 DEF WindowIsOver
      <4> QED BY <1>0, <2>3, <3>2, <4>1
    <3> QED BY <2>0, <3>1, <3>2
  (* The windows before are over, or are the present one. *)
  <2>6. \A i \in 1 .. N :
          IF i > (N + 1) - Counted' THEN W(i) = windowStart'
                                  ELSE W(i) + Window < windowStart'
    <3> SUFFICES ASSUME NEW i \in 1 .. N
                 PROVE  IF i > (N + 1) - Counted' THEN W(i) = windowStart'
                                                ELSE W(i) + Window < windowStart'
      OBVIOUS
    <3>1. /\ W(i) \in Nat /\ i \in Nat /\ i <= N
          /\ IF i > N - Counted THEN W(i) = windowStart
                                ELSE W(i) + Window < windowStart
      BY <1>0, <1>7, <2>14
    <3>2. CASE WindowIsOver /\ windowStart' = now /\ Counted' = 1
      <4>1. windowStart + Window < now
        BY <1>0, <2>3, <3>1, <3>2 DEF WindowIsOver
      <4> QED BY <1>0, <2>3, <3>1, <3>2, <4>1
    <3>3. CASE windowStart' = windowStart /\ Counted' = Counted + 1
      BY <1>0, <3>1, <3>3
    <3> QED BY <2>0, <3>2, <3>3
  <2>7. PresentWindow'
    <3>1. /\ attempts' # 0
          /\ Counted' <= N + 1
          /\ windowStart' <= now'
      BY <1>0, <2>0, <2>3, <2>5
    <3>2. \A i \in 1 .. N + 1 :
            IF i > (N + 1) - Counted' THEN V(i) = windowStart'
                                    ELSE V(i) + Window < windowStart'
      <4> SUFFICES ASSUME NEW i \in 1 .. N + 1
                   PROVE  IF i > (N + 1) - Counted' THEN V(i) = windowStart'
                                                  ELSE V(i) + Window < windowStart'
        OBVIOUS
      <4>1. CASE i \in 1 .. N
        BY <2>1, <2>6, <4>1
      <4>2. CASE i = N + 1
        <5>1. i > (N + 1) - Counted'
          BY <1>0, <2>4, <4>2, MoreThanFewer
        <5> QED BY <2>1, <4>2, <5>1
      <4> QED BY <1>0, <4>1, <4>2
    <3>3. \A i \in DOMAIN admissions' :
            IF i > Len(admissions') - Counted'
              THEN admissions'[i].window = windowStart'
              ELSE admissions'[i].window + Window < windowStart'
      BY <2>15, <2>16, <3>2
    <3> QED BY <2>15, <3>1, <3>3 DEF PresentWindow
  <2>8. \A i \in 1 .. N + 1 : V(i) <= U(i) /\ U(i) <= V(i) + Window
    <3> SUFFICES ASSUME NEW i \in 1 .. N + 1
                 PROVE  V(i) <= U(i) /\ U(i) <= V(i) + Window
      OBVIOUS
    <3>1. CASE i \in 1 .. N
      BY <2>1, <2>2, <3>1
    <3>2. CASE i = N + 1
      BY <2>1, <2>5, <3>2
    <3> QED BY <1>0, <3>1, <3>2
  <2>9. \A i, j \in 1 .. N + 1 : i < j => V(i) = V(j) \/ V(i) + Window < V(j)
    <3> SUFFICES ASSUME NEW i \in 1 .. N, NEW j \in 1 .. N + 1, i < j
                 PROVE  V(i) = V(j) \/ V(i) + Window < V(j)
      BY <1>0
    <3>1. CASE j \in 1 .. N
      BY <2>1, <2>2, <3>1
    <3>2. CASE j = N + 1
      BY <2>1, <2>6, <3>2
    <3> QED BY <1>0, <3>1, <3>2
  <2>10. \A i, j \in 1 .. N + 1 : j = i + MaxAttempts => V(i) # V(j)
    <3> SUFFICES ASSUME NEW i \in 1 .. N, NEW j \in 1 .. N + 1, j = i + MaxAttempts
                 PROVE  V(i) # V(j)
      BY <1>0
    <3>1. CASE j \in 1 .. N
      BY <2>1, <2>2, <3>1
    <3>2. CASE j = N + 1
      <4>1. W(i) + Window < windowStart'
        <5>1. i \in Nat /\ ~(i > (N + 1) - Counted')
          <6>1. N + 1 = i + MaxAttempts
            BY <3>2
          <6>2. i \in Nat /\ MaxAttempts \in Nat
            BY <1>0
          <6>3. Counted' \in Nat /\ 1 <= Counted' /\ Counted' <= MaxAttempts
            BY <2>4
          <6> QED BY <1>0, <6>1, <6>2, <6>3, MoreThanFewer
        <5> QED BY <2>6, <5>1
      <4>2. W(i) \in Nat /\ W(i) # windowStart'
        BY <1>0, <1>7, <2>0, <4>1
      <4> QED BY <2>1, <3>2, <4>2
    <3> QED BY <1>0, <3>1, <3>2
  <2>11. \A i, j \in 1 .. N + 1 : j = i + 1 /\ V(i) # V(j) => U(j) = V(j)
    <3> SUFFICES ASSUME NEW i \in 1 .. N, NEW j \in 1 .. N + 1, j = i + 1, V(i) # V(j)
                 PROVE  U(j) = V(j)
      BY <1>0
    <3>1. CASE j \in 1 .. N
      BY <2>1, <2>2, <3>1
    <3>2. CASE j = N + 1
      <4>1. i = N /\ W(N) # windowStart'
        BY <1>0, <2>1, <3>2
      <4>2. Counted' = 1
        <5>1. ~(N > (N + 1) - Counted')
          BY <2>6, <4>1
        <5> QED BY <1>0, <2>4, <5>1, MoreThanFewer
      <4>3. CASE Counted = 0
        BY <2>3, <2>4, <4>1, <4>3
      <4>4. CASE Counted # 0
        BY <1>0, <2>0, <2>1, <3>2, <4>2, <4>4
      <4> QED BY <4>3, <4>4
    <3> QED BY <1>0, <3>1, <3>2
  <2>12. U(1) = V(1)
    <3>1. CASE N = 0
      <4>1. WindowIsOver
        BY <1>0, <2>3, <2>4, <3>1 DEF WindowIsOver
      <4> QED BY <2>0, <2>1, <3>1, <4>1
    <3>2. CASE N # 0
      BY <1>0, <2>1, <2>2, <3>2
    <3> QED BY <3>1, <3>2
  <2>13. WindowsApart'
    BY <2>15, <2>16, <2>8, <2>9, <2>10, <2>11, <2>12 DEF WindowsApart
  <2> QED BY <1>1, <2>7, <2>13 DEF WindowsAgree
<1>6. ASSUME NEW ok \in BOOLEAN, EnforceAuthRateLimit(ok)
      PROVE  EnforceAuthRateLimit(TRUE) \/ EnforceAuthRateLimit(FALSE)
  BY <1>6, Zenon
<1> QED BY <1>2, <1>3, <1>4, <1>5, <1>6 DEF LimitStep

(* Twice the limit does not fit in a stretch of time as long as a window.  *)
(* If the first of so many admissions starts its window, as many as the    *)
(* limit later comes one of a later window.  If not, the one before it is  *)
(* of the same window, so that the last of the limit is of a second window *)
(* already, and the last of twice the limit of a third: the whole of the   *)
(* second lies in between.                                                 *)
LEMMA AdmittedFollows ==
  ASSUME WindowsAgree
  PROVE  AdmittedPerWindow
<1> DEFINE N == Len(admissions)
           W(i) == admissions[i].window
           T(i) == admissions[i].at
           M == MaxAttempts
<1>0. /\ M \in Nat \ {0} /\ Window \in Nat
      /\ N \in Nat /\ DOMAIN admissions = 1 .. N
      /\ \A i \in 1 .. N : W(i) \in Nat /\ T(i) \in Nat
  BY AdmissionTypes DEF WindowsAgree
<1>1. /\ \A i \in 1 .. N : W(i) <= T(i) /\ T(i) <= W(i) + Window
      /\ \A i, j \in 1 .. N :
           /\ i < j => W(i) = W(j) \/ W(i) + Window < W(j)
           /\ j = i + M => W(i) # W(j)
           /\ j = i + 1 /\ W(i) # W(j) => T(j) = W(j)
      /\ 1 \in 1 .. N => T(1) = W(1)
  BY <1>0 DEF WindowsAgree, WindowsApart
<1> HIDE DEF N, W, T, M
<1>2. \A i, j \in 1 .. N : i + M <= j => W(i) + Window < W(j)
  <2> SUFFICES ASSUME NEW i \in 1 .. N, NEW j \in 1 .. N, i + M <= j
               PROVE  W(i) + Window < W(j)
    OBVIOUS
  <2>1. i + M \in 1 .. N /\ i < i + M
    BY <1>0
  <2>2. W(i) + Window < W(i + M)
    BY <1>1, <2>1
  <2>3. W(i + M) <= W(j)
    <3>1. CASE i + M = j
      BY <1>0, <3>1
    <3>2. CASE i + M < j
      BY <1>0, <1>1, <2>1, <3>2
    <3> QED BY <1>0, <3>1, <3>2
  <2> QED BY <1>0, <2>1, <2>2, <2>3
<1>3. ASSUME NEW i \in 1 .. N, NEW j \in 1 .. N, j >= i + 2 * M - 1
      PROVE  T(j) > T(i) + Window
  <2>1. CASE T(i) = W(i)
    <3>1. W(i) + Window < W(j)
      BY <1>0, <1>2, <1>3
    <3> QED BY <1>0, <1>1, <2>1, <3>1
  <2>2. CASE T(i) # W(i)
    <3>1. i - 1 \in 1 .. N /\ W(i - 1) = W(i)
      BY <1>0, <1>1, <2>2
    <3> DEFINE k == i - 1 + M
    <3>2. k \in 1 .. N /\ k + M <= j
      BY <1>0, <1>3, <3>1
    <3>3. W(i) + Window < W(k)
      BY <1>2, <3>1, <3>2
    <3>4. W(k) + Window < W(j)
      BY <1>2, <3>2
    <3> QED BY <1>0, <1>1, <3>2, <3>3, <3>4
  <2> QED BY <2>1, <2>2
<1> QED BY <1>0, <1>3 DEF AdmittedPerWindow, N, T, M
===========================================================================
