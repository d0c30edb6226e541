----------------------------- MODULE RateLimit -----------------------------
(***************************************************************************)
(* The fixed window of one bucket and key in auth_rate_limits, against a   *)
(* clock (crates/api, enforce_auth_rate_limit).  The routes that have a    *)
(* bucket each ask it first.                                               *)
(***************************************************************************)
EXTENDS Naturals, Sequences

CONSTANTS
  Window,       \* window_seconds
  MaxAttempts,  \* max_attempts
  MaxTime       \* bound on the clock

ASSUME RateLimitAssumption ==
  Window \in Nat /\ MaxAttempts \in Nat \ {0} /\ MaxTime \in Nat \ {0}

Times == 1 .. MaxTime

VARIABLES
  now,          \* the time
  windowStart,  \* window_start
  attempts,     \* attempts, 0 before the insert, MaxAttempts + 1 for any more
  admissions    \* the attempts admitted, each with its time and window

limitVars == <<now, windowStart, attempts, admissions>>

Admissions == [at : Times, window : 0 .. MaxTime]

RateLimitTypeOK ==
  /\ now \in Times
  /\ windowStart \in 0 .. MaxTime
  /\ attempts \in 0 .. MaxAttempts + 1
  /\ admissions \in Seq(Admissions)

RateLimitInit ==
  /\ now = 1
  /\ windowStart = 0
  /\ attempts = 0
  /\ admissions = <<>>

(* Mutant: a window that is over when it is as old as its length.          *)
WindowEndsEarly == attempts = 0 \/ windowStart + Window <= now

WindowIsOver == attempts = 0 \/ windowStart + Window < now

(* Mutant: the end of the window written in place of its start.            *)
CountFromTheEnd ==
  IF WindowIsOver
    THEN windowStart' = now + Window /\ attempts' = 1
    ELSE /\ attempts' = IF attempts > MaxAttempts THEN attempts ELSE attempts + 1
         /\ UNCHANGED windowStart

(* The upsert, which counts refused attempts too.                          *)
CountAttempt ==
  IF WindowIsOver
    THEN windowStart' = now /\ attempts' = 1
    ELSE /\ attempts' = IF attempts > MaxAttempts THEN attempts ELSE attempts + 1
         /\ UNCHANGED windowStart

EnforceAuthRateLimit(ok) ==
  /\ CountAttempt
  /\ ok = (attempts' <= MaxAttempts)
  /\ admissions' = IF ok THEN Append(admissions, [at |-> now, window |-> windowStart'])
                         ELSE admissions
  /\ UNCHANGED now

TimePasses ==
  /\ now < MaxTime
  /\ now' = now + 1
  /\ UNCHANGED <<windowStart, attempts, admissions>>

(* However attempts fall on the edge between two windows, a stretch of time *)
(* as long as a window sees fewer than twice the attempts of one: the first *)
(* attempt of a window is also its start (api 2924-2953).                  *)
AdmittedPerWindow ==
  \A i, j \in DOMAIN admissions :
    j >= i + 2 * MaxAttempts - 1 => admissions[j].at > admissions[i].at + Window

(* What that rests on.  The admissions of the present window are the last  *)
(* ones, as many as it has counted up to the limit; windows are an         *)
(* interval apart, none admits more than the limit, and each starts with   *)
(* its first admission.                                                    *)
Counted == IF attempts > MaxAttempts THEN MaxAttempts ELSE attempts

PresentWindow ==
  /\ attempts = 0 => admissions = <<>>
  /\ Counted <= Len(admissions)
  /\ windowStart <= now
  /\ \A i \in DOMAIN admissions :
       IF i > Len(admissions) - Counted
         THEN admissions[i].window = windowStart
         ELSE admissions[i].window + Window < windowStart

WindowsApart ==
  /\ \A i \in DOMAIN admissions :
       /\ admissions[i].window <= admissions[i].at
       /\ admissions[i].at <= admissions[i].window + Window
  /\ \A i, j \in DOMAIN admissions :
       /\ i < j => \/ admissions[i].window = admissions[j].window
                   \/ admissions[i].window + Window < admissions[j].window
       /\ j = i + MaxAttempts => admissions[i].window # admissions[j].window
       /\ j = i + 1 /\ admissions[i].window # admissions[j].window =>
            admissions[j].at = admissions[j].window
  /\ 1 \in DOMAIN admissions => admissions[1].at = admissions[1].window

WindowsAgree == RateLimitTypeOK /\ PresentWindow /\ WindowsApart
===========================================================================
