----------------------------- MODULE Timetable -----------------------------
(***************************************************************************)
(* What schedules promise whoever reads and edits them: edits take effect  *)
(* at once, and runs are enqueued in batches, each at one moment, of       *)
(* schedules that are on and due at that moment, and that are next due an  *)
(* interval after it at the earliest.  There are no workers here, no       *)
(* transactions and no locks; ScanSchedule implements this specification.  *)
(***************************************************************************)
EXTENDS Naturals

CONSTANTS Schedules, Interval, MaxTime

VARIABLES
  now,      \* the time
  cadence,  \* the cadence of each schedule
  enabled,  \* whether it is on
  next,     \* when it is due next, 0 for never
  last      \* the date of its last run, 0 for none

vars == <<now, cadence, enabled, next, last>>

Cadences == {"manual"} \cup DOMAIN Interval

Init ==
  /\ now = 1
  /\ cadence = [s \in Schedules |-> "manual"]
  /\ enabled = [s \in Schedules |-> FALSE]
  /\ next = [s \in Schedules |-> 0]
  /\ last = [s \in Schedules |-> 0]

Tick ==
  /\ now < MaxTime
  /\ now' = now + 1
  /\ UNCHANGED <<cadence, enabled, next, last>>

(* A schedule that is off or manual is never due, another an interval      *)
(* after some moment that has passed.                                      *)
Edit(s, c, on) ==
  /\ cadence' = [cadence EXCEPT ![s] = c]
  /\ enabled' = [enabled EXCEPT ![s] = on]
  /\ IF on /\ c # "manual"
       THEN \E t \in 1 .. now : next' = [next EXCEPT ![s] = t + Interval[c]]
       ELSE next' = [next EXCEPT ![s] = 0]
  /\ UNCHANGED <<now, last>>

(* Each run is dated, and due again an interval after its date or later.   *)
Run(S, date) ==
  /\ \A s \in S : enabled[s] /\ cadence[s] # "manual" /\ next[s] \in 1 .. date
  /\ \E t \in [S -> date .. now] :
       next' = [s \in Schedules |-> IF s \in S THEN t[s] + Interval[cadence[s]]
                                               ELSE next[s]]
  /\ last' = [s \in Schedules |-> IF s \in S THEN date ELSE last[s]]
  /\ UNCHANGED <<now, cadence, enabled>>

Next ==
  \/ Tick
  \/ \E s \in Schedules, c \in Cadences, on \in BOOLEAN : Edit(s, c, on)
  \/ \E S \in SUBSET Schedules, date \in 1 .. now : Run(S, date)

Spec == Init /\ [][Next]_vars
===========================================================================
