------------------------ MODULE ScanScheduleProofs ------------------------
(***************************************************************************)
(* Proofs about ScanSchedule, for any number of schedules, workers and     *)
(* requests, any limit, intervals and delay: the invariants, and that the  *)
(* rows behave as Timetable says.                                          *)
(***************************************************************************)
EXTENDS ScanSchedule, TLAPS

(* The next run of a timed schedule, reckoned from a time, lies an interval *)
(* later: next_run_for_cadence of both crates (worker 649-655, api         *)
(* 3191-3197).                                                             *)
LEMMA NextRunIsLater ==
  ASSUME NEW c \in Cadences, NEW time \in Nat
  PROVE  /\ NextRunForCadence(c, time) \in Nat
         /\ c = "manual" => NextRunForCadence(c, time) = Never
         /\ c # "manual" => /\ NextRunForCadence(c, time) # Never
                            /\ NextRunForCadence(c, time) = time + Interval[c]
                            /\ Interval[c] \in Nat
  BY ScanScheduleAssumption, SMT DEF NextRunForCadence, Never, Cadences

(* The initial state satisfies the inductive invariant.                    *)
LEMMA InitIInv == Init => IInv
  BY ScanScheduleAssumption
  DEF Init, IInv, TypeOK, HeldIsDue, Spaced, NextRunFits, TransactionsAgree,
      NextRunsAgree, Cadences, Steps, Never

(* A batch is locked: every row of it is due now and was free (worker      *)
(* 131-143).                                                               *)
LEMMA LockKeepsIInv ==
  ASSUME IInv, NEW w \in Workers, LockDueScans(w)
  PROVE  IInv'
<1> USE DEF IInv, Never
<1>1. PICK S \in SUBSET Schedules : IsBatch(S) /\ Enqueue(w, S)
  BY DEF LockDueScans
<1>2. \A s \in S : /\ enabled[s] /\ next[s] # Never /\ next[s] <= now
                   /\ \A v \in Workers : s \notin held[v]
  BY <1>1 DEF IsBatch, Due, Locked
<1>3. /\ now \in 1 .. MaxTime /\ now \in Nat
      /\ UNCHANGED <<now, profile, cadence, enabled, next, last, edited, waiting>>
      /\ pc' = [pc EXCEPT ![w] = "enqueueing"]
      /\ held' = [held EXCEPT ![w] = S]
      /\ since' = [since EXCEPT ![w] = now]
      /\ pc[w] = "idle"
  BY <1>1, ScanScheduleAssumption DEF Enqueue, rowVars, TypeOK
<1>4. TypeOK'
  BY <1>3 DEF TypeOK, Steps
<1>5. HeldIsDue'
  BY <1>2, <1>3 DEF HeldIsDue, TypeOK
<1>6. Spaced'
  <2> SUFFICES ASSUME NEW v \in Workers, NEW s \in held'[v]
               PROVE  edited[s] \/ since'[v] >= last[s] + Interval[cadence[s]]
    BY <1>3 DEF Spaced
  <2>1. CASE v # w
    BY <2>1, <1>3 DEF Spaced, TypeOK
  <2>2. CASE v = w
    <3>1. s \in S /\ s \in Schedules /\ since'[v] = now
      BY <2>2, <1>3 DEF TypeOK
    <3>2. next[s] # Never /\ next[s] <= now /\ next[s] \in Nat /\ last[s] \in Nat
      BY <3>1, <1>2, ScanScheduleAssumption DEF TypeOK
    <3>3. cadence[s] # "manual" /\ Interval[cadence[s]] \in Nat
      BY <3>1, <3>2, ScanScheduleAssumption DEF NextRunFits, TypeOK
    <3>4. edited[s] \/ last[s] + Interval[cadence[s]] <= next[s]
      BY <3>1, <3>2 DEF NextRunsAgree
    <3> QED BY <3>1, <3>2, <3>3, <3>4, <1>3
  <2> QED BY <2>1, <2>2
<1>7. NextRunFits' /\ NextRunsAgree'
  BY <1>3 DEF NextRunFits, NextRunsAgree
<1>8. TransactionsAgree'
  BY <1>2, <1>3 DEF TransactionsAgree, TypeOK
<1> QED BY <1>4, <1>5, <1>6, <1>7, <1>8

(* The transaction commits: its rows get their next run (worker 150-207).  *)
LEMMA CommitKeepsIInv ==
  ASSUME IInv, NEW w \in Workers, CommitDueScans(w)
  PROVE  IInv'
<1> USE DEF IInv
<1>1. PICK time \in [held[w] -> since[w] .. now] : WriteNextRuns(w, time)
  BY DEF CommitDueScans
<1>2. /\ UNCHANGED <<now, profile, cadence, enabled>>
      /\ waiting' = waiting \cup {"job"}
      /\ pc' = [pc EXCEPT ![w] = "idle"]
      /\ held' = [held EXCEPT ![w] = {}]
      /\ since' = [since EXCEPT ![w] = Never]
      /\ pc[w] = "enqueueing"
      /\ since[w] \in 1 .. now /\ now \in 1 .. MaxTime /\ now \in Nat
  BY ScanScheduleAssumption DEF CommitDueScans, Unlock, TransactionsAgree, TypeOK
<1>3. ASSUME NEW s \in held[w]
      PROVE  /\ s \in Schedules /\ cadence[s] # "manual" /\ enabled[s]
             /\ since[w] \in Nat /\ Interval[cadence[s]] \in Nat
             /\ next'[s] \in Nat /\ next'[s] # Never
             /\ since[w] + Interval[cadence[s]] <= next'[s]
             /\ last'[s] = since[w]
  <2>1. s \in Schedules /\ cadence[s] \in Cadences
    BY DEF TypeOK
  <2>2. enabled[s] /\ cadence[s] # "manual"
    BY <2>1 DEF HeldIsDue, NextRunFits
  <2>3. time[s] \in Nat /\ since[w] <= time[s] /\ since[w] \in Nat
    BY <1>1, <1>2
  <2>4. next'[s] = NextRunForCadence(cadence[s], time[s]) /\ last'[s] = since[w]
    BY <1>1, <2>1 DEF WriteNextRuns
  <2> QED BY <2>1, <2>2, <2>3, <2>4, NextRunIsLater
<1>4. ASSUME NEW s \in Schedules, s \notin held[w]
      PROVE  next'[s] = next[s] /\ last'[s] = last[s] /\ edited'[s] = edited[s]
  BY <1>1, <1>4 DEF WriteNextRuns, TypeOK
<1>5. /\ next' \in [Schedules -> Nat]
      /\ last' \in [Schedules -> 0 .. MaxTime]
      /\ edited' \in [Schedules -> BOOLEAN]
  <2>1. \A s \in Schedules : next'[s] \in Nat /\ last'[s] \in 0 .. MaxTime
    BY <1>2, <1>3, <1>4, ScanScheduleAssumption DEF TypeOK
  <2>2. /\ next' = [s \in Schedules |-> next'[s]]
        /\ last' = [s \in Schedules |-> last'[s]]
    BY <1>1 DEF WriteNextRuns
  <2>3. edited' \in [Schedules -> BOOLEAN]
    BY <1>1 DEF WriteNextRuns
  <2> QED BY <2>1, <2>2, <2>3
<1>6. TypeOK'
  BY <1>2, <1>5, ScanScheduleAssumption DEF TypeOK, Steps, Never
<1>7. ASSUME NEW v \in Workers, NEW s \in held'[v]
      PROVE  /\ v # w /\ held'[v] = held[v] /\ s \in held[v] /\ since'[v] = since[v]
             /\ s \in Schedules /\ s \notin held[w]
  BY <1>2 DEF TypeOK, TransactionsAgree
<1>8. HeldIsDue' /\ Spaced'
  BY <1>2, <1>4, <1>7 DEF HeldIsDue, Spaced
<1>9. NextRunFits'
  BY <1>2, <1>3, <1>4 DEF NextRunFits
<1>10. NextRunsAgree'
  BY <1>2, <1>3, <1>4 DEF NextRunsAgree
<1>11. TransactionsAgree'
  BY <1>2 DEF TransactionsAgree, TypeOK
<1> QED BY <1>6, <1>8, <1>9, <1>10, <1>11

(* A rollback only releases the rows.                                      *)
LEMMA AbortKeepsIInv ==
  ASSUME IInv, NEW w \in Workers, TickAborts(w)
  PROVE  IInv'
<1>1. /\ UNCHANGED <<now, profile, cadence, enabled, next, last, edited, waiting>>
      /\ pc' = [pc EXCEPT ![w] = "idle"]
      /\ held' = [held EXCEPT ![w] = {}]
      /\ since' = [since EXCEPT ![w] = Never]
  BY DEF TickAborts, Unlock, rowVars
<1>2. TypeOK'
  BY <1>1, ScanScheduleAssumption DEF IInv, TypeOK, Steps, Never
<1>3. HeldIsDue' /\ Spaced'
  BY <1>1 DEF IInv, TypeOK, HeldIsDue, Spaced
<1>4. NextRunFits' /\ NextRunsAgree' /\ TransactionsAgree'
  BY <1>1 DEF IInv, TypeOK, NextRunFits, NextRunsAgree, TransactionsAgree
<1> QED BY <1>2, <1>3, <1>4 DEF IInv

(* A worker that holds no row goes on to another lookup, or ends its tick. *)
LEMMA MoveKeepsIInv ==
  ASSUME IInv, NEW w \in Workers, NEW from \in Steps \ {"enqueueing"},
         NEW to \in Steps \ {"enqueueing"}, Moves(w, from, to),
         waiting' \subseteq {"job", "alert"}
  PROVE  IInv'
<1>1. /\ UNCHANGED <<now, profile, cadence, enabled, next, last, edited, held, since>>
      /\ pc' = [pc EXCEPT ![w] = to]
      /\ pc[w] # "enqueueing"
  BY DEF Moves, rowVars
<1>2. TypeOK'
  BY <1>1 DEF IInv, TypeOK
<1>3. HeldIsDue' /\ Spaced' /\ NextRunFits' /\ NextRunsAgree'
  BY <1>1 DEF IInv, HeldIsDue, Spaced, NextRunFits, NextRunsAgree
<1>4. TransactionsAgree'
  BY <1>1 DEF IInv, TypeOK, TransactionsAgree
<1> QED BY <1>2, <1>3, <1>4 DEF IInv

(* A statement of a request writes a row that no worker holds.             *)
LEMMA WriteKeepsIInv ==
  ASSUME IInv, NEW s \in Schedules, NEW p \in Profiles, NEW c \in Cadences,
         NEW on \in BOOLEAN, NEW time \in Nat,
         ~Locked(s), WriteRow(s, p, c, on, time)
  PROVE  IInv'
<1>1. /\ UNCHANGED <<now, last, pc, held, since, waiting>>
      /\ profile' = [profile EXCEPT ![s] = p]
      /\ cadence' = [cadence EXCEPT ![s] = c]
      /\ enabled' = [enabled EXCEPT ![s] = on]
      /\ next' = [next EXCEPT ![s] = IF on THEN NextRunForCadence(c, time) ELSE Never]
      /\ edited' = [edited EXCEPT ![s] = TRUE]
  BY DEF WriteRow, tickVars
<1>2. NextRunForCadence(c, time) \in Nat
  BY NextRunIsLater
<1>3. TypeOK'
  BY <1>1, <1>2 DEF IInv, TypeOK, Never
<1>4. ASSUME NEW w \in Workers, NEW t \in held'[w]
      PROVE  /\ t \in Schedules /\ t \in held[w] /\ t # s
             /\ enabled'[t] = enabled[t] /\ next'[t] = next[t]
             /\ edited'[t] = edited[t] /\ cadence'[t] = cadence[t]
  BY <1>1 DEF IInv, TypeOK, Locked
<1>5. HeldIsDue' /\ Spaced'
  <2>1. ASSUME NEW w \in Workers, NEW t \in held'[w]
        PROVE  enabled'[t] /\ next'[t] # Never /\ next'[t] <= since'[w]
    BY <1>1, <1>4, <2>1 DEF IInv, HeldIsDue
  <2>2. ASSUME NEW w \in Workers, NEW t \in held'[w]
        PROVE  edited'[t] \/ since'[w] >= last'[t] + Interval[cadence'[t]]
    <3>1. edited[t] \/ since[w] >= last[t] + Interval[cadence[t]]
      BY <1>4, <2>2 DEF IInv, Spaced
    <3> QED BY <1>1, <1>4, <2>2, <3>1
  <2> QED BY <2>1, <2>2 DEF HeldIsDue, Spaced
<1>6. NextRunFits'
  <2> SUFFICES ASSUME NEW t \in Schedules
               PROVE  next'[t] # Never <=> enabled'[t] /\ cadence'[t] # "manual"
    BY DEF NextRunFits
  <2>1. CASE t = s
    BY <2>1, <1>1, NextRunIsLater DEF IInv, TypeOK
  <2>2. CASE t # s
    BY <2>2, <1>1 DEF IInv, TypeOK, NextRunFits
  <2> QED BY <2>1, <2>2
<1>7. NextRunsAgree'
  BY <1>1 DEF IInv, TypeOK, NextRunsAgree
<1>8. TransactionsAgree'
  BY <1>1 DEF IInv, TransactionsAgree
<1> QED BY <1>3, <1>5, <1>6, <1>7, <1>8 DEF IInv

(* Time passes, or somebody else inserts a job or an alert.                *)
LEMMA OthersKeepIInv ==
  ASSUME IInv, \/ TimePasses
               \/ \E kind \in {"job", "alert"} : OthersInsert(kind)
               \/ UNCHANGED vars
  PROVE  IInv'
<1>1. /\ UNCHANGED <<profile, cadence, enabled, next, last, edited, pc, held, since>>
      /\ waiting' \subseteq {"job", "alert"}
      /\ now \in Nat /\ now' \in 1 .. MaxTime /\ now <= now'
  <2>0. now \in Nat /\ now \in 1 .. MaxTime /\ waiting \subseteq {"job", "alert"}
    BY ScanScheduleAssumption DEF IInv, TypeOK
  <2>1. CASE TimePasses
    BY <2>0, <2>1, ScanScheduleAssumption DEF TimePasses, rowVars, tickVars
  <2>2. CASE \E kind \in {"job", "alert"} : OthersInsert(kind)
    BY <2>0, <2>2 DEF OthersInsert, rowVars, tickVars
  <2>3. CASE UNCHANGED vars
    BY <2>0, <2>3 DEF vars
  <2> QED BY <2>1, <2>2, <2>3
<1>2. TypeOK'
  BY <1>1 DEF IInv, TypeOK
<1>3. HeldIsDue' /\ Spaced' /\ NextRunFits' /\ NextRunsAgree'
  BY <1>1 DEF IInv, HeldIsDue, Spaced, NextRunFits, NextRunsAgree
<1>4. TransactionsAgree'
  BY <1>1 DEF IInv, TypeOK, TransactionsAgree
<1> QED BY <1>2, <1>3, <1>4 DEF IInv

(* Every step of every executor keeps the inductive invariant.             *)
LEMMA NextIInv == IInv /\ [Next]_vars => IInv'
<1> SUFFICES ASSUME IInv, [Next]_vars PROVE IInv'
  OBVIOUS
<1> HIDE DEF IInv
<1>1. ASSUME NEW w \in Workers, WorkerStep(w)
      PROVE  IInv'
  <2> USE DEF Steps
  <2>0. waiting \subseteq {"job", "alert"}
    BY DEF IInv, TypeOK
  <2>1. CASE LockDueScans(w)
    BY <2>1, LockKeepsIInv
  <2>2. CASE CommitDueScans(w)
    BY <2>2, CommitKeepsIInv
  <2>3. CASE FindsNoneDue(w)
    BY <2>0, <2>3, MoveKeepsIInv DEF FindsNoneDue
  <2>4. CASE ClaimScanJob(w)
    BY <2>0, <2>4, MoveKeepsIInv DEF ClaimScanJob, Claims
  <2>5. CASE FindsNoJob(w)
    BY <2>0, <2>5, MoveKeepsIInv DEF FindsNoJob
  <2>6. CASE ClaimAlert(w)
    BY <2>0, <2>6, MoveKeepsIInv DEF ClaimAlert, Claims
  <2>7. CASE TickEnds(w)
    BY <2>0, <2>7, MoveKeepsIInv DEF TickEnds
  <2> QED BY <1>1, <2>1, <2>2, <2>3, <2>4, <2>5, <2>6, <2>7 DEF WorkerStep
<1>2. ASSUME NEW s \in Schedules, RequestStep(s)
      PROVE  IInv'
  <2>0. /\ 1 .. now \subseteq Nat /\ now \in Nat
        /\ cadence[s] \in Cadences
        /\ profile[s] # "none" => profile[s] \in Profiles
        /\ \A offer \in Offers : offer[1] \in Profiles /\ offer[2] \in Cadences
    BY ScanScheduleAssumption DEF IInv, TypeOK
  <2>1. ASSUME NEW offer \in Offers, NEW time \in 1 .. now,
               UpsertScheduledScan(s, offer[1], offer[2], time)
        PROVE  IInv'
    BY <2>0, <2>1, WriteKeepsIInv DEF UpsertScheduledScan
  <2>2. ASSUME NEW offer \in Offers, NEW time \in 1 .. now, NEW on \in BOOLEAN,
               UpdateScheduledScan(s, offer[1], offer[2], on, time)
        PROVE  IInv'
    BY <2>0, <2>2, WriteKeepsIInv DEF UpdateScheduledScan
  <2>3. CASE PauseScheduledScan(s)
    BY <2>0, <2>3, WriteKeepsIInv DEF PauseScheduledScan
  <2> QED BY <1>2, <2>1, <2>2, <2>3 DEF RequestStep
<1>3. ASSUME NEW w \in Workers, TickAborts(w)
      PROVE  IInv'
  BY <1>3, AbortKeepsIInv
<1>4. CASE \/ TimePasses
           \/ \E kind \in {"job", "alert"} : OthersInsert(kind)
           \/ UNCHANGED vars
  BY <1>4, OthersKeepIInv
<1> QED BY <1>1, <1>2, <1>3, <1>4 DEF Next

(* The inductive invariant holds of the whole system.                      *)
THEOREM IInvCorrect == Spec => []IInv
  BY InitIInv, NextIInv, PTL DEF Spec

(* The columns of scheduled_scans are of their types, and no run is dated  *)
(* later than now.                                                         *)
THEOREM TypeCorrect == Spec => []TypeOK
<1>1. IInv => TypeOK
  BY DEF IInv
<1> QED BY <1>1, IInvCorrect, PTL

(* What a worker is about to enqueue is enabled and due, however requests  *)
(* and other workers interleave.                                           *)
THEOREM HeldIsDueCorrect == Spec => []HeldIsDue
<1>1. IInv => HeldIsDue
  BY DEF IInv
<1> QED BY <1>1, IInvCorrect, PTL

(* No due time is enqueued twice, and runs without an edit between them lie *)
(* an interval apart.                                                      *)
THEOREM SpacedCorrect == Spec => []Spaced
<1>1. IInv => Spaced
  BY DEF IInv
<1> QED BY <1>1, IInvCorrect, PTL

(* A schedule has a next run if and only if it is on.                      *)
THEOREM NextRunFitsCorrect == Spec => []NextRunFits
<1>1. IInv => NextRunFits
  BY DEF IInv
<1> QED BY <1>1, IInvCorrect, PTL

---------------------------------------------------------------------------
(* ScanSchedule implements Timetable.                                      *)

(* A statement of a request is an edit: its guards and its wait for the    *)
(* lock aside, it writes one row (api 1193-1220, 1253-1262, 2233-2258).    *)
LEMMA WriteEdits ==
  ASSUME NEW s \in Schedules, NEW p, NEW c \in Cadences, NEW on \in BOOLEAN,
         NEW time \in 1 .. now, WriteRow(s, p, c, on, time)
  PROVE  Abstract!Next
<1>1. /\ cadence' = [cadence EXCEPT ![s] = c]
      /\ enabled' = [enabled EXCEPT ![s] = on]
      /\ next' = [next EXCEPT ![s] = IF on THEN NextRunForCadence(c, time) ELSE Never]
      /\ UNCHANGED <<now, last>>
  BY DEF WriteRow
<1>2. IF on /\ c # "manual"
        THEN \E t \in 1 .. now : next' = [next EXCEPT ![s] = t + Interval[c]]
        ELSE next' = [next EXCEPT ![s] = 0]
  <2>1. CASE on /\ c # "manual"
    BY <1>1, <2>1 DEF NextRunForCadence
  <2>2. CASE ~(on /\ c # "manual")
    BY <1>1, <2>2 DEF NextRunForCadence, Never
  <2> QED BY <2>1, <2>2
<1>3. Abstract!Edit(s, c, on)
  BY <1>1, <1>2 DEF Abstract!Edit
<1>4. c \in Abstract!Cadences
  BY ScanScheduleAssumption DEF Abstract!Cadences, Cadences
<1> QED BY <1>3, <1>4 DEF Abstract!Next

(* A commit is a run of the rows the transaction holds, at the moment it   *)
(* began: they are as they were when it locked them (worker 158-207).      *)
LEMMA CommitRuns ==
  ASSUME IInv, NEW w \in Workers, CommitDueScans(w)
  PROVE  Abstract!Next
<1> DEFINE S == held[w]
           date == since[w]
<1>1. PICK time \in [S -> date .. now] : WriteNextRuns(w, time)
  BY DEF CommitDueScans
<1>2. /\ S \in SUBSET Schedules
      /\ date \in 1 .. now
      /\ UNCHANGED <<now, cadence, enabled>>
  BY DEF CommitDueScans, IInv, TypeOK, TransactionsAgree
<1>3. \A s \in S : /\ s \in Schedules /\ enabled[s] /\ cadence[s] # "manual"
                   /\ next[s] \in 1 .. date
  <2> SUFFICES ASSUME NEW s \in S
               PROVE  /\ s \in Schedules /\ enabled[s] /\ cadence[s] # "manual"
                      /\ next[s] \in 1 .. date
    OBVIOUS
  <2>1. s \in Schedules /\ next[s] \in Nat /\ now \in Nat /\ date \in Nat
    BY <1>2, ScanScheduleAssumption DEF IInv, TypeOK
  <2>2. enabled[s] /\ next[s] # Never /\ next[s] <= date
    BY DEF IInv, HeldIsDue
  <2>3. cadence[s] # "manual"
    BY <2>1, <2>2 DEF IInv, NextRunFits
  <2> QED BY <2>1, <2>2, <2>3 DEF Never
<1>4. next' = [s \in Schedules |-> IF s \in S THEN time[s] + Interval[cadence[s]]
                                              ELSE next[s]]
  BY <1>1, <1>3 DEF WriteNextRuns, NextRunForCadence
<1>5. last' = [s \in Schedules |-> IF s \in S THEN date ELSE last[s]]
  BY <1>1 DEF WriteNextRuns
<1>6. Abstract!Run(S, date)
  BY <1>1, <1>2, <1>3, <1>4, <1>5 DEF Abstract!Run
<1> QED BY <1>2, <1>6 DEF Abstract!Next

(* Every step is a step of the timetable, or one its reader does not see.  *)
LEMMA TimetableStep == IInv /\ [Next]_vars => [Abstract!Next]_(Abstract!vars)
<1> SUFFICES ASSUME IInv, [Next]_vars
             PROVE  Abstract!Next \/ UNCHANGED <<now, cadence, enabled, next, last>>
  BY DEF Abstract!vars
<1>1. CASE TimePasses
  BY <1>1 DEF TimePasses, rowVars, Abstract!Next, Abstract!Tick
<1>2. CASE \/ \E kind \in {"job", "alert"} : OthersInsert(kind)
           \/ UNCHANGED vars
  BY <1>2 DEF OthersInsert, rowVars, vars
<1>3. ASSUME NEW w \in Workers, TickAborts(w)
      PROVE  UNCHANGED <<now, cadence, enabled, next, last>>
  BY <1>3 DEF TickAborts, rowVars
<1>4. ASSUME NEW w \in Workers, WorkerStep(w)
      PROVE  Abstract!Next \/ UNCHANGED <<now, cadence, enabled, next, last>>
  <2>1. CASE CommitDueScans(w)
    BY <2>1, CommitRuns
  <2>2. CASE LockDueScans(w)
    BY <2>2 DEF LockDueScans, Enqueue, rowVars
  <2>3. CASE FindsNoneDue(w) \/ FindsNoJob(w) \/ TickEnds(w)
    BY <2>3 DEF FindsNoneDue, FindsNoJob, TickEnds, Moves, rowVars
  <2>4. CASE ClaimScanJob(w) \/ ClaimAlert(w)
    BY <2>4 DEF ClaimScanJob, ClaimAlert, Claims, Moves, rowVars
  <2> QED BY <1>4, <2>1, <2>2, <2>3, <2>4 DEF WorkerStep
<1>5. ASSUME NEW s \in Schedules, RequestStep(s)
      PROVE  Abstract!Next
  <2>1. \A offer \in Offers : offer[2] \in Cadences
    BY ScanScheduleAssumption
  <2>2. ASSUME NEW offer \in Offers, NEW time \in 1 .. now,
               UpsertScheduledScan(s, offer[1], offer[2], time)
        PROVE  Abstract!Next
    BY <2>1, <2>2, WriteEdits DEF UpsertScheduledScan
  <2>3. ASSUME NEW offer \in Offers, NEW time \in 1 .. now, NEW on \in BOOLEAN,
               UpdateScheduledScan(s, offer[1], offer[2], on, time)
        PROVE  Abstract!Next
    BY <2>1, <2>3, WriteEdits DEF UpdateScheduledScan
  <2>4. CASE PauseScheduledScan(s)
    <3>1. cadence[s] \in Cadences /\ now \in 1 .. now
      BY ScanScheduleAssumption DEF IInv, TypeOK
    <3> QED BY <2>4, <3>1, WriteEdits DEF PauseScheduledScan
  <2> QED BY <1>5, <2>2, <2>3, <2>4 DEF RequestStep
<1> QED BY <1>1, <1>2, <1>3, <1>4, <1>5 DEF Next

(* Locks, replicas, rollbacks and requests that wait are invisible: every  *)
(* behaviour of the workers and the API is, to whoever reads the rows, one *)
(* of Timetable, in which a batch runs in one step and edits take effect   *)
(* at once.                                                                *)
THEOREM ImplementsTimetableCorrect == Spec => ImplementsTimetable
<1>1. Init => Abstract!Init
  BY DEF Init, Abstract!Init, Never
<1> QED BY <1>1, TimetableStep, IInvCorrect, PTL
        DEF Spec, ImplementsTimetable, Abstract!Spec

---------------------------------------------------------------------------
(* Why no due schedule starves, but by edits.                              *)

(* A row that a transaction runs is due later than it was.                 *)
LEMMA RunMovesBack ==
  ASSUME IInv, NEW w \in Workers, CommitDueScans(w), NEW t \in Schedules
  PROVE  /\ next[t] \in Nat /\ next'[t] \in Nat
         /\ next'[t] = next[t] \/ (next[t] # Never /\ next[t] < next'[t])
<1>1. PICK time \in [held[w] -> since[w] .. now] : WriteNextRuns(w, time)
  BY DEF CommitDueScans
<1>2. next[t] \in Nat /\ cadence[t] \in Cadences
  BY DEF IInv, TypeOK
<1>3. CASE t \notin held[w]
  BY <1>1, <1>2, <1>3 DEF WriteNextRuns
<1>4. CASE t \in held[w]
  <2>1. next[t] # Never /\ next[t] <= since[w] /\ enabled[t]
    BY <1>4 DEF IInv, HeldIsDue
  <2>2. cadence[t] # "manual"
    BY <2>1 DEF IInv, NextRunFits
  <2>3. since[w] \in Nat /\ now \in Nat
    BY <1>2, ScanScheduleAssumption DEF IInv, TypeOK
  <2>4. time[t] \in Nat /\ since[w] <= time[t]
    BY <1>1, <1>4, <2>3
  <2>5. next'[t] = time[t] + Interval[cadence[t]]
    BY <1>1, <1>4, <2>2 DEF WriteNextRuns, NextRunForCadence
  <2>6. Interval[cadence[t]] \in Nat \ {0}
    BY <1>2, <2>2, ScanScheduleAssumption
  <2> QED BY <1>2, <2>1, <2>3, <2>4, <2>5, <2>6
<1> QED BY <1>3, <1>4

(* Workers never put a schedule before another: with lookups that take the *)
(* first due rows, the safety half of DueIsEnqueued.                       *)
THEOREM NobodyCutsInCorrect == Spec => NobodyCutsIn
<1>1. ASSUME IInv, NEW w \in Workers, WorkerStep(w), NEW s \in Schedules,
             next[s] # Never, next'[s] = next[s], NEW t \in Before(s)'
      PROVE  t \in Before(s)
  <2>1. t \in Schedules /\ next'[t] # Never /\ next'[t] <= next[s]
    BY <1>1 DEF Before
  <2>2. CASE next' = next
    BY <2>1, <2>2 DEF Before
  <2>3. CASE CommitDueScans(w)
    <3>1. next[s] \in Nat
      BY <1>1 DEF IInv, TypeOK
    <3>2. /\ next[t] \in Nat /\ next'[t] \in Nat
          /\ next'[t] = next[t] \/ (next[t] # Never /\ next[t] < next'[t])
      BY <1>1, <2>1, <2>3, RunMovesBack
    <3> QED BY <2>1, <3>1, <3>2 DEF Before
  <2> QED
    BY <1>1, <2>2, <2>3
    DEF WorkerStep, LockDueScans, Enqueue, FindsNoneDue, ClaimScanJob, FindsNoJob,
        ClaimAlert, Claims, TickEnds, Moves, rowVars
<1>2. IInv /\ [Next]_vars
        => \A w \in Workers, s \in Schedules :
             WorkerStep(w) /\ next[s] # Never /\ next'[s] = next[s]
               => Before(s)' \subseteq Before(s)
  BY <1>1
<1> QED BY <1>2, IInvCorrect, PTL DEF Spec, NobodyCutsIn
===========================================================================
