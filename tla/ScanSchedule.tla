--------------------------- MODULE ScanSchedule ---------------------------
(***************************************************************************)
(* The scan schedules of one asset against a clock: rows of                *)
(* scheduled_scans, the API requests that create, update and pause them    *)
(* (crates/api), and the loop of the worker replicas, which enqueues the   *)
(* jobs of due schedules, then looks for a scan job and, when there is     *)
(* none, for an alert (crates/worker).                                     *)
(*                                                                         *)
(* An action is one SQL statement or transaction of a request; of a worker *)
(* it is a lookup of the tick, or the end of the transaction whose lookup  *)
(* has locked the rows found.  What jobs and alerts become is the business *)
(* of ScanQueue and AlertDelivery: here only whether any is waiting.       *)
(***************************************************************************)
EXTENDS Naturals, FiniteSets

CONSTANTS
  Schedules,  \* rows of scheduled_scans that may exist
  Offers,     \* what clients ask for: <<profile, cadence>>
  Limit,      \* schedules a transaction enqueues at most, 10 in the code
  Interval,   \* time between the runs of a cadence
  Delay,      \* bound on the time from a request's start to its statement
  MaxTime,    \* bound on the clock
  Workers     \* worker replicas

Cadences == {"manual", "daily", "weekly"}
Profiles == {"dns_baseline", "http_probe", "dns_policy", "full_domain_baseline"}

ASSUME ScanScheduleAssumption ==
  /\ Limit \in Nat \ {0}
  /\ Interval \in [Cadences \ {"manual"} -> Nat \ {0}]
  /\ Delay \in Nat
  /\ MaxTime \in Nat \ {0}
  /\ Offers \subseteq Profiles \X Cadences

Never == 0  \* NULL where the code has a time

VARIABLES
  now,      \* the time
  profile,  \* profile of each row, "none" before the insert
  cadence, enabled,
  next,     \* next_run_at
  last,     \* last_enqueued_at
  edited,   \* whether next_run_at was written by a request, not a worker
  pc,       \* where each worker is in its tick
  held,     \* the rows a worker's transaction has locked
  since,    \* when that transaction began, which is its now()
  waiting   \* which of "job" and "alert" has something to claim

rowVars  == <<profile, cadence, enabled, next, last, edited>>
tickVars == <<pc, held, since>>
vars == <<now, profile, cadence, enabled, next, last, edited, pc, held, since,
          waiting>>

Steps == {"idle", "enqueueing", "jobs", "alerts", "busy"}

(* The columns are of their types; no run was enqueued in the future.      *)
TypeOK ==
  /\ now \in 1 .. MaxTime
  /\ profile \in [Schedules -> Profiles \cup {"none"}]
  /\ cadence \in [Schedules -> Cadences]
  /\ enabled \in [Schedules -> BOOLEAN]
  /\ next \in [Schedules -> Nat]
  /\ last \in [Schedules -> 0 .. MaxTime]
  /\ edited \in [Schedules -> BOOLEAN]
  /\ pc \in [Workers -> Steps]
  /\ held \in [Workers -> SUBSET Schedules]
  /\ since \in [Workers -> 0 .. MaxTime]
  /\ waiting \subseteq {"job", "alert"}

Init ==
  /\ now = 1
  /\ profile = [s \in Schedules |-> "none"]
  /\ cadence = [s \in Schedules |-> "manual"]
  /\ enabled = [s \in Schedules |-> FALSE]
  /\ next = [s \in Schedules |-> Never]
  /\ last = [s \in Schedules |-> Never]
  /\ edited = [s \in Schedules |-> FALSE]
  /\ pc = [w \in Workers |-> "idle"]
  /\ held = [w \in Workers |-> {}]
  /\ since = [w \in Workers |-> Never]
  /\ waiting = {}

(* Mutant: the lookup of due schedules without FOR UPDATE.                 *)
NeverLocked(s) == FALSE

Locked(s) == \E w \in Workers : s \in held[w]

NextRunForCadence(c, time) ==
  IF c = "manual" THEN Never ELSE time + Interval[c]

Due(s) == enabled[s] /\ next[s] # Never /\ next[s] <= now

---------------------------------------------------------------------------
(* The worker's tick.                                                      *)

(* The batch of a transaction: the first due rows nobody has locked.       *)
IsBatch(S) ==
  LET free == {s \in Schedules : Due(s) /\ ~Locked(s)}
  IN  /\ S # {}
      /\ S \subseteq free
      /\ Cardinality(S) <= Limit
      /\ Cardinality(S) = Limit \/ S = free
      /\ \A s \in S, t \in free \ S : next[s] <= next[t]

Enqueue(w, S) ==
  /\ pc[w] = "idle"
  /\ pc' = [pc EXCEPT ![w] = "enqueueing"]
  /\ held' = [held EXCEPT ![w] = S]
  /\ since' = [since EXCEPT ![w] = now]
  /\ UNCHANGED <<now, rowVars, waiting>>

LockDueScans(w) == \E S \in SUBSET Schedules : IsBatch(S) /\ Enqueue(w, S)

Unlock(w) ==
  /\ held' = [held EXCEPT ![w] = {}]
  /\ since' = [since EXCEPT ![w] = Never]
  /\ pc' = [pc EXCEPT ![w] = "idle"]

(* Mutant: the two times swapped in the UPDATE of a row.                   *)
WriteTimesSwapped(w, time) ==
  /\ last' = [s \in Schedules |-> IF s \in held[w]
                                    THEN NextRunForCadence(cadence[s], time[s])
                                    ELSE last[s]]
  /\ next' = [s \in Schedules |-> IF s \in held[w] THEN since[w] ELSE next[s]]
  /\ edited' = [s \in Schedules |-> edited[s] /\ s \notin held[w]]

(* Mutant: the next run reckoned from the due time, so that ticks catch    *)
(* up.                                                                     *)
WriteCatchingUp(w, time) ==
  /\ next' = [s \in Schedules |-> IF s \in held[w]
                                    THEN NextRunForCadence(cadence[s], next[s])
                                    ELSE next[s]]
  /\ last' = [s \in Schedules |-> IF s \in held[w] THEN since[w] ELSE last[s]]
  /\ edited' = [s \in Schedules |-> edited[s] /\ s \notin held[w]]

(* Mutant: next_run_at left as it was.                                     *)
WriteLastRunOnly(w, time) ==
  /\ last' = [s \in Schedules |-> IF s \in held[w] THEN since[w] ELSE last[s]]
  /\ UNCHANGED <<next, edited>>

(* The jobs are inserted, and each row gets its next run, reckoned from    *)
(* the clock as the transaction reads it on the way: time.                 *)
WriteNextRuns(w, time) ==
  /\ next' = [s \in Schedules |-> IF s \in held[w]
                                    THEN NextRunForCadence(cadence[s], time[s])
                                    ELSE next[s]]
  /\ last' = [s \in Schedules |-> IF s \in held[w] THEN since[w] ELSE last[s]]
  /\ edited' = [s \in Schedules |-> edited[s] /\ s \notin held[w]]

CommitDueScans(w) ==
  /\ pc[w] = "enqueueing"
  /\ \E time \in [held[w] -> since[w] .. now] : WriteNextRuns(w, time)
  /\ waiting' = waiting \cup {"job"}
  /\ Unlock(w)
  /\ UNCHANGED <<now, profile, cadence, enabled>>

(* A SQL error, or the end of the worker: the transaction is rolled back.  *)
TickAborts(w) ==
  /\ pc[w] # "idle"
  /\ Unlock(w)
  /\ UNCHANGED <<now, rowVars, waiting>>

Moves(w, from, to) ==
  /\ pc[w] = from
  /\ pc' = [pc EXCEPT ![w] = to]
  /\ UNCHANGED <<now, rowVars, held, since>>

FindsNoneDue(w) ==
  /\ \A s \in Schedules : Due(s) => Locked(s)
  /\ Moves(w, "idle", "jobs")
  /\ UNCHANGED waiting

(* Claiming what waits may leave more of it, or nothing.                   *)
Claims(w, from, kind) ==
  /\ kind \in waiting
  /\ Moves(w, from, "busy")
  /\ waiting' \in {waiting, waiting \ {kind}}

ClaimScanJob(w) == Claims(w, "jobs", "job")
ClaimAlert(w)   == Claims(w, "alerts", "alert")

(* Mutant: a tick that finds no job goes to sleep.                         *)
SleepWithoutJob(w) ==
  /\ "job" \notin waiting
  /\ Moves(w, "jobs", "idle")
  /\ UNCHANGED waiting

FindsNoJob(w) ==
  /\ "job" \notin waiting
  /\ Moves(w, "jobs", "alerts")
  /\ UNCHANGED waiting

(* The tick ends: with nothing to do the worker sleeps, else it goes on.   *)
TickEnds(w) ==
  /\ \/ Moves(w, "busy", "idle")
     \/ "alert" \notin waiting /\ Moves(w, "alerts", "idle")
  /\ UNCHANGED waiting

---------------------------------------------------------------------------
(* Requests, any number at once.  Each reckons next_run_at from the clock   *)
(* at some time, then makes one statement, which waits for the lock on its  *)
(* row.  A request that ends before it, or with a unique violation, leaves  *)
(* everything alone.                                                        *)

WriteRow(s, p, c, on, time) ==
  /\ profile' = [profile EXCEPT ![s] = p]
  /\ cadence' = [cadence EXCEPT ![s] = c]
  /\ enabled' = [enabled EXCEPT ![s] = on]
  /\ next' = [next EXCEPT ![s] = IF on THEN NextRunForCadence(c, time) ELSE Never]
  /\ edited' = [edited EXCEPT ![s] = TRUE]
  /\ UNCHANGED <<now, last, tickVars, waiting>>

(* INSERT ... ON CONFLICT (asset_id, profile) DO UPDATE.                   *)
UpsertScheduledScan(s, p, c, time) ==
  /\ profile[s] \in {p, "none"}
  /\ \A t \in Schedules : profile[t] = p => t = s
  /\ ~Locked(s)
  /\ WriteRow(s, p, c, TRUE, time)

(* The asset may have another row of the profile: a unique violation.      *)
UpdateScheduledScan(s, p, c, on, time) ==
  /\ profile[s] # "none"
  /\ \A t \in Schedules : profile[t] = p => t = s
  /\ ~Locked(s)
  /\ WriteRow(s, p, c, on, time)

(* Mutant: next_run_at kept by the pause.                                  *)
PauseKeepsNextRun(s) ==
  /\ profile[s] # "none"
  /\ ~Locked(s)
  /\ enabled' = [enabled EXCEPT ![s] = FALSE]
  /\ edited' = [edited EXCEPT ![s] = TRUE]
  /\ UNCHANGED <<now, profile, cadence, next, last, tickVars, waiting>>

PauseScheduledScan(s) ==
  /\ profile[s] # "none"
  /\ ~Locked(s)
  /\ WriteRow(s, profile[s], cadence[s], FALSE, now)

---------------------------------------------------------------------------
TimePasses ==
  /\ now < MaxTime
  /\ now' = now + 1
  /\ UNCHANGED <<rowVars, tickVars, waiting>>

(* create_scan_job, and queue_slack_alert: see ScanQueue, AlertDelivery.   *)
OthersInsert(kind) ==
  /\ waiting' = waiting \cup {kind}
  /\ UNCHANGED <<now, rowVars, tickVars>>

WorkerStep(w) ==
  \/ LockDueScans(w)
  \/ CommitDueScans(w)
  \/ FindsNoneDue(w)
  \/ ClaimScanJob(w)
  \/ FindsNoJob(w)
  \/ ClaimAlert(w)
  \/ TickEnds(w)

RequestStep(s) ==
  \/ \E offer \in Offers, time \in {t \in 1 .. now : now <= t + Delay} :
       \/ UpsertScheduledScan(s, offer[1], offer[2], time)
       \/ \E on \in BOOLEAN : UpdateScheduledScan(s, offer[1], offer[2], on, time)
  \/ PauseScheduledScan(s)

Next ==
  \/ TimePasses
  \/ \E kind \in {"job", "alert"} : OthersInsert(kind)
  \/ \E w \in Workers : WorkerStep(w) \/ TickAborts(w)
  \/ \E s \in Schedules : RequestStep(s)

Spec == Init /\ [][Next]_vars

(* Workers go on ticking, and a tick that ever again gets that far does not *)
(* fail for ever.  Nothing is assumed of requests or of time.               *)
Fairness ==
  \A w \in Workers :
    /\ WF_vars(WorkerStep(w))
    /\ SF_vars(CommitDueScans(w))
    /\ SF_vars(ClaimScanJob(w) \/ FindsNoJob(w))
    /\ SF_vars(ClaimAlert(w))

FairSpec == Spec /\ Fairness

---------------------------------------------------------------------------
(* What a worker is about to enqueue is still enabled and due, whatever    *)
(* requests have asked since it looked: a pause that has returned is never *)
(* followed by jobs, and one that comes too late waits for the lock        *)
(* (worker 128-208, api 1182-1278).                                        *)
HeldIsDue ==
  \A w \in Workers : \A s \in held[w] :
    enabled[s] /\ next[s] # Never /\ next[s] <= since[w]

(* Replicas that tick at the same time, and ticks after an outage, keep to *)
(* the cadence: between two runs without an edit lies a whole interval     *)
(* (FOR UPDATE SKIP LOCKED and next_run_at, worker 130-191).               *)
Spaced ==
  \A w \in Workers : \A s \in held[w] :
    edited[s] \/ since[w] >= last[s] + Interval[cadence[s]]

(* A row has a next run if and only if it is enabled and not manual: a     *)
(* schedule shown as on will run, one shown as off will not, after any     *)
(* order of edits and runs (api 1193-1205, 1253, 2233-2248).               *)
NextRunFits ==
  \A s \in Schedules :
    next[s] # Never <=> enabled[s] /\ cadence[s] # "manual"

(* What the invariants above rest on.  A transaction that holds rows is     *)
(* open, no row is held by two, and a next run a worker wrote lies an      *)
(* interval after the last.                                                *)
TransactionsAgree ==
  /\ \A w \in Workers :
       /\ held[w] # {} => pc[w] = "enqueueing"
       /\ pc[w] = "enqueueing" => since[w] \in 1 .. now
  /\ \A w, v \in Workers : w # v => held[w] \cap held[v] = {}

NextRunsAgree ==
  \A s \in Schedules :
    next[s] # Never => edited[s] \/ last[s] + Interval[cadence[s]] <= next[s]

IInv == /\ TypeOK
        /\ HeldIsDue
        /\ Spaced
        /\ NextRunFits
        /\ TransactionsAgree
        /\ NextRunsAgree

(* Whatever locks, replicas, failing ticks and waiting requests do, a      *)
(* reader of the rows sees Timetable: a transaction that began long ago     *)
(* and commits now is one run of schedules that are on and were due when   *)
(* it began, and no edit falls in between (worker 128-208, api 1182-1278). *)
Abstract == INSTANCE Timetable
ImplementsTimetable == Abstract!Spec

(* The schedules that are due no later than s is.                          *)
Before(s) == {t \in Schedules : next[t] # Never /\ next[t] <= next[s]}

(* Nobody cuts in: whatever a worker does, also one that has held its rows *)
(* for longer than an interval, none comes before a schedule it leaves     *)
(* alone that did not before.  A run moves a schedule back (worker         *)
(* 131-193), so that only edits can keep a due one waiting.                *)
NobodyCutsIn ==
  [][\A w \in Workers, s \in Schedules :
       WorkerStep(w) /\ next[s] # Never /\ next'[s] = next[s]
         => Before(s)' \subseteq Before(s)]_vars

(* A run that is due is enqueued, or edited away, however many schedules   *)
(* are due before it and however often ticks fail (worker 131-140).        *)
DueIsEnqueued == \A s \in Schedules : Due(s) ~> ~Due(s)

(* Once no schedule is due and no job is queued any more, an alert that    *)
(* waits is taken: a tick that finds nothing else looks at alerts          *)
(* (worker 91-101).  While jobs keep coming, alerts may wait for ever.     *)
Quiet == "job" \notin waiting /\ \A s \in Schedules : ~Due(s)

AlertsServed ==
  <>[]Quiet => ("alert" \in waiting ~> \E w \in Workers : pc[w] = "busy")
===========================================================================
