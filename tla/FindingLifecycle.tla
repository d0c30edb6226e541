-------------------------- MODULE FindingLifecycle --------------------------
(***************************************************************************)
(* The findings of one domain: rows of findings and remediation_tasks, the *)
(* workers that derive findings from every result they store, and the API  *)
(* requests that store results, derive findings from one, set a finding's  *)
(* status, and create and move remediation tasks.  A finding is its rule:  *)
(* the table is unique on asset and rule.                                  *)
(*                                                                         *)
(* Every action is one SQL statement.  Rows of finding_events are not kept *)
(* one by one, only whether a change of status was left without one; a     *)
(* note added by itself changes nothing else.  An error of the database    *)
(* ends a request or a tick as a crash does: the statements made stay.     *)
(***************************************************************************)
EXTENDS Naturals, Sequences, FiniteSets, Functions, FindingRules, RiskScore

CONSTANTS
  MaxResults,    \* bound on the rows of scan_results
  MaxDetections, \* bound on how often one finding is detected
  Observations,  \* the evidence scans of the domain may return
  Marks,         \* the statuses users set
  Moves,         \* the statuses users move tasks to
  Tasks,         \* remediation tasks ever created
  Workers,       \* worker replicas
  Requests,      \* concurrent API requests
  Calls,         \* what the requests may ask for: see AllCalls
  Crashes        \* whether executors may end between two statements

FindingStatuses == {"open", "accepted_risk", "false_positive", "in_progress",
                    "remediated", "reopened"}
Resolved        == {"remediated", "accepted_risk", "false_positive"}

TaskStatuses == {"open", "in_progress", "blocked", "remediated",
                 "accepted_risk", "false_positive"}

AllCalls == {"run", "derive", "status", "task"}

ASSUME FindingLifecycleAssumption ==
  /\ MaxResults \in Nat
  /\ MaxDetections \in Nat
  /\ Observations \subseteq Evidence
  /\ Marks \subseteq FindingStatuses
  /\ Moves \subseteq TaskStatuses
  /\ Workers \cap Requests = {}
  /\ Calls \subseteq AllCalls
  /\ Crashes \in BOOLEAN
  /\ IsFiniteSet(Workers) /\ IsFiniteSet(Requests)

Actors == Workers \cup Requests

VARIABLES
  results,      \* the evidence of the rows of scan_results, oldest first
  status,       \* findings.status, "absent" before the insert
  occurrences,  \* findings.occurrence_count
  risk,         \* findings.risk_score
  resolvedAt,   \* findings.resolved_at is not NULL
  taskOf,       \* remediation_tasks.finding_id, "none" before the insert
  taskStatus,   \* remediation_tasks.status
  todo,         \* the drafts an executor has yet to upsert
  next,         \* the second statement a request has yet to make
  at,           \* the finding that statement is about
  goal,         \* the status it sets
  owed,         \* history: the upserts taken on, less those cut short
  latest,       \* history: the task that set a finding's status last, if any
  crossed       \* history: findings whose last move met another or was cut short

rowVars   == <<results, occurrences, risk>>
taskVars  == <<taskOf, taskStatus, latest, crossed>>
actorVars == <<todo, next, at, goal, owed>>
vars == <<results, status, occurrences, risk, resolvedAt, taskOf, taskStatus,
          todo, next, at, goal, owed, latest, crossed>>

TypeOK ==
  /\ results \in Seq(Evidence)
  /\ status \in [Rules -> FindingStatuses \cup {"absent"}]
  /\ occurrences \in [Rules -> 0 .. MaxDetections]
  /\ risk \in [Rules -> 0 .. 100]
  /\ resolvedAt \in [Rules -> BOOLEAN]
  /\ taskOf \in [Tasks -> Rules \cup {"none"}]
  /\ taskStatus \in [Tasks -> TaskStatuses \cup {"none"}]
  /\ todo \in [Actors -> Seq(Rules)]
  /\ next \in [Actors -> {"nothing", "event", "finding"}]
  /\ at \in [Actors -> Rules \cup {"none"}]
  /\ goal \in [Actors -> FindingStatuses \cup {"none"}]
  /\ owed \in [Rules -> Int]
  /\ latest \in [Rules -> {{}} \cup {{t} : t \in Tasks}]
  /\ crossed \subseteq Rules

Init ==
  /\ results = <<>>
  /\ status = [k \in Rules |-> "absent"]
  /\ occurrences = [k \in Rules |-> 0]
  /\ risk = [k \in Rules |-> 0]
  /\ resolvedAt = [k \in Rules |-> FALSE]
  /\ taskOf = [t \in Tasks |-> "none"]
  /\ taskStatus = [t \in Tasks |-> "none"]
  /\ todo = [x \in Actors |-> <<>>]
  /\ next = [x \in Actors |-> "nothing"]
  /\ at = [x \in Actors |-> "none"]
  /\ goal = [x \in Actors |-> "none"]
  /\ owed = [k \in Rules |-> 0]
  /\ latest = [k \in Rules |-> {}]
  /\ crossed = {}

-----------------------------------------------------------------------------
Idle(x) == todo[x] = <<>> /\ next[x] = "nothing"

(* Executor x has another statement to make, about finding k.              *)
Expect(x, statement, k, s) ==
  /\ next' = [next EXCEPT ![x] = statement]
  /\ at' = [at EXCEPT ![x] = k]
  /\ goal' = [goal EXCEPT ![x] = s]

SetStatus(k, s) == status' = [status EXCEPT ![k] = s]

(* The findings x has yet to upsert.                                       *)
Owes(x, k) == k \in Range(todo[x])

(* x has moved a task of finding k and has yet to move the finding.        *)
IsMoving(x, k) == next[x] = "finding" /\ at[x] = k

Moving(k) == \E r \in Requests : IsMoving(r, k)

Crash(x) ==
  /\ Crashes
  /\ ~Idle(x)
  /\ todo' = [todo EXCEPT ![x] = <<>>]
  /\ Expect(x, "nothing", "none", "none")
  /\ owed' = [k \in Rules |-> IF Owes(x, k) THEN owed[k] - 1 ELSE owed[k]]
  /\ crossed' = crossed \cup {k \in Rules : IsMoving(x, k)}
  /\ UNCHANGED <<rowVars, status, resolvedAt, taskOf, taskStatus, latest>>

-----------------------------------------------------------------------------
(* Results and findings.                                                   *)

StoreResult(e) ==
  /\ Len(results) < MaxResults
  /\ results' = Append(results, e)

(* x sets out to upsert the findings evidence e yields.                    *)
TakeOn(x, e) ==
  /\ todo' = [todo EXCEPT ![x] = DeriveFindings(e)]
  /\ owed' = [k \in Rules |->
                IF k \in Range(DeriveFindings(e)) THEN owed[k] + 1 ELSE owed[k]]

(* persist_scan_result, after which persist_findings starts on its drafts. *)
WorkerStores(w, e) ==
  /\ Idle(w)
  /\ StoreResult(e)
  /\ TakeOn(w, e)
  /\ UNCHANGED <<occurrences, risk, status, resolvedAt, taskVars, next, at,
                 goal>>

(* A request that runs a job stores its result and derives nothing.        *)
RequestStores(r, e) ==
  /\ "run" \in Calls
  /\ Idle(r)
  /\ StoreResult(e)
  /\ UNCHANGED <<occurrences, risk, status, resolvedAt, taskVars, actorVars>>

(* derive_findings on any stored result, derived before or not.            *)
RequestDerives(r, i) ==
  /\ "derive" \in Calls
  /\ Idle(r)
  /\ TakeOn(r, results[i])
  /\ UNCHANGED <<rowVars, status, resolvedAt, taskVars, next, at, goal>>

(* Mutant: every resolved finding is reopened.                             *)
ReopenedStatus(s) ==
  CASE s = "absent"    -> "open"
    [] s \in Resolved -> "reopened"
    [] OTHER           -> s

(* The status of a finding that is detected.                               *)
DetectedStatus(s) ==
  CASE s = "absent"     -> "open"
    [] s = "remediated" -> "reopened"
    [] OTHER            -> s

(* Mutant: a finding that comes back is counted from one.                  *)
CountAfresh(k) == IF status[k] = "remediated" THEN 1 ELSE occurrences[k] + 1

(* The count and the score finding k gets when it is detected: an insert   *)
(* takes the draft's score, a conflict the one built on the old count.     *)
CountOnceMore(k) == occurrences[k] + 1

(* Mutant: the score is built on the new count.                            *)
RiskOnNewCount(k) ==
  IF status[k] = "absent"
  THEN DraftRiskScore(SeverityOf(k), ConfidenceOf(k))
  ELSE UpsertedRiskScore(SeverityOf(k), ConfidenceOf(k), occurrences[k] + 1)

RiskOnceMore(k) ==
  IF status[k] = "absent"
  THEN DraftRiskScore(SeverityOf(k), ConfidenceOf(k))
  ELSE UpsertedRiskScore(SeverityOf(k), ConfidenceOf(k), occurrences[k])

(* One turn of the loop over the drafts, the same in persist_findings and  *)
(* upsert_findings: insert the finding, or on conflict count it, score it  *)
(* anew and reopen it if it was remediated.  resolved_at stays.            *)
UpsertFinding(x) ==
  LET k == Head(todo[x])
  IN  /\ todo[x] # <<>>
      /\ occurrences[k] < MaxDetections
      /\ todo' = [todo EXCEPT ![x] = Tail(@)]
      /\ SetStatus(k, DetectedStatus(status[k]))
      /\ occurrences' = [occurrences EXCEPT ![k] = CountOnceMore(k)]
      /\ risk' = [risk EXCEPT ![k] = RiskOnceMore(k)]
      /\ UNCHANGED <<results, resolvedAt, taskVars, next, at, goal, owed>>

-----------------------------------------------------------------------------
(* Triage.                                                                 *)

(* Mutant: setting a status back does not clear resolved_at.               *)
KeepResolvedAt(r, k, s, noted) ==
  /\ "status" \in Calls
  /\ Idle(r)
  /\ status[k] # "absent"
  /\ SetStatus(k, s)
  /\ resolvedAt' = [resolvedAt EXCEPT ![k] = @ \/ s \in Resolved]
  /\ latest' = IF Moving(k) THEN latest ELSE [latest EXCEPT ![k] = {}]
  /\ IF noted THEN Expect(r, "event", k, "none") ELSE UNCHANGED <<next, at, goal>>
  /\ UNCHANGED <<rowVars, taskOf, taskStatus, crossed, todo, owed>>

(* Any status may be set, from any status, with a note or without.  The    *)
(* finding no longer has its task's status, unless a move is still coming. *)
UpdateFindingStatus(r, k, s, noted) ==
  /\ "status" \in Calls
  /\ Idle(r)
  /\ status[k] # "absent"
  /\ SetStatus(k, s)
  /\ resolvedAt' = [resolvedAt EXCEPT ![k] = s \in Resolved]
  /\ latest' = IF Moving(k) THEN latest ELSE [latest EXCEPT ![k] = {}]
  /\ IF noted THEN Expect(r, "event", k, "none") ELSE UNCHANGED <<next, at, goal>>
  /\ UNCHANGED <<rowVars, taskOf, taskStatus, crossed, todo, owed>>

(* insert_finding_event, for the note.                                     *)
InsertFindingEvent(r) ==
  /\ next[r] = "event"
  /\ Expect(r, "nothing", "none", "none")
  /\ UNCHANGED <<rowVars, status, resolvedAt, taskVars, todo, owed>>

-----------------------------------------------------------------------------
(* Remediation tasks.                                                      *)

(* A new task leaves its finding as it is.                                 *)
CreateRemediationTask(r, t, k) ==
  /\ "task" \in Calls
  /\ Idle(r)
  /\ status[k] # "absent"
  /\ taskOf[t] = "none"
  /\ taskOf' = [taskOf EXCEPT ![t] = k]
  /\ taskStatus' = [taskStatus EXCEPT ![t] = "open"]
  /\ UNCHANGED <<rowVars, status, resolvedAt, latest, crossed, actorVars>>

(* Mutant: a finding takes its task's status as it is.                     *)
StatusVerbatim(s) == s

(* The finding's status for each status of a task.                         *)
FindingStatusFor(s) == IF s = "blocked" THEN "in_progress" ELSE s

(* History of a move: of finding k, by task t, while another comes or not. *)
NoteMove(k, t) ==
  /\ latest' = [latest EXCEPT ![k] = {t}]
  /\ crossed' = IF Moving(k) THEN crossed \cup {k} ELSE crossed \ {k}

(* update_remediation_status, first statement: the task.                   *)
UpdateRemediationStatus(r, t, s) ==
  /\ "task" \in Calls
  /\ Idle(r)
  /\ taskOf[t] # "none"
  /\ taskStatus' = [taskStatus EXCEPT ![t] = s]
  /\ NoteMove(taskOf[t], t)
  /\ Expect(r, "finding", taskOf[t], FindingStatusFor(s))
  /\ UNCHANGED <<rowVars, status, resolvedAt, taskOf, todo, owed>>

(* Second statement: its finding, without a date or an event.              *)
MoveFinding(r) ==
  /\ next[r] = "finding"
  /\ SetStatus(at[r], goal[r])
  /\ Expect(r, "nothing", "none", "none")
  /\ UNCHANGED <<rowVars, resolvedAt, taskVars, todo, owed>>

-----------------------------------------------------------------------------
Next ==
  \/ \E w \in Workers :
       \/ \E e \in Observations : WorkerStores(w, e)
       \/ UpsertFinding(w)
       \/ Crash(w)
  \/ \E r \in Requests :
       \/ \E e \in Observations : RequestStores(r, e)
       \/ \E i \in DOMAIN results : RequestDerives(r, i)
       \/ UpsertFinding(r)
       \/ \E k \in Rules, s \in Marks, noted \in BOOLEAN :
            UpdateFindingStatus(r, k, s, noted)
       \/ InsertFindingEvent(r)
       \/ \E t \in Tasks, k \in Rules : CreateRemediationTask(r, t, k)
       \/ \E t \in Tasks, s \in Moves : UpdateRemediationStatus(r, t, s)
       \/ MoveFinding(r)
       \/ Crash(r)

Spec == Init /\ [][Next]_vars

-----------------------------------------------------------------------------
(* Properties.                                                             *)

(* The stored score of a finding is the one calculate_finding_risk_score   *)
(* gives for the times it has been detected, although the upsert computes  *)
(* it from the old count in SQL, and whoever upserts and triages at once.  *)
RiskFitsOccurrences ==
  \A k \in Rules : status[k] # "absent" =>
    risk[k] = CalculateFindingRiskScore(SeverityOf(k), ConfidenceOf(k),
                                        occurrences[k], 0, TRUE)

(* Unless its status was last set by a task's move, a resolved finding has *)
(* a date of resolution, and a finding with such a date is resolved or was *)
(* until a scan reopened it.                                               *)
ResolutionIsDated ==
  \A k \in Rules : latest[k] = {} =>
    /\ status[k] \in Resolved => resolvedAt[k]
    /\ resolvedAt[k] => status[k] \in Resolved \cup {"reopened"}

(* The upserts of workers and of derive_findings lose and repeat nothing,  *)
(* however often a result is derived again and wherever executors crash: a *)
(* finding's count and the upserts still to come are those taken on and    *)
(* not cut short.                                                          *)
CountsDetections ==
  \A k \in Rules :
    occurrences[k] + Cardinality({x \in Actors : Owes(x, k)}) = owed[k]

(* When nobody is in the middle of moving a task of a finding, a finding   *)
(* whose status a task set last has the status of that task, or has been   *)
(* reopened by a scan after the task was closed as remediated.  Only two   *)
(* moves that cross, or one cut short, may leave them apart, and only      *)
(* until the next move.                                                    *)
TaskAgrees ==
  \A k \in Rules \ crossed : \A t \in latest[k] :
    ~Moving(k) =>
      \/ status[k] = FindingStatusFor(taskStatus[t])
      \/ status[k] = "reopened" /\ taskStatus[t] = "remediated"
=============================================================================
