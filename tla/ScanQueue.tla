----------------------------- MODULE ScanQueue -----------------------------
(***************************************************************************)
(* The scan job queue: rows of scan_jobs and scan_results, the worker      *)
(* replicas that claim and execute queued jobs (crates/worker), and the    *)
(* API requests that run a queued job on the spot (run_scan_now and its    *)
(* three routes in crates/api).  Both kinds of executor share the rows and *)
(* nothing else: every action below is one SQL statement or transaction,   *)
(* or one await between two of them.                                       *)
(*                                                                         *)
(* A job's number is its place in the order of insertion, which is not the *)
(* order of created_at: that column is the start of the transaction that   *)
(* inserted the row, and a row is seen only once that transaction commits. *)
(* The column next_run_at of scan_jobs is NULL or that time too, so the    *)
(* claim's test of it never excludes a row, and locked_at is written but   *)
(* never read: neither is kept here.                                       *)
(***************************************************************************)
EXTENDS Naturals, Sequences, FiniteSets, SequencesExt

CONSTANTS
  MaxJobs,    \* bound on the rows ever inserted into scan_jobs
  MaxDrafts,  \* bound on the findings one piece of evidence yields
  Assets,     \* the domains jobs scan
  Workers,    \* worker replicas
  Requests,   \* concurrent API requests to run a job now
  Enqueuers,  \* transactions that enqueue due schedules at the same time
  Routes,     \* the scan types those requests ask for
  Plans,      \* the profiles of the schedules that come due
  Faults      \* what may go wrong: see FaultKinds

(* "scan": the scanner returns an error; "store": a SQL statement or a      *)
(* commit returns an error; "stop": a process dies or a client disconnects. *)
FaultKinds == {"scan", "store", "stop"}

ScanTypes == {"dns_baseline", "http_probe", "dns_policy"}
Profiles  == ScanTypes \cup {"full_domain_baseline"}

ASSUME ScanQueueAssumption ==
  /\ MaxJobs \in Nat
  /\ MaxDrafts \in Nat
  /\ Workers \cap Requests = {}
  /\ Routes \subseteq ScanTypes
  /\ Plans \subseteq Profiles
  /\ Faults \subseteq FaultKinds

Jobs   == 1 .. MaxJobs
NoJob  == 0
NoDate == 0
Actors == Workers \cup Requests

Statuses  == {"absent", "queued", "running", "completed", "failed"}
Terminal  == {"completed", "failed"}

WorkerSteps  == {"scanning", "scanFailed", "scanned", "saving"}
RequestSteps == {"scanning", "scanned", "auditing", "failing"}
Steps        == {"idle"} \cup WorkerSteps \cup RequestSteps

VARIABLES
  submitted,     \* how many jobs have been inserted
  status,        \* scan_jobs.status, "absent" before the insert
  scanType,      \* scan_jobs.scan_type
  assetOf,       \* scan_jobs.asset_id
  created,       \* scan_jobs.created_at: equal within one transaction
  began,         \* when each enqueuer's transaction began, if it is open
  attempts,      \* scan_jobs.attempts
  results,       \* how many scan_results rows the job has
  resultSource,  \* scan_results.source of the latest row
  evidence,      \* how many findings that row's evidence yields
  upserts,       \* how many findings the worker upserted from it
  pc,            \* where each executor is
  job,           \* the job each executor holds
  source,        \* the scan type each executor runs
  todo           \* findings its evidence yields, not upserted yet

queueVars  == <<submitted, assetOf, created, began>>
resultVars == <<results, resultSource, evidence>>
actorVars  == <<pc, job, source, todo>>
vars == <<submitted, status, scanType, assetOf, created, began, attempts,
          results, resultSource, evidence, upserts, pc, job, source, todo>>

RowTypes ==
  /\ submitted \in 0 .. MaxJobs
  /\ status \in [Jobs -> Statuses]
  /\ scanType \in [Jobs -> ScanTypes \cup {"none"}]
  /\ assetOf \in [Jobs -> Assets \cup {"none"}]
  /\ created \in [Jobs -> 0 .. MaxJobs]
  /\ began \in [Enqueuers -> 0 .. MaxJobs]
  /\ attempts \in [Jobs -> Nat]
  /\ results \in [Jobs -> Nat]
  /\ resultSource \in [Jobs -> ScanTypes \cup {"none"}]
  /\ evidence \in [Jobs -> 0 .. MaxDrafts]
  /\ upserts \in [Jobs -> Nat]

ActorTypes ==
  /\ pc \in [Actors -> Steps]
  /\ job \in [Actors -> Jobs \cup {NoJob}]
  /\ source \in [Actors -> ScanTypes \cup {"none"}]
  /\ todo \in [Actors -> 0 .. MaxDrafts]

TypeOK == RowTypes /\ ActorTypes

Init ==
  /\ submitted = 0
  /\ status = [j \in Jobs |-> "absent"]
  /\ scanType = [j \in Jobs |-> "none"]
  /\ assetOf = [j \in Jobs |-> "none"]
  /\ created = [j \in Jobs |-> 0]
  /\ began = [e \in Enqueuers |-> NoDate]
  /\ attempts = [j \in Jobs |-> 0]
  /\ results = [j \in Jobs |-> 0]
  /\ resultSource = [j \in Jobs |-> "none"]
  /\ evidence = [j \in Jobs |-> 0]
  /\ upserts = [j \in Jobs |-> 0]
  /\ pc = [x \in Actors |-> "idle"]
  /\ job = [x \in Actors |-> NoJob]
  /\ source = [x \in Actors |-> "none"]
  /\ todo = [x \in Actors |-> 0]

-----------------------------------------------------------------------------
(* Inserting jobs.                                                         *)

(* The scan types of a profile, in the order their jobs are inserted.      *)
ScanTypesForProfile(p) ==
  IF p = "full_domain_baseline"
  THEN <<"dns_baseline", "http_probe", "dns_policy">>
  ELSE <<p>>

(* The jobs of a schedule, a profile on an asset.                          *)
JobsOf(plan) ==
  [i \in DOMAIN ScanTypesForProfile(plan[1]) |->
     <<ScanTypesForProfile(plan[1])[i], plan[2]>>]

(* A transaction commits a queued job for each scan type and asset of      *)
(* batch, all of them dated by its start.                                  *)
Insert(date, batch) ==
  LET new == submitted + 1 .. submitted + Len(batch)
  IN  /\ batch \in Seq(ScanTypes \X Assets)
      /\ submitted + Len(batch) <= MaxJobs
      /\ submitted' = submitted + Len(batch)
      /\ status' = [j \in Jobs |-> IF j \in new THEN "queued" ELSE status[j]]
      /\ scanType' = [j \in Jobs |-> IF j \in new THEN batch[j - submitted][1]
                                                  ELSE scanType[j]]
      /\ assetOf' = [j \in Jobs |-> IF j \in new THEN batch[j - submitted][2]
                                                 ELSE assetOf[j]]
      /\ created' = [j \in Jobs |-> IF j \in new THEN date ELSE created[j]]
      /\ UNCHANGED <<attempts, resultVars, upserts, actorVars>>

(* Time is how many jobs there are to see: two transactions that begin     *)
(* between the same two commits are not told apart.                        *)
Now == submitted + 1

(* POST .../scan-jobs: a manual job always asks for the DNS baseline.  Its *)
(* transaction is one statement, which begins and commits at once.         *)
CreateScanJob(a) ==
  /\ Insert(Now, << <<"dns_baseline", a>> >>)
  /\ began' = began

(* A worker's tick begins the transaction that looks for due schedules.    *)
(* That the worker claims no job before it ends is left out.               *)
BeginEnqueue(e) ==
  /\ began[e] = NoDate
  /\ submitted < MaxJobs
  /\ began' = [began EXCEPT ![e] = Now]
  /\ UNCHANGED <<submitted, status, scanType, assetOf, created, attempts,
                 resultVars, upserts, actorVars>>

(* Nothing is due, or the transaction is rolled back.                      *)
EnqueueNothing(e) ==
  /\ began[e] # NoDate
  /\ began' = [began EXCEPT ![e] = NoDate]
  /\ UNCHANGED <<submitted, status, scanType, assetOf, created, attempts,
                 resultVars, upserts, actorVars>>

(* Mutant: a job is dated by when its schedule came due, long ago.         *)
DatedWhenDue(e) == 1

(* The date of the jobs of an enqueuer: DEFAULT now() is the start of the  *)
(* transaction.                                                            *)
CreatedAt(e) == began[e]

(* It enqueues schedules that are due, up to ten of them: the jobs of all  *)
(* of them, or none.                                                       *)
EnqueueDueScheduledScans(e, due) ==
  LET plans == SetToSeq(due)
  IN  /\ began[e] # NoDate
      /\ Cardinality(due) <= 10
      /\ Insert(CreatedAt(e), FlattenSeq([i \in DOMAIN plans |-> JobsOf(plans[i])]))
      /\ began' = [began EXCEPT ![e] = NoDate]

-----------------------------------------------------------------------------
(* Executors, workers and requests alike.                                  *)

(* Mutant: the claim also picks up jobs that look left behind.             *)
ClaimableAgain(j) == status[j] \in {"queued", "running"}

Claimable(j) == status[j] = "queued"

(* Mutant: a job waits for the older jobs of its asset to finish.          *)
IsNextInLine(j) ==
  /\ Claimable(j)
  /\ \A i \in Jobs : status[i] \in {"queued", "running"} /\ assetOf[i] = assetOf[j]
                       => created[j] <= created[i]

(* ORDER BY created_at ... SKIP LOCKED locks the job and its asset, so a   *)
(* claim passes over the assets other claims hold at that moment: it takes *)
(* the oldest queued job of some asset.                                    *)
IsNext(j) ==
  /\ Claimable(j)
  /\ \A i \in Jobs : Claimable(i) /\ assetOf[i] = assetOf[j]
                       => created[j] <= created[i]

(* Executor x takes job j to run scan type t.                              *)
Hold(x, j, t) ==
  /\ pc[x] = "idle"
  /\ pc' = [pc EXCEPT ![x] = "scanning"]
  /\ job' = [job EXCEPT ![x] = j]
  /\ source' = [source EXCEPT ![x] = t]
  /\ todo' = todo

(* Executor x forgets what it was doing.                                   *)
Release(x) ==
  /\ pc' = [pc EXCEPT ![x] = "idle"]
  /\ job' = [job EXCEPT ![x] = NoJob]
  /\ source' = [source EXCEPT ![x] = "none"]
  /\ todo' = [todo EXCEPT ![x] = 0]

(* Executor x moves from one step to the next.                             *)
Goto(x, from, to) ==
  /\ pc[x] = from
  /\ pc' = [pc EXCEPT ![x] = to]

(* The scanner returns evidence that n finding rules apply to.             *)
ScanSucceeds(x, n) ==
  /\ Goto(x, "scanning", "scanned")
  /\ todo' = [todo EXCEPT ![x] = n]
  /\ UNCHANGED <<queueVars, status, scanType, attempts, resultVars, upserts,
                 job, source>>

(* scan_results gains the row of the evidence executor x holds.            *)
StoreResult(x) ==
  LET j == job[x]
  IN  /\ results' = [results EXCEPT ![j] = @ + 1]
      /\ resultSource' = [resultSource EXCEPT ![j] = source[x]]
      /\ evidence' = [evidence EXCEPT ![j] = todo[x]]

(* The unconditional updates of the job's final status.                    *)
SetStatus(x, s) == status' = [status EXCEPT ![job[x]] = s]

-----------------------------------------------------------------------------
(* The worker's tick.                                                      *)

ClaimNextScanJob(w, j) ==
  /\ IsNext(j)
  /\ Hold(w, j, scanType[j])
  /\ status' = [status EXCEPT ![j] = "running"]
  /\ attempts' = [attempts EXCEPT ![j] = @ + 1]
  /\ UNCHANGED <<queueVars, scanType, resultVars, upserts>>

WorkerScanFails(w) ==
  /\ "scan" \in Faults
  /\ Goto(w, "scanning", "scanFailed")
  /\ UNCHANGED <<queueVars, status, scanType, attempts, resultVars, upserts,
                 job, source, todo>>

(* Mutant: the scanner's error only ends the tick.                         *)
FailSilently(w) ==
  /\ pc[w] = "scanFailed"
  /\ Release(w)
  /\ UNCHANGED <<queueVars, status, scanType, attempts, resultVars, upserts>>

(* Mutant: an error while saving also fails the job.                       *)
FailAnyError(w) ==
  /\ pc[w] \in {"scanFailed", "saving"}
  /\ SetStatus(w, "failed")
  /\ Release(w)
  /\ UNCHANGED <<queueVars, scanType, attempts, resultVars, upserts>>

(* complete_scan_job(.., Failed, ..) after the scanner's error.            *)
FailScanJob(w) ==
  /\ pc[w] = "scanFailed"
  /\ SetStatus(w, "failed")
  /\ Release(w)
  /\ UNCHANGED <<queueVars, scanType, attempts, resultVars, upserts>>

PersistScanResult(w) ==
  /\ Goto(w, "scanned", "saving")
  /\ StoreResult(w)
  /\ UNCHANGED <<queueVars, status, scanType, attempts, upserts, job, source,
                 todo>>

(* Mutant: the loop runs past the last draft.                              *)
PersistPastTheEnd(w) ==
  /\ pc[w] = "saving"
  /\ todo' = [todo EXCEPT ![w] = @ - 1]
  /\ upserts' = [upserts EXCEPT ![job[w]] = @ + 1]
  /\ UNCHANGED <<queueVars, status, scanType, attempts, resultVars, pc, job,
                 source>>

(* One turn of persist_findings' loop: its statements are not one          *)
(* transaction.                                                            *)
PersistFinding(w) ==
  /\ pc[w] = "saving"
  /\ todo[w] > 0
  /\ todo' = [todo EXCEPT ![w] = @ - 1]
  /\ upserts' = [upserts EXCEPT ![job[w]] = @ + 1]
  /\ UNCHANGED <<queueVars, status, scanType, attempts, resultVars, pc, job,
                 source>>

(* Mutant: the job is completed before its findings are saved.             *)
CompleteBeforeFindings(w) ==
  /\ pc[w] = "saving"
  /\ SetStatus(w, "completed")
  /\ Release(w)
  /\ UNCHANGED <<queueVars, scanType, attempts, resultVars, upserts>>

(* Mutant: the job is completed before its result is saved.                *)
CompleteBeforeResult(w) ==
  /\ pc[w] \in {"scanned", "saving"}
  /\ SetStatus(w, "completed")
  /\ Release(w)
  /\ UNCHANGED <<queueVars, scanType, attempts, resultVars, upserts>>

(* complete_scan_job(.., Completed, ..).                                   *)
CompleteScanJob(w) ==
  /\ pc[w] = "saving"
  /\ todo[w] = 0
  /\ SetStatus(w, "completed")
  /\ Release(w)
  /\ UNCHANGED <<queueVars, scanType, attempts, resultVars, upserts>>

(* An error of the database ends the tick early, and a crash ends the      *)
(* process: either way the claimed job is left as the last statement left  *)
(* it, and the next tick starts afresh.                                    *)
TickAborts(w) ==
  /\ Faults \cap {"store", "stop"} # {}
  /\ pc[w] # "idle"
  /\ Release(w)
  /\ UNCHANGED <<queueVars, status, scanType, attempts, resultVars, upserts>>

WorkerProceeds(w) ==
  \/ \E n \in 0 .. MaxDrafts : ScanSucceeds(w, n)
  \/ WorkerScanFails(w)
  \/ FailScanJob(w)
  \/ PersistScanResult(w)
  \/ PersistFinding(w)
  \/ CompleteScanJob(w)

-----------------------------------------------------------------------------
(* Running a queued job from an API request.                               *)

(* Mutant: the request does not look at the job's status.                  *)
ClaimAnyStatus(r, j, t) ==
  /\ status[j] # "absent"
  /\ Hold(r, j, t)
  /\ status' = [status EXCEPT ![j] = "running"]
  /\ scanType' = [scanType EXCEPT ![j] = t]
  /\ UNCHANGED <<queueVars, attempts, resultVars, upserts>>

(* The claim takes the very job the request names and overwrites its type. *)
ClaimScanJobAsset(r, j, t) ==
  /\ status[j] = "queued"
  /\ Hold(r, j, t)
  /\ status' = [status EXCEPT ![j] = "running"]
  /\ scanType' = [scanType EXCEPT ![j] = t]
  /\ UNCHANGED <<queueVars, attempts, resultVars, upserts>>

(* The scanner's error is returned to the client at once: the job is not   *)
(* touched.                                                                *)
RequestScanFails(r) ==
  /\ "scan" \in Faults
  /\ pc[r] = "scanning"
  /\ Release(r)
  /\ UNCHANGED <<queueVars, status, scanType, attempts, resultVars, upserts>>

(* The transaction of complete_scan_job_with_result, up to its commit.     *)
CommitResult(r) ==
  /\ Goto(r, "scanned", "auditing")
  /\ StoreResult(r)
  /\ SetStatus(r, "completed")
  /\ UNCHANGED <<queueVars, scanType, attempts, upserts, job, source, todo>>

CommitFails(r) ==
  /\ "store" \in Faults
  /\ Goto(r, "scanned", "failing")
  /\ UNCHANGED <<queueVars, status, scanType, attempts, resultVars, upserts,
                 job, source, todo>>

(* record_audit, after the commit.                                         *)
AuditSucceeds(r) ==
  /\ pc[r] = "auditing"
  /\ Release(r)
  /\ UNCHANGED <<queueVars, status, scanType, attempts, resultVars, upserts>>

AuditFails(r) ==
  /\ "store" \in Faults
  /\ Goto(r, "auditing", "failing")
  /\ UNCHANGED <<queueVars, status, scanType, attempts, resultVars, upserts,
                 job, source, todo>>

MarkScanJobFailed(r) ==
  /\ pc[r] = "failing"
  /\ SetStatus(r, "failed")
  /\ Release(r)
  /\ UNCHANGED <<queueVars, scanType, attempts, resultVars, upserts>>

(* The client disconnects, the API stops, or mark_scan_job_failed itself   *)
(* meets an error.                                                         *)
RequestEnds(r) ==
  /\ \/ "stop" \in Faults /\ pc[r] # "idle"
     \/ "store" \in Faults /\ pc[r] = "failing"
  /\ Release(r)
  /\ UNCHANGED <<queueVars, status, scanType, attempts, resultVars, upserts>>

RequestProceeds(r) ==
  \/ \E n \in 0 .. MaxDrafts : ScanSucceeds(r, n)
  \/ RequestScanFails(r)
  \/ CommitResult(r)
  \/ CommitFails(r)
  \/ AuditSucceeds(r)
  \/ AuditFails(r)
  \/ MarkScanJobFailed(r)

-----------------------------------------------------------------------------
Next ==
  \/ \E a \in Assets : CreateScanJob(a)
  \/ \E e \in Enqueuers :
       \/ BeginEnqueue(e)
       \/ EnqueueNothing(e)
       \/ \E due \in SUBSET (Plans \X Assets) \ {{}} :
            EnqueueDueScheduledScans(e, due)
  \/ \E w \in Workers :
       \/ \E j \in Jobs : ClaimNextScanJob(w, j)
       \/ WorkerProceeds(w)
       \/ TickAborts(w)
  \/ \E r \in Requests :
       \/ \E j \in Jobs, t \in Routes : ClaimScanJobAsset(r, j, t)
       \/ RequestProceeds(r)
       \/ RequestEnds(r)

Spec == Init /\ [][Next]_vars

(* A worker's loop never stops for good: it is restarted after a crash and *)
(* sleeps a bounded time between ticks; scanner and database calls end     *)
(* with a value or an error.  The same bounds hold for a request in        *)
(* flight.  Nothing makes clients submit jobs or faults happen.            *)
Fairness ==
  /\ \A w \in Workers : /\ WF_vars(\E j \in Jobs : ClaimNextScanJob(w, j))
                        /\ WF_vars(WorkerProceeds(w))
  /\ \A r \in Requests : WF_vars(RequestProceeds(r))

FairSpec == Spec /\ Fairness

-----------------------------------------------------------------------------
(* Properties.                                                             *)

Executors(j) == {x \in Actors : job[x] = j}

(* No two executors ever hold the same job, whichever mix of worker        *)
(* replicas and API requests race for it: FOR UPDATE SKIP LOCKED and the   *)
(* request's status = 'queued' test together make a claim exclusive.       *)
SingleExecutor ==
  \A x, y \in Actors : job[x] # NoJob /\ job[x] = job[y] => x = y

(* A job has at most one result row, and the row's source is the scan type *)
(* the job's row now shows, although a request may overwrite that type     *)
(* between the insert and the run.                                         *)
ResultFitsJob ==
  \A j \in Jobs : /\ results[j] <= 1
                  /\ results[j] = 1 => resultSource[j] = scanType[j]

(* A completed job has its evidence stored, and when a worker ran it every *)
(* finding the evidence yields has been upserted exactly once before the   *)
(* status says so: no crash, abort or race shows a completed job with      *)
(* missing findings.                                                       *)
CompletedIsWhole ==
  \A j \in Jobs : status[j] = "completed" =>
    /\ results[j] = 1
    /\ attempts[j] > 0 => upserts[j] = evidence[j]

(* A job failed by a worker has no result and no findings: partial work is *)
(* only ever left behind on a job that still says running.                 *)
WorkerFailureIsClean ==
  \A j \in Jobs : status[j] = "failed" /\ attempts[j] > 0
                    => results[j] = 0 /\ upserts[j] = 0

(* A final status stays, with one exception that needs an API request:     *)
(* when the audit insert fails after the commit, the completed job is      *)
(* turned into a failed one although its result row is there.              *)
FinalStatusStays ==
  [][\A j \in Jobs :
       /\ status[j] = "failed" => status'[j] = "failed"
       /\ status[j] = "completed" =>
            \/ status'[j] = "completed"
            \/ /\ status'[j] = "failed"
               /\ \E r \in Requests : job[r] = j]_vars

(* Nothing rescues a job that lost its executor: once it is running and    *)
(* nobody holds it, its row never changes again (attempts, max_attempts    *)
(* and locked_at are never consulted).                                     *)
AbandonedIsStuck ==
  [][\A j \in Jobs : status[j] = "running" /\ Executors(j) = {}
       => /\ status'[j] = "running"
          /\ results'[j] = results[j]
          /\ Executors(j)' = {}]_vars

(* The queued jobs dated as early as job j, which a claim prefers to it.   *)
Ahead(j) == {i \in Jobs : status[i] = "queued" /\ i # j /\ created[i] <= created[j]}

(* The open transactions that began no later than the one of job j.        *)
Overtakers(j) == {e \in Enqueuers : began[e] # NoDate /\ began[e] <= created[j]}

(* A queued job can be overtaken by jobs inserted after it, those of a     *)
(* transaction that began before and commits late.  But each one that was  *)
(* open can do so once, and no other ever: those ahead of a queued job get *)
(* more only as its overtakers get fewer (worker 129, 206, 219).           *)
OvertakersDwindle ==
  [][\A j \in Jobs : status[j] = "queued" =>
       /\ Overtakers(j)' \subseteq Overtakers(j)
       /\ \/ Ahead(j)' \subseteq Ahead(j)
          \/ Overtakers(j)' # Overtakers(j)]_vars

(* Every queued job is eventually taken by an executor: neither crashes,   *)
(* aborted ticks nor the requests' own choice of jobs starve it.           *)
QueuedIsClaimed ==
  \A j \in Jobs : status[j] = "queued" ~> status[j] # "queued"

(* Every job a claim has taken reaches a final status.                     *)
ClaimedEnds ==
  \A j \in Jobs : status[j] = "running" ~> status[j] \in Terminal

(* Every job submitted to workers whose database stays up is brought to an *)
(* end, also when its scan fails, and has failed only if the scan did.     *)
SubmittedEnds ==
  \A j \in Jobs : status[j] = "queued" ~> status[j] \in Terminal

(* How the rows and the executors that hold them agree, step by step: the  *)
(* inductive strengthening of the invariants above.                        *)
HeldJob(x) ==
  /\ status[job[x]] # "queued"
  /\ source[x] = scanType[job[x]]
  /\ x \in Workers <=> attempts[job[x]] > 0
  /\ pc[x] \in {"scanning", "scanFailed", "scanned"} =>
       /\ status[job[x]] = "running"
       /\ results[job[x]] = 0
       /\ upserts[job[x]] = 0
  /\ pc[x] = "saving" =>
       /\ status[job[x]] = "running"
       /\ results[job[x]] = 1
       /\ upserts[job[x]] + todo[x] = evidence[job[x]]
  /\ pc[x] = "auditing" => status[job[x]] = "completed" /\ results[job[x]] = 1
  /\ pc[x] = "failing" => \/ status[job[x]] = "running" /\ results[job[x]] = 0
                          \/ status[job[x]] = "completed" /\ results[job[x]] = 1

Agrees(x) ==
  /\ pc[x] = "idle" <=> job[x] = NoJob
  /\ x \in Workers => pc[x] \notin {"auditing", "failing"}
  /\ x \in Requests => pc[x] \notin {"scanFailed", "saving"}
  /\ job[x] # NoJob => HeldJob(x)

ExecutorsAgree == \A x \in Actors : Agrees(x)

RowsAgree ==
  \A j \in Jobs :
    /\ j > submitted <=> status[j] = "absent"
    /\ status[j] \in {"absent", "queued"} =>
         results[j] = 0 /\ attempts[j] = 0 /\ upserts[j] = 0

(* Nothing is dated later than now.                                        *)
DatesAgree ==
  /\ \A j \in Jobs : created[j] <= submitted
  /\ \A e \in Enqueuers : began[e] <= Now

IInv ==
  /\ TypeOK
  /\ SingleExecutor
  /\ ExecutorsAgree
  /\ RowsAgree
  /\ ResultFitsJob
  /\ CompletedIsWhole
  /\ WorkerFailureIsClean

(* What the queue promises of a job, whatever runs it.                     *)
Lifecycle == INSTANCE JobLifecycle WITH rows <- results
ImplementsLifecycle == Lifecycle!Spec
=============================================================================
