-------------------------- MODULE ScanQueueProofs --------------------------
(***************************************************************************)
(* Proofs about the scan queue, for every number of jobs, workers and      *)
(* requests and every combination of faults: type correctness, the safety  *)
(* invariants through the inductive invariant IInv, and the implementation *)
(* of JobLifecycle.                                                        *)
(***************************************************************************)
EXTENDS ScanQueue, TLAPS

(* The steps of an executor that several actions share.                    *)
LEMMA HoldTypes ==
  ASSUME ActorTypes, NEW x \in Actors, NEW j \in Jobs,
         NEW t \in ScanTypes \cup {"none"}, Hold(x, j, t)
  PROVE  ActorTypes'
<1>1. pc' \in [Actors -> Steps]
  BY DEF ActorTypes, Hold, Steps, WorkerSteps
<1>2. QED
  BY <1>1 DEF ActorTypes, Hold

LEMMA ReleaseTypes ==
  ASSUME ActorTypes, NEW x \in Actors, Release(x)
  PROVE  ActorTypes'
<1>1. pc' \in [Actors -> Steps]
  BY DEF ActorTypes, Release, Steps
<1>2. todo' \in [Actors -> 0 .. MaxDrafts]
  BY ScanQueueAssumption DEF ActorTypes, Release
<1>3. QED
  BY <1>1, <1>2 DEF ActorTypes, Release

LEMMA GotoTypes ==
  ASSUME ActorTypes, NEW x \in Actors, NEW from, NEW to \in Steps,
         Goto(x, from, to)
  PROVE  pc' \in [Actors -> Steps]
BY DEF ActorTypes, Goto

LEMMA SetStatusTypes ==
  ASSUME RowTypes, NEW x, NEW s \in Statuses, SetStatus(x, s)
  PROVE  status' \in [Jobs -> Statuses]
BY DEF RowTypes, SetStatus

LEMMA IncrementTypes ==
  ASSUME NEW f \in [Jobs -> Nat], NEW e
  PROVE  [f EXCEPT ![e] = @ + 1] \in [Jobs -> Nat]
<1> DEFINE g == [f EXCEPT ![e] = @ + 1]
<1>1. ASSUME NEW k \in Jobs PROVE g[k] \in Nat
  <2>1. f[k] \in Nat /\ f[k] + 1 \in Nat
    OBVIOUS
  <2>2. g[k] = IF k = e THEN f[k] + 1 ELSE f[k]
    OBVIOUS
  <2>3. QED
    BY <2>1, <2>2
<1>2. g = [k \in Jobs |-> g[k]]
  OBVIOUS
<1>3. QED
  BY <1>1, <1>2

LEMMA StoreResultTypes ==
  ASSUME RowTypes, ActorTypes, NEW x \in Actors, StoreResult(x)
  PROVE  /\ results' \in [Jobs -> Nat]
         /\ resultSource' \in [Jobs -> ScanTypes \cup {"none"}]
         /\ evidence' \in [Jobs -> 0 .. MaxDrafts]
<1>1. source[x] \in ScanTypes \cup {"none"} /\ todo[x] \in 0 .. MaxDrafts
  BY DEF ActorTypes
<1>2. results' \in [Jobs -> Nat]
  BY IncrementTypes DEF RowTypes, StoreResult
<1>3. resultSource' \in [Jobs -> ScanTypes \cup {"none"}]
  BY <1>1 DEF RowTypes, StoreResult
<1>4. evidence' \in [Jobs -> 0 .. MaxDrafts]
  BY <1>1 DEF RowTypes, StoreResult
<1>5. QED
  BY <1>2, <1>3, <1>4

LEMMA InsertTypes ==
  ASSUME RowTypes, NEW date \in 0 .. MaxJobs, NEW batch, Insert(date, batch),
         began' \in [Enqueuers -> 0 .. MaxJobs]
  PROVE  RowTypes'
<1> DEFINE new == submitted + 1 .. submitted + Len(batch)
<1>1. /\ Len(batch) \in Nat /\ submitted \in Nat /\ MaxJobs \in Nat
      /\ batch \in Seq(ScanTypes \X Assets)
  BY ScanQueueAssumption DEF RowTypes, Insert
<1>2. submitted' \in 0 .. MaxJobs
  BY <1>1 DEF Insert
<1>3. \A j \in new : batch[j - submitted] \in ScanTypes \X Assets
  BY <1>1
<1>4. \A j \in new : /\ batch[j - submitted][1] \in ScanTypes
                     /\ batch[j - submitted][2] \in Assets
  BY <1>3
<1>5. scanType' \in [Jobs -> ScanTypes \cup {"none"}]
  BY <1>4 DEF RowTypes, Insert
<1>6. assetOf' \in [Jobs -> Assets \cup {"none"}]
  BY <1>4 DEF RowTypes, Insert
<1>7. created' \in [Jobs -> 0 .. MaxJobs]
  BY DEF RowTypes, Insert
<1>8. status' \in [Jobs -> Statuses]
  BY DEF RowTypes, Insert, Statuses
<1>9. QED
  BY <1>2, <1>5, <1>6, <1>7, <1>8 DEF RowTypes, Insert, resultVars

(* What an enqueuer changes when it opens its transaction, or ends it with *)
(* nothing inserted: began, which nothing below is about.                  *)
RestVars == <<submitted, assetOf, created, status, scanType, attempts, resultVars,
              upserts, actorVars>>

LEMMA NothingEnqueued ==
  ASSUME NEW e \in Enqueuers, BeginEnqueue(e) \/ EnqueueNothing(e)
  PROVE  UNCHANGED RestVars
BY DEF BeginEnqueue, EnqueueNothing, RestVars

(* The dates a transaction can begin at are dates of jobs.                 *)
LEMMA BeganTypes ==
  ASSUME RowTypes, NEW e \in Enqueuers,
         \/ BeginEnqueue(e) \/ EnqueueNothing(e)
         \/ \E due : EnqueueDueScheduledScans(e, due)
  PROVE  began' \in [Enqueuers -> 0 .. MaxJobs] /\ CreatedAt(e) \in 0 .. MaxJobs
<1>1. /\ NoDate \in 0 .. MaxJobs
      /\ submitted < MaxJobs => Now \in 0 .. MaxJobs
      /\ CreatedAt(e) \in 0 .. MaxJobs
  BY ScanQueueAssumption DEF RowTypes, NoDate, Now, CreatedAt
<1>2. QED
  BY <1>1 DEF RowTypes, BeginEnqueue, EnqueueNothing, EnqueueDueScheduledScans

LEMMA TypeInit == Init => TypeOK
<1> SUFFICES ASSUME Init PROVE TypeOK
  OBVIOUS
<1>1. RowTypes
  BY ScanQueueAssumption DEF Init, RowTypes, Statuses, NoDate
<1>2. ActorTypes
  BY ScanQueueAssumption DEF Init, ActorTypes, Steps
<1>3. QED
  BY <1>1, <1>2 DEF TypeOK

(* Every step keeps the rows and the executors' state of their types.      *)
LEMMA TypeStep == TypeOK /\ [Next]_vars => TypeOK'
<1> SUFFICES ASSUME RowTypes, ActorTypes, [Next]_vars
             PROVE  RowTypes' /\ ActorTypes'
  BY DEF TypeOK
<1> USE DEF queueVars, resultVars, actorVars
<1>a. Workers \subseteq Actors /\ Requests \subseteq Actors
  BY DEF Actors
<1>b. {"scanFailed", "scanned", "saving", "auditing", "failing"} \subseteq Steps
  BY DEF Steps, WorkerSteps, RequestSteps
<1>c. {"running", "completed", "failed"} \subseteq Statuses
  BY DEF Statuses
<1>1. ASSUME NEW a \in Assets, CreateScanJob(a) PROVE RowTypes' /\ ActorTypes'
  <2> DEFINE batch == << <<"dns_baseline", a>> >>
  <2>0. Now \in 0 .. MaxJobs /\ began' \in [Enqueuers -> 0 .. MaxJobs]
    <3>1. Len(batch) = 1 /\ Insert(Now, batch) /\ began' = began
      BY <1>1 DEF CreateScanJob
    <3>2. QED
      BY <3>1, ScanQueueAssumption DEF Insert, RowTypes, Now
  <2>1. RowTypes'
    BY <1>1, <2>0, InsertTypes DEF CreateScanJob
  <2>2. QED
    BY <1>1, <2>1 DEF CreateScanJob, Insert, ActorTypes
<1>2. ASSUME NEW e \in Enqueuers, NEW due, EnqueueDueScheduledScans(e, due)
      PROVE RowTypes' /\ ActorTypes'
  <2>1. RowTypes'
    BY <1>2, BeganTypes, InsertTypes DEF EnqueueDueScheduledScans
  <2>2. QED
    BY <1>2, <2>1 DEF EnqueueDueScheduledScans, Insert, ActorTypes
<1>3. ASSUME NEW w \in Workers, NEW j \in Jobs, ClaimNextScanJob(w, j)
      PROVE RowTypes' /\ ActorTypes'
  <2>1. scanType[j] \in ScanTypes \cup {"none"}
    BY DEF RowTypes
  <2>2. ActorTypes'
    BY <1>3, <2>1, <1>a, HoldTypes DEF ClaimNextScanJob
  <2>3. status' \in [Jobs -> Statuses] /\ attempts' \in [Jobs -> Nat]
    BY <1>3, <1>c DEF ClaimNextScanJob, RowTypes
  <2>4. QED
    BY <1>3, <2>2, <2>3 DEF ClaimNextScanJob, RowTypes
<1>4. ASSUME NEW r \in Requests, NEW j \in Jobs, NEW t \in Routes,
             ClaimScanJobAsset(r, j, t)
      PROVE RowTypes' /\ ActorTypes'
  <2>1. t \in ScanTypes \cup {"none"}
    BY ScanQueueAssumption
  <2>2. ActorTypes'
    BY <1>4, <2>1, <1>a, HoldTypes DEF ClaimScanJobAsset
  <2>3. /\ status' \in [Jobs -> Statuses]
        /\ scanType' \in [Jobs -> ScanTypes \cup {"none"}]
    BY <1>4, <1>c, <2>1 DEF ClaimScanJobAsset, RowTypes
  <2>4. QED
    BY <1>4, <2>2, <2>3 DEF ClaimScanJobAsset, RowTypes
<1>5. ASSUME NEW x \in Actors, NEW n \in 0 .. MaxDrafts, ScanSucceeds(x, n)
      PROVE RowTypes' /\ ActorTypes'
  <2>1. pc' \in [Actors -> Steps]
    BY <1>5, <1>b, GotoTypes DEF ScanSucceeds
  <2>2. QED
    BY <1>5, <2>1 DEF ScanSucceeds, RowTypes, ActorTypes
<1>6. ASSUME NEW w \in Workers, WorkerScanFails(w) PROVE RowTypes' /\ ActorTypes'
  <2>1. pc' \in [Actors -> Steps]
    BY <1>6, <1>a, <1>b, GotoTypes DEF WorkerScanFails
  <2>2. QED
    BY <1>6, <2>1 DEF WorkerScanFails, RowTypes, ActorTypes
<1>7. ASSUME NEW x \in Actors, NEW s \in {"completed", "failed"},
             SetStatus(x, s), Release(x),
             UNCHANGED <<queueVars, scanType, attempts, resultVars, upserts>>
      PROVE RowTypes' /\ ActorTypes'
  <2>1. status' \in [Jobs -> Statuses]
    BY <1>7, <1>c, SetStatusTypes
  <2>2. QED
    BY <1>7, <2>1, ReleaseTypes DEF RowTypes
<1>8. ASSUME NEW w \in Workers, PersistScanResult(w)
      PROVE RowTypes' /\ ActorTypes'
  <2>1. pc' \in [Actors -> Steps]
    BY <1>8, <1>a, <1>b, GotoTypes DEF PersistScanResult
  <2>2. QED
    BY <1>8, <1>a, <2>1, StoreResultTypes DEF PersistScanResult, RowTypes, ActorTypes
<1>9. ASSUME NEW w \in Workers, PersistFinding(w) PROVE RowTypes' /\ ActorTypes'
  <2>1. todo' \in [Actors -> 0 .. MaxDrafts]
    BY <1>9, <1>a, ScanQueueAssumption DEF PersistFinding, ActorTypes
  <2>2. upserts' \in [Jobs -> Nat]
    BY <1>9, IncrementTypes DEF PersistFinding, RowTypes
  <2>3. QED
    BY <1>9, <2>1, <2>2 DEF PersistFinding, RowTypes, ActorTypes
<1>10. ASSUME NEW x \in Actors, Release(x),
              UNCHANGED <<queueVars, status, scanType, attempts, resultVars, upserts>>
       PROVE RowTypes' /\ ActorTypes'
  BY <1>10, ReleaseTypes DEF RowTypes
<1>11. ASSUME NEW r \in Requests, CommitResult(r) PROVE RowTypes' /\ ActorTypes'
  <2>1. pc' \in [Actors -> Steps]
    BY <1>11, <1>a, <1>b, GotoTypes DEF CommitResult
  <2>2. status' \in [Jobs -> Statuses]
    BY <1>11, <1>c, SetStatusTypes DEF CommitResult
  <2>3. QED
    BY <1>11, <1>a, <2>1, <2>2, StoreResultTypes
    DEF CommitResult, RowTypes, ActorTypes
<1>12. ASSUME NEW r \in Requests, CommitFails(r) \/ AuditFails(r)
       PROVE RowTypes' /\ ActorTypes'
  <2>1. pc' \in [Actors -> Steps]
    <3>1. CASE CommitFails(r)
      BY <3>1, <1>a, <1>b, GotoTypes DEF CommitFails
    <3>2. CASE AuditFails(r)
      BY <3>2, <1>a, <1>b, GotoTypes DEF AuditFails
    <3>3. QED
      BY <1>12, <3>1, <3>2
  <2>2. QED
    BY <1>12, <2>1 DEF CommitFails, AuditFails, RowTypes, ActorTypes
<1>13. CASE UNCHANGED vars
  BY <1>13 DEF vars, RowTypes, ActorTypes
<1>14. ASSUME NEW w \in Workers,
              WorkerProceeds(w) \/ TickAborts(w)
       PROVE RowTypes' /\ ActorTypes'
  BY <1>14, <1>a, <1>5, <1>6, <1>7, <1>8, <1>9, <1>10
  DEF WorkerProceeds, TickAborts, FailScanJob, CompleteScanJob
<1>15. ASSUME NEW r \in Requests,
              RequestProceeds(r) \/ RequestEnds(r)
       PROVE RowTypes' /\ ActorTypes'
  BY <1>15, <1>a, <1>5, <1>7, <1>10, <1>11, <1>12
  DEF RequestProceeds, RequestEnds, RequestScanFails, AuditSucceeds,
      MarkScanJobFailed
<1>16. ASSUME NEW e \in Enqueuers, BeginEnqueue(e) \/ EnqueueNothing(e)
       PROVE RowTypes' /\ ActorTypes'
  BY <1>16, BeganTypes, NothingEnqueued DEF RestVars, RowTypes, ActorTypes
<1>17. QED
  BY <1>1, <1>2, <1>3, <1>4, <1>13, <1>14, <1>15, <1>16 DEF Next

(* The rows of the queue and the state of its executors keep their types   *)
(* for any number of jobs and executors.                                   *)
THEOREM TypeCorrect == Spec => []TypeOK
BY TypeInit, TypeStep, PTL DEF Spec

-----------------------------------------------------------------------------
(* The inductive invariant.  A step of executor x touches its own state    *)
(* and the row of one job j, which no other executor holds.                *)

RowInv(j) ==
  /\ j > submitted <=> status[j] = "absent"
  /\ status[j] \in {"absent", "queued"} =>
       results[j] = 0 /\ attempts[j] = 0 /\ upserts[j] = 0
  /\ results[j] <= 1
  /\ results[j] = 1 => resultSource[j] = scanType[j]
  /\ status[j] = "completed" =>
       /\ results[j] = 1
       /\ attempts[j] > 0 => upserts[j] = evidence[j]
  /\ status[j] = "failed" /\ attempts[j] > 0 => results[j] = 0 /\ upserts[j] = 0

SameActor(y) ==
  /\ pc'[y] = pc[y]
  /\ job'[y] = job[y]
  /\ source'[y] = source[y]
  /\ todo'[y] = todo[y]

SameRow(k) ==
  /\ status'[k] = status[k]
  /\ scanType'[k] = scanType[k]
  /\ attempts'[k] = attempts[k]
  /\ results'[k] = results[k]
  /\ resultSource'[k] = resultSource[k]
  /\ evidence'[k] = evidence[k]
  /\ upserts'[k] = upserts[k]

LEMMA IInvParts ==
  IInv <=> TypeOK /\ SingleExecutor /\ ExecutorsAgree /\ \A j \in Jobs : RowInv(j)
BY DEF IInv, RowInv, RowsAgree, ResultFitsJob, CompletedIsWhole, WorkerFailureIsClean

LEMMA IInvPartsNext ==
  IInv' <=> /\ TypeOK' /\ SingleExecutor' /\ ExecutorsAgree'
            /\ \A j \in Jobs : RowInv(j)'
BY DEF IInv, RowInv, RowsAgree, ResultFitsJob, CompletedIsWhole, WorkerFailureIsClean

(* What has to be shown of a step of executor x on job j.                  *)
LEMMA OneStep ==
  ASSUME IInv, TypeOK', NEW x \in Actors, NEW j \in Jobs,
         submitted' = submitted,
         \A y \in Actors \ {x} : SameActor(y) /\ job[y] # j,
         \A k \in Jobs \ {j} : SameRow(k),
         job'[x] \in {j, NoJob},
         Agrees(x)',
         RowInv(j)'
  PROVE  IInv'
<1> USE IInvParts
<1>1. SingleExecutor'
  BY DEF SingleExecutor, SameActor
<1>2. ASSUME NEW y \in Actors PROVE Agrees(y)'
  <2>1. CASE y = x
    BY <2>1
  <2>2. CASE y # x
    <3>1. Agrees(y) /\ SameActor(y) /\ job[y] # j
      BY <2>2 DEF ExecutorsAgree
    <3>2. CASE job[y] = NoJob
      BY <3>1, <3>2 DEF Agrees, SameActor
    <3>3. CASE job[y] # NoJob
      <4>1. job[y] \in Jobs \ {j}
        BY <3>1, <3>3 DEF TypeOK, ActorTypes
      <4>2. SameRow(job[y])
        BY <4>1
      <4>3. HeldJob(y)
        BY <3>1, <3>3 DEF Agrees
      <4>4. HeldJob(y)'
        BY <3>1, <4>2, <4>3 DEF HeldJob, SameActor, SameRow
      <4>5. QED
        BY <3>1, <3>3, <4>4 DEF Agrees, SameActor
    <3>4. QED
      BY <3>2, <3>3
  <2>3. QED
    BY <2>1, <2>2
<1>3. ASSUME NEW k \in Jobs PROVE RowInv(k)'
  <2>1. CASE k = j
    BY <2>1
  <2>2. CASE k # j
    <3>1. RowInv(k) /\ SameRow(k)
      BY <2>2
    <3>2. QED
      BY <3>1 DEF RowInv, SameRow
  <2>3. QED
    BY <2>1, <2>2
<1>4. QED
  BY <1>1, <1>2, <1>3, IInvPartsNext DEF ExecutorsAgree

(* An executor that is not idle holds a job, and holds it alone.           *)
LEMMA HoldsAlone ==
  ASSUME IInv, NEW x \in Actors, pc[x] # "idle"
  PROVE  /\ job[x] \in Jobs
         /\ HeldJob(x)
         /\ Agrees(x)
         /\ RowInv(job[x])
         /\ \A y \in Actors \ {x} : job[y] # job[x]
<1>1. TypeOK /\ SingleExecutor /\ ExecutorsAgree /\ \A j \in Jobs : RowInv(j)
  BY IInvParts
<1>2. Agrees(x) /\ job[x] # NoJob
  BY <1>1 DEF ExecutorsAgree, Agrees
<1>3. job[x] \in Jobs
  BY <1>1, <1>2 DEF TypeOK, ActorTypes
<1>4. QED
  BY <1>1, <1>2, <1>3 DEF SingleExecutor, Agrees

LEMMA ReleaseFrame ==
  ASSUME TypeOK, NEW x \in Actors, Release(x)
  PROVE  /\ pc'[x] = "idle" /\ job'[x] = NoJob
         /\ \A y \in Actors \ {x} : SameActor(y)
BY DEF TypeOK, ActorTypes, Release, SameActor

LEMMA HoldFrame ==
  ASSUME TypeOK, NEW x \in Actors, NEW j, NEW t, Hold(x, j, t)
  PROVE  /\ pc'[x] = "scanning" /\ job'[x] = j /\ source'[x] = t
         /\ \A y \in Actors \ {x} : SameActor(y)
BY DEF TypeOK, ActorTypes, Hold, SameActor

LEMMA IdleAgrees ==
  ASSUME NEW x, pc'[x] = "idle", job'[x] = NoJob
  PROVE  Agrees(x)'
BY DEF Agrees

(* A step that only moves executor x to an agreeing state keeps IInv.      *)
LEMMA RowsUntouched ==
  ASSUME IInv, TypeOK', NEW x \in Actors, pc[x] # "idle",
         UNCHANGED <<queueVars, status, scanType, attempts, resultVars, upserts>>,
         \A y \in Actors \ {x} : SameActor(y),
         job'[x] \in {job[x], NoJob},
         Agrees(x)'
  PROVE  IInv'
<1> PICK j \in Jobs : j = job[x]
  BY HoldsAlone
<1>1. \A k \in Jobs : SameRow(k)
  BY DEF SameRow, resultVars
<1>2. RowInv(j)'
  BY HoldsAlone DEF RowInv, resultVars, queueVars
<1>3. \A y \in Actors \ {x} : job[y] # j
  BY HoldsAlone
<1>4. QED
  BY <1>1, <1>2, <1>3, OneStep DEF queueVars

LEMMA ReleaseStep ==
  ASSUME IInv, TypeOK', NEW x \in Actors, pc[x] # "idle", Release(x),
         UNCHANGED <<queueVars, status, scanType, attempts, resultVars, upserts>>
  PROVE  IInv'
<1>1. TypeOK
  BY DEF IInv
<1>2. QED
  BY <1>1, ReleaseFrame, IdleAgrees, RowsUntouched

(* The final statuses a worker or a request writes over its job.           *)
LEMMA FinishStep ==
  ASSUME IInv, TypeOK', NEW x \in Actors, pc[x] # "idle",
         NEW s \in {"completed", "failed"},
         s = "completed" => pc[x] = "saving" /\ todo[x] = 0,
         s = "failed" => pc[x] \in {"scanFailed", "failing"},
         SetStatus(x, s), Release(x),
         UNCHANGED <<queueVars, scanType, attempts, resultVars, upserts>>
  PROVE  IInv'
<1> PICK j \in Jobs : j = job[x]
  BY HoldsAlone
<1>1. /\ TypeOK /\ job[x] = j /\ HeldJob(x) /\ Agrees(x) /\ RowInv(j)
      /\ \A y \in Actors \ {x} : job[y] # j
  BY HoldsAlone DEF IInv
<1>2. status'[j] = s /\ \A k \in Jobs \ {j} : status'[k] = status[k]
  BY <1>1 DEF SetStatus, TypeOK, RowTypes
<1>3. \A k \in Jobs \ {j} : SameRow(k)
  BY <1>2 DEF SameRow, resultVars
<1>4. /\ scanType'[j] = scanType[j] /\ attempts'[j] = attempts[j]
      /\ results'[j] = results[j] /\ resultSource'[j] = resultSource[j]
      /\ evidence'[j] = evidence[j] /\ upserts'[j] = upserts[j]
      /\ submitted' = submitted
  BY DEF resultVars, queueVars
<1>5. /\ attempts[j] \in Nat /\ upserts[j] \in Nat /\ results[j] \in Nat
      /\ evidence[j] \in Nat /\ submitted \in Nat /\ j \in Nat
  BY <1>1, ScanQueueAssumption DEF TypeOK, RowTypes, Jobs
<1>6. status[j] # "absent"
  BY <1>1 DEF HeldJob, Agrees, TypeOK, ActorTypes, Steps, WorkerSteps, RequestSteps
<1>7. x \in Requests => ~ (attempts[j] > 0)
  BY <1>1, ScanQueueAssumption DEF HeldJob
<1>8. RowInv(j)'
  <2>1. CASE s = "completed"
    BY <2>1, <1>1, <1>2, <1>4, <1>5, <1>6 DEF RowInv, HeldJob
  <2>2. CASE s = "failed" /\ pc[x] = "scanFailed"
    BY <2>2, <1>1, <1>2, <1>4, <1>5, <1>6 DEF RowInv, HeldJob
  <2>3. CASE s = "failed" /\ pc[x] = "failing"
    <3>1. x \notin Workers
      BY <2>3, <1>1 DEF Agrees
    <3>2. ~ (attempts[j] > 0)
      BY <3>1, <1>7 DEF Actors
    <3>3. QED
      BY <2>3, <3>2, <1>1, <1>2, <1>4, <1>5, <1>6 DEF RowInv
  <2>4. QED
    BY <2>1, <2>2, <2>3
<1>9. QED
  <2>1. /\ job'[x] = NoJob /\ Agrees(x)'
        /\ \A y \in Actors \ {x} : SameActor(y)
    BY <1>1, ReleaseFrame, IdleAgrees
  <2>2. QED
    BY <1>1, <1>3, <1>4, <1>8, <2>1, OneStep

(* A claim of the queued job j.                                            *)
LEMMA ClaimStep ==
  ASSUME IInv, TypeOK', NEW x \in Actors, NEW j \in Jobs, NEW t \in ScanTypes \cup {"none"},
         status[j] = "queued", Hold(x, j, t),
         status' = [status EXCEPT ![j] = "running"],
         \A k \in Jobs \ {j} : scanType'[k] = scanType[k] /\ attempts'[k] = attempts[k],
         scanType'[j] = t,
         IF x \in Workers THEN attempts'[j] = attempts[j] + 1
                          ELSE attempts'[j] = attempts[j],
         UNCHANGED <<queueVars, resultVars, upserts>>
  PROVE  IInv'
<1>1. TypeOK /\ ExecutorsAgree /\ RowInv(j)
  BY IInvParts
<1>2. \A y \in Actors : job[y] # j
  <2>1. ASSUME NEW y \in Actors, job[y] = j PROVE FALSE
    <3>1. job[y] # NoJob
      BY <2>1 DEF Jobs, NoJob
    <3>2. QED
      BY <1>1, <2>1, <3>1 DEF ExecutorsAgree, Agrees, HeldJob
  <2>2. QED
    BY <2>1
<1>3. /\ pc'[x] = "scanning" /\ job'[x] = j /\ source'[x] = t
      /\ \A y \in Actors \ {x} : SameActor(y)
  BY <1>1, HoldFrame
<1>4. status'[j] = "running" /\ \A k \in Jobs \ {j} : status'[k] = status[k]
  BY <1>1 DEF TypeOK, RowTypes
<1>5. \A k \in Jobs \ {j} : SameRow(k)
  BY <1>4 DEF SameRow, resultVars
<1>6. /\ results[j] = 0 /\ attempts[j] = 0 /\ upserts[j] = 0
      /\ results'[j] = 0 /\ upserts'[j] = 0 /\ submitted' = submitted
      /\ resultSource'[j] = resultSource[j] /\ evidence'[j] = evidence[j]
      /\ j <= submitted /\ ~ (j > submitted)
  BY <1>1, ScanQueueAssumption
     DEF RowInv, resultVars, queueVars, TypeOK, RowTypes, Jobs
<1>7. RowInv(j)'
  BY <1>4, <1>6 DEF RowInv
<1>8. HeldJob(x)'
  BY <1>3, <1>4, <1>6 DEF HeldJob
<1>9. Agrees(x)'
  BY <1>3, <1>8 DEF Agrees, NoJob, Jobs
<1>10. QED
  BY <1>2, <1>3, <1>5, <1>6, <1>7, <1>9, OneStep

(* A move of executor x from one step to another that leaves all rows and  *)
(* what it holds alone.                                                    *)
LEMMA GotoStep ==
  ASSUME IInv, TypeOK', NEW x \in Actors, NEW from, NEW to, Goto(x, from, to),
         \/ from = "scanning" /\ to = "scanned"
         \/ from = "scanning" /\ to = "scanFailed" /\ x \in Workers
         \/ from \in {"scanned", "auditing"} /\ to = "failing" /\ x \in Requests,
         UNCHANGED <<job, source>>,
         \A y \in Actors \ {x} : todo'[y] = todo[y],
         UNCHANGED <<queueVars, status, scanType, attempts, resultVars, upserts>>
  PROVE  IInv'
<1>1. TypeOK /\ pc[x] = from /\ pc[x] # "idle"
  BY DEF IInv, Goto
<1>2. pc'[x] = to /\ \A y \in Actors \ {x} : SameActor(y)
  BY <1>1 DEF TypeOK, ActorTypes, Goto, SameActor
<1>3. Agrees(x) /\ HeldJob(x) /\ job[x] # NoJob
  BY <1>1, HoldsAlone DEF Jobs, NoJob
<1>4. HeldJob(x)'
  BY <1>1, <1>2, <1>3 DEF HeldJob, resultVars
<1>5. x \in Workers => x \notin Requests
  BY ScanQueueAssumption
<1>6. Agrees(x)'
  BY <1>1, <1>2, <1>3, <1>4, <1>5 DEF Agrees
<1>7. QED
  BY <1>1, <1>2, <1>6, RowsUntouched

(* Executor x stores its evidence: the worker goes on to the findings, the *)
(* request has completed the job in the same transaction.                  *)
LEMMA StoreStep ==
  ASSUME IInv, TypeOK', NEW x \in Actors, NEW to, Goto(x, "scanned", to),
         StoreResult(x), UNCHANGED <<job, source, todo>>,
         UNCHANGED <<queueVars, scanType, attempts, upserts>>,
         \/ x \in Workers /\ to = "saving" /\ status' = status
         \/ x \in Requests /\ to = "auditing" /\ SetStatus(x, "completed")
  PROVE  IInv'
<1> PICK j \in Jobs : j = job[x]
  BY HoldsAlone DEF Goto
<1>1. /\ TypeOK /\ job[x] = j /\ HeldJob(x) /\ Agrees(x) /\ RowInv(j)
      /\ pc[x] = "scanned"
      /\ x \in Workers => x \notin Requests
      /\ \A y \in Actors \ {x} : job[y] # j
  BY HoldsAlone, ScanQueueAssumption DEF IInv, Goto
<1>2. pc'[x] = to /\ \A y \in Actors \ {x} : SameActor(y)
  BY <1>1 DEF TypeOK, ActorTypes, Goto, SameActor
<1>3. /\ results[j] = 0 /\ upserts[j] = 0 /\ status[j] = "running"
      /\ source[x] = scanType[j]
      /\ x \in Workers => attempts[j] > 0
      /\ x \in Requests => ~ (attempts[j] > 0)
  BY <1>1 DEF HeldJob
<1>4. /\ results'[j] = 1 /\ resultSource'[j] = scanType[j]
      /\ evidence'[j] = todo[x]
      /\ \A k \in Jobs \ {j} : /\ results'[k] = results[k]
                              /\ resultSource'[k] = resultSource[k]
                              /\ evidence'[k] = evidence[k]
  BY <1>1, <1>3 DEF StoreResult, TypeOK, RowTypes
<1>5. /\ x \in Workers => status'[j] = "running"
      /\ x \in Requests => status'[j] = "completed"
      /\ \A k \in Jobs \ {j} : status'[k] = status[k]
  BY <1>1, <1>3 DEF SetStatus, TypeOK, RowTypes
<1>6. \A k \in Jobs \ {j} : SameRow(k)
  BY <1>4, <1>5 DEF SameRow
<1>7. todo[x] \in Nat /\ ~ (j > submitted) /\ submitted' = submitted
  BY <1>1, <1>3, ScanQueueAssumption DEF TypeOK, ActorTypes, RowInv, queueVars
<1>8. RowInv(j)'
  BY <1>1, <1>3, <1>4, <1>5, <1>7 DEF RowInv
<1>9. /\ job'[x] = j /\ source'[x] = source[x] /\ todo'[x] = todo[x]
      /\ upserts'[j] = 0 /\ attempts'[j] = attempts[j]
      /\ scanType'[j] = scanType[j]
  BY <1>1, <1>3
<1>10. Agrees(x)'
  <2>1. CASE x \in Workers /\ to = "saving"
    <3>1. HeldJob(x)'
      BY <2>1, <1>1, <1>2, <1>3, <1>4, <1>5, <1>7, <1>9 DEF HeldJob
    <3>2. QED
      BY <2>1, <3>1, <1>1, <1>2, <1>9 DEF Agrees, NoJob, Jobs
  <2>2. CASE x \in Requests /\ to = "auditing"
    <3>1. HeldJob(x)'
      BY <2>2, <1>1, <1>2, <1>3, <1>4, <1>5, <1>7, <1>9 DEF HeldJob
    <3>2. QED
      BY <2>2, <3>1, <1>1, <1>2, <1>9 DEF Agrees, NoJob, Jobs
  <2>3. QED
    BY <2>1, <2>2
<1>11. QED
  BY <1>1, <1>2, <1>6, <1>7, <1>8, <1>10, OneStep

LEMMA PersistFindingStep ==
  ASSUME IInv, TypeOK', NEW w \in Workers, PersistFinding(w)
  PROVE  IInv'
<1>0. w \in Actors
  BY DEF Actors
<1> PICK j \in Jobs : j = job[w]
  BY <1>0, HoldsAlone DEF PersistFinding
<1>1. /\ TypeOK /\ job[w] = j /\ HeldJob(w) /\ Agrees(w) /\ RowInv(j)
      /\ \A y \in Actors \ {w} : job[y] # j
  BY <1>0, HoldsAlone DEF IInv, PersistFinding
<1>2. todo[w] \in Nat /\ upserts[j] \in Nat /\ evidence[j] \in Nat
  BY <1>0, <1>1, ScanQueueAssumption DEF TypeOK, ActorTypes, RowTypes
<1>3. /\ todo'[w] = todo[w] - 1 /\ pc'[w] = "saving" /\ pc[w] = "saving"
      /\ job'[w] = j /\ source'[w] = source[w]
      /\ \A y \in Actors \ {w} : SameActor(y)
  BY <1>0, <1>1 DEF PersistFinding, SameActor, TypeOK, ActorTypes
<1>4. upserts'[j] = upserts[j] + 1 /\ \A k \in Jobs \ {j} : upserts'[k] = upserts[k]
  BY <1>1 DEF PersistFinding, TypeOK, RowTypes
<1>5. \A k \in Jobs \ {j} : SameRow(k)
  BY <1>4 DEF PersistFinding, SameRow, resultVars
<1>6. /\ status'[j] = status[j] /\ scanType'[j] = scanType[j]
      /\ attempts'[j] = attempts[j] /\ results'[j] = results[j]
      /\ resultSource'[j] = resultSource[j] /\ evidence'[j] = evidence[j]
      /\ submitted' = submitted
  BY DEF PersistFinding, resultVars, queueVars
<1>7. /\ status[j] = "running" /\ upserts[j] + todo[w] = evidence[j]
      /\ results[j] = 1 /\ source[w] = scanType[j] /\ attempts[j] > 0
  BY <1>1, <1>3 DEF HeldJob
<1>8. RowInv(j)'
  BY <1>1, <1>6, <1>7 DEF RowInv
<1>9. HeldJob(w)'
  BY <1>2, <1>3, <1>4, <1>6, <1>7 DEF HeldJob
<1>10. Agrees(w)'
  BY <1>1, <1>3, <1>9 DEF Agrees, NoJob, Jobs
<1>11. QED
  BY <1>0, <1>1, <1>3, <1>5, <1>6, <1>8, <1>10, OneStep

(* New rows are queued and nobody holds them.                              *)
LEMMA InsertStep ==
  ASSUME IInv, TypeOK', NEW date, NEW batch, Insert(date, batch)
  PROVE  IInv'
<1>1. /\ TypeOK /\ SingleExecutor /\ ExecutorsAgree
      /\ \A j \in Jobs : RowInv(j)
  BY IInvParts
<1>2. /\ submitted \in Nat /\ Len(batch) \in Nat
      /\ submitted' = submitted + Len(batch)
  BY <1>1, ScanQueueAssumption DEF TypeOK, RowTypes, Insert
<1>3. ASSUME NEW j \in Jobs, status[j] # "absent"
      PROVE SameRow(j) /\ ~ (j > submitted)
  <2>1. ~ (j > submitted)
    BY <1>1, <1>3 DEF RowInv
  <2>2. j \notin submitted + 1 .. submitted + Len(batch)
    BY <1>2, <2>1 DEF Jobs
  <2>3. QED
    BY <2>1, <2>2 DEF SameRow, Insert, resultVars
<1>4. \A y \in Actors : SameActor(y)
  BY DEF Insert, actorVars, SameActor
<1>5. SingleExecutor'
  BY <1>1 DEF SingleExecutor, Insert, actorVars
<1>6. ASSUME NEW y \in Actors PROVE Agrees(y)'
  <2>1. Agrees(y) /\ SameActor(y)
    BY <1>1, <1>4 DEF ExecutorsAgree
  <2>2. CASE job[y] = NoJob
    BY <2>1, <2>2 DEF Agrees, SameActor
  <2>3. CASE job[y] # NoJob
    <3>1. job[y] \in Jobs /\ HeldJob(y)
      BY <1>1, <2>1, <2>3 DEF TypeOK, ActorTypes, Agrees
    <3>2. status[job[y]] # "absent"
      BY <1>1, <2>1, <2>3, <3>1
      DEF HeldJob, Agrees, TypeOK, ActorTypes, Steps, WorkerSteps, RequestSteps
    <3>3. SameRow(job[y])
      BY <1>3, <3>1, <3>2
    <3>4. HeldJob(y)'
      BY <2>1, <3>1, <3>3 DEF HeldJob, SameActor, SameRow
    <3>5. QED
      BY <2>1, <2>3, <3>4 DEF Agrees, SameActor
  <2>4. QED
    BY <2>2, <2>3
<1>7. ASSUME NEW j \in Jobs PROVE RowInv(j)'
  <2>1. RowInv(j) /\ j \in Nat
    BY <1>1 DEF Jobs
  <2>2. CASE status[j] # "absent"
    <3>1. SameRow(j) /\ ~ (j > submitted)
      BY <1>3, <2>2
    <3>2. ~ (j > submitted')
      BY <1>2, <2>1, <3>1
    <3>3. QED
      BY <2>1, <2>2, <3>1, <3>2 DEF RowInv, SameRow
  <2>3. CASE status[j] = "absent"
    <3>1. j > submitted /\ results[j] = 0 /\ attempts[j] = 0 /\ upserts[j] = 0
      BY <2>1, <2>3 DEF RowInv
    <3>2. results'[j] = 0 /\ attempts'[j] = 0 /\ upserts'[j] = 0
      BY <3>1 DEF Insert, resultVars
    <3>3. status'[j] = IF j \in submitted + 1 .. submitted + Len(batch)
                       THEN "queued" ELSE "absent"
      BY <2>3 DEF Insert
    <3>4. j > submitted' <=> j \notin submitted + 1 .. submitted + Len(batch)
      BY <1>2, <2>1, <3>1
    <3>5. QED
      BY <3>2, <3>3, <3>4 DEF RowInv
  <2>4. QED
    BY <2>2, <2>3
<1>8. QED
  BY <1>5, <1>6, <1>7, IInvPartsNext DEF ExecutorsAgree

LEMMA IInvInit == Init => IInv
<1> SUFFICES ASSUME Init PROVE IInv
  OBVIOUS
<1>1. TypeOK
  BY TypeInit
<1>2. SingleExecutor /\ ExecutorsAgree
  BY DEF Init, SingleExecutor, ExecutorsAgree, Agrees
<1>3. \A j \in Jobs : RowInv(j)
  BY DEF Init, RowInv, Jobs
<1>4. QED
  BY <1>1, <1>2, <1>3, IInvParts

LEMMA IInvStep == IInv /\ [Next]_vars => IInv'
<1> SUFFICES ASSUME IInv, [Next]_vars PROVE IInv'
  OBVIOUS
<1>1. TypeOK /\ TypeOK' /\ Workers \subseteq Actors /\ Requests \subseteq Actors
  BY TypeStep DEF IInv, Actors
<1>2. ASSUME NEW a \in Assets, CreateScanJob(a) PROVE IInv'
  BY <1>1, <1>2, InsertStep DEF CreateScanJob
<1>3. ASSUME NEW e \in Enqueuers, NEW due, EnqueueDueScheduledScans(e, due)
      PROVE IInv'
  BY <1>1, <1>3, InsertStep DEF EnqueueDueScheduledScans
<1>4. ASSUME NEW w \in Workers, NEW j \in Jobs, ClaimNextScanJob(w, j) PROVE IInv'
  <2>1. scanType[j] \in ScanTypes \cup {"none"} /\ status[j] = "queued"
    BY <1>1, <1>4 DEF TypeOK, RowTypes, ClaimNextScanJob, IsNext, Claimable
  <2>2. /\ attempts'[j] = attempts[j] + 1
        /\ \A k \in Jobs \ {j} : attempts'[k] = attempts[k]
    BY <1>1, <1>4 DEF ClaimNextScanJob, TypeOK, RowTypes
  <2>3. /\ Hold(w, j, scanType[j])
        /\ status' = [status EXCEPT ![j] = "running"]
        /\ scanType' = scanType
        /\ UNCHANGED <<queueVars, resultVars, upserts>>
    BY <1>4 DEF ClaimNextScanJob
  <2>4. QED
    BY <1>1, <2>1, <2>2, <2>3, ClaimStep
<1>5. ASSUME NEW r \in Requests, NEW j \in Jobs, NEW t \in Routes,
             ClaimScanJobAsset(r, j, t)
      PROVE IInv'
  <2>1. t \in ScanTypes \cup {"none"} /\ r \notin Workers
    BY ScanQueueAssumption
  <2>2. scanType'[j] = t /\ \A k \in Jobs \ {j} : scanType'[k] = scanType[k]
    BY <1>1, <1>5 DEF ClaimScanJobAsset, TypeOK, RowTypes
  <2>3. /\ Hold(r, j, t) /\ status[j] = "queued"
        /\ status' = [status EXCEPT ![j] = "running"]
        /\ attempts' = attempts
        /\ UNCHANGED <<queueVars, resultVars, upserts>>
    BY <1>5 DEF ClaimScanJobAsset
  <2>4. QED
    BY <1>1, <2>1, <2>2, <2>3, ClaimStep
<1>6. ASSUME NEW x \in Actors, NEW n \in 0 .. MaxDrafts, ScanSucceeds(x, n) PROVE IInv'
  <2>1. \A y \in Actors \ {x} : todo'[y] = todo[y]
    BY <1>1, <1>6 DEF ScanSucceeds, TypeOK, ActorTypes
  <2>2. /\ Goto(x, "scanning", "scanned") /\ UNCHANGED <<job, source>>
        /\ UNCHANGED <<queueVars, status, scanType, attempts, resultVars, upserts>>
    BY <1>6 DEF ScanSucceeds
  <2>3. QED
    BY <1>1, <2>1, <2>2, GotoStep
<1>7. ASSUME NEW w \in Workers, WorkerScanFails(w) PROVE IInv'
  BY <1>1, <1>7, GotoStep DEF WorkerScanFails
<1>8. ASSUME NEW w \in Workers, FailScanJob(w) PROVE IInv'
  BY <1>1, <1>8, FinishStep DEF FailScanJob
<1>9. ASSUME NEW w \in Workers, PersistScanResult(w) PROVE IInv'
  BY <1>1, <1>9, StoreStep DEF PersistScanResult
<1>10. ASSUME NEW w \in Workers, CompleteScanJob(w) PROVE IInv'
  BY <1>1, <1>10, FinishStep DEF CompleteScanJob
<1>11. ASSUME NEW x \in Actors, pc[x] # "idle", Release(x),
              UNCHANGED <<queueVars, status, scanType, attempts, resultVars, upserts>>
       PROVE IInv'
  BY <1>1, <1>11, ReleaseStep
<1>12. ASSUME NEW r \in Requests, CommitResult(r) PROVE IInv'
  BY <1>1, <1>12, StoreStep DEF CommitResult
<1>13. ASSUME NEW r \in Requests, CommitFails(r) PROVE IInv'
  BY <1>1, <1>13, GotoStep DEF CommitFails
<1>14. ASSUME NEW r \in Requests, AuditFails(r) PROVE IInv'
  BY <1>1, <1>14, GotoStep DEF AuditFails
<1>15. ASSUME NEW r \in Requests, MarkScanJobFailed(r) PROVE IInv'
  BY <1>1, <1>15, FinishStep DEF MarkScanJobFailed
<1>16. ASSUME UNCHANGED RestVars PROVE IInv'
  <2>1. (\A j \in Jobs : RowInv(j)) => \A j \in Jobs : RowInv(j)'
    BY <1>16 DEF RestVars, resultVars, RowInv
  <2>2. ExecutorsAgree => ExecutorsAgree'
    BY <1>16 DEF RestVars, resultVars, actorVars, ExecutorsAgree, Agrees, HeldJob
  <2>3. SingleExecutor => SingleExecutor'
    BY <1>16 DEF RestVars, actorVars, SingleExecutor
  <2>4. QED
    BY <1>1, <2>1, <2>2, <2>3, IInvParts, IInvPartsNext
<1>17. ASSUME NEW w \in Workers, WorkerProceeds(w) \/ TickAborts(w) PROVE IInv'
  BY <1>1, <1>17, <1>6, <1>7, <1>8, <1>9, <1>10, <1>11, PersistFindingStep
  DEF WorkerProceeds, TickAborts
<1>18. ASSUME NEW r \in Requests, RequestProceeds(r) \/ RequestEnds(r) PROVE IInv'
  BY <1>1, <1>18, <1>6, <1>11, <1>12, <1>13, <1>14, <1>15
  DEF RequestProceeds, RequestEnds, RequestScanFails, AuditSucceeds
<1>19. UNCHANGED vars => UNCHANGED RestVars
  BY DEF vars, RestVars, resultVars, actorVars
<1>20. QED
  BY <1>2, <1>3, <1>4, <1>5, <1>16, <1>17, <1>18, <1>19, NothingEnqueued DEF Next

(* The inductive invariant holds in every reachable state.                 *)
THEOREM IInvCorrect == Spec => []IInv
BY IInvInit, IInvStep, PTL DEF Spec

(* No two executors, worker replicas or API requests in any number, ever   *)
(* hold the same scan job.                                                 *)
THEOREM SingleExecutorCorrect == Spec => []SingleExecutor
<1>1. IInv => SingleExecutor
  BY DEF IInv
<1>2. QED
  BY <1>1, IInvCorrect, PTL

(* A job has at most one result row, and it is of the type the job shows,  *)
(* although the routes that run a job overwrite its type.                  *)
THEOREM ResultFitsJobCorrect == Spec => []ResultFitsJob
<1>1. IInv => ResultFitsJob
  BY DEF IInv
<1>2. QED
  BY <1>1, IInvCorrect, PTL

(* A job that says completed has its result and, from a worker, all of its *)
(* findings, whatever failed between the statements that wrote them.       *)
THEOREM CompletedIsWholeCorrect == Spec => []CompletedIsWhole
<1>1. IInv => CompletedIsWhole
  BY DEF IInv
<1>2. QED
  BY <1>1, IInvCorrect, PTL

(* A job that a worker marked failed has left neither result nor findings. *)
THEOREM WorkerFailureIsCleanCorrect == Spec => []WorkerFailureIsClean
<1>1. IInv => WorkerFailureIsClean
  BY DEF IInv
<1>2. QED
  BY <1>1, IInvCorrect, PTL

-----------------------------------------------------------------------------
(* The queue implements JobLifecycle: each step is a step of one job's     *)
(* life, the submission of several, or changes neither status nor rows.    *)

LEMMA InsertRefines ==
  ASSUME IInv, NEW date, NEW batch, Insert(date, batch)
  PROVE  Lifecycle!Next
<1> DEFINE B == submitted + 1 .. submitted + Len(batch)
<1>1. /\ submitted \in Nat /\ Len(batch) \in Nat /\ MaxJobs \in Nat
      /\ \A j \in Jobs : RowInv(j)
  BY IInvParts, ScanQueueAssumption DEF TypeOK, RowTypes, Insert
<1>2. B \in SUBSET Jobs
  BY <1>1 DEF Insert, Jobs
<1>3. \A j \in B : status[j] = "absent"
  BY <1>1, <1>2 DEF RowInv
<1>4. Lifecycle!Submit(B)
  BY <1>3 DEF Lifecycle!Submit, Lifecycle!Jobs, Insert, Jobs, resultVars
<1>5. QED
  BY <1>2, <1>4 DEF Lifecycle!Next, Lifecycle!Jobs, Jobs

LEMMA ExecutorRefines ==
  ASSUME IInv, NEW x \in Actors, pc[x] # "idle", results' = results,
         \/ SetStatus(x, "failed") /\ pc[x] \in {"scanFailed", "failing"}
         \/ SetStatus(x, "completed") /\ pc[x] = "saving"
  PROVE  Lifecycle!Next
<1> PICK j \in Jobs : j = job[x]
  BY HoldsAlone
<1>1. HeldJob(x) /\ job[x] = j
  BY HoldsAlone
<1>2. Lifecycle!Fail(j) \/ Lifecycle!Disown(j) \/ Lifecycle!Complete(j)
  BY <1>1 DEF HeldJob, SetStatus, Lifecycle!Fail, Lifecycle!Disown,
              Lifecycle!Complete, Lifecycle!Move
<1>3. QED
  BY <1>2 DEF Lifecycle!Next, Lifecycle!Jobs, Jobs

LEMMA StoreRefines ==
  ASSUME IInv, NEW x \in Actors, pc[x] = "scanned", StoreResult(x),
         status' = status \/ SetStatus(x, "completed")
  PROVE  Lifecycle!Next
<1> PICK j \in Jobs : j = job[x]
  BY HoldsAlone
<1>1. /\ job[x] = j /\ status[j] = "running" /\ results[j] = 0 /\ TypeOK
  BY HoldsAlone DEF HeldJob, IInv
<1>2. results' = [results EXCEPT ![j] = 1]
  <2>1. 0 + 1 = 1
    OBVIOUS
  <2>2. QED
    BY <1>1, <2>1 DEF StoreResult
<1>3. Lifecycle!Record(j) \/ Lifecycle!RecordAndComplete(j)
  BY <1>1, <1>2 DEF SetStatus, Lifecycle!Record, Lifecycle!RecordAndComplete,
                    Lifecycle!Move
<1>4. QED
  BY <1>3 DEF Lifecycle!Next, Lifecycle!Jobs, Jobs

LEMMA LifecycleStep == IInv /\ [Next]_vars => [Lifecycle!Next]_(Lifecycle!vars)
<1> SUFFICES ASSUME IInv, [Next]_vars
             PROVE  Lifecycle!Next \/ UNCHANGED <<status, results>>
  BY DEF Lifecycle!vars
<1>1. Workers \subseteq Actors /\ Requests \subseteq Actors
  BY DEF Actors
<1>2. ASSUME NEW a \in Assets, CreateScanJob(a) PROVE Lifecycle!Next
  BY <1>2, InsertRefines DEF CreateScanJob
<1>3. ASSUME NEW e, NEW due, EnqueueDueScheduledScans(e, due)
      PROVE Lifecycle!Next
  BY <1>3, InsertRefines DEF EnqueueDueScheduledScans
<1>4. ASSUME NEW x \in Actors, NEW j \in Jobs, NEW t,
             ClaimNextScanJob(x, j) \/ ClaimScanJobAsset(x, j, t)
      PROVE Lifecycle!Next
  <2>1. Lifecycle!Start(j)
    BY <1>4 DEF ClaimNextScanJob, ClaimScanJobAsset, IsNext, Claimable, resultVars,
                Lifecycle!Start, Lifecycle!Move
  <2>2. QED
    BY <2>1 DEF Lifecycle!Next, Lifecycle!Jobs, Jobs
<1>5. ASSUME NEW x \in Actors,
             FailScanJob(x) \/ CompleteScanJob(x) \/ MarkScanJobFailed(x)
      PROVE Lifecycle!Next
  BY <1>5, ExecutorRefines
  DEF FailScanJob, CompleteScanJob, MarkScanJobFailed, resultVars
<1>6. ASSUME NEW x \in Actors, PersistScanResult(x) \/ CommitResult(x)
      PROVE Lifecycle!Next
  BY <1>6, StoreRefines DEF PersistScanResult, CommitResult, Goto
<1>7. ASSUME NEW x \in Actors,
             \/ \E n \in 0 .. MaxDrafts : ScanSucceeds(x, n)
             \/ WorkerScanFails(x) \/ PersistFinding(x) \/ TickAborts(x)
             \/ RequestScanFails(x) \/ CommitFails(x) \/ AuditSucceeds(x)
             \/ AuditFails(x) \/ RequestEnds(x)
      PROVE UNCHANGED <<status, results>>
  BY <1>7 DEF ScanSucceeds, WorkerScanFails, PersistFinding, TickAborts,
              RequestScanFails, CommitFails, AuditSucceeds, AuditFails, RequestEnds,
              resultVars
<1>8. CASE UNCHANGED vars
  BY <1>8 DEF vars
<1>9. ASSUME NEW e \in Enqueuers, BeginEnqueue(e) \/ EnqueueNothing(e)
      PROVE UNCHANGED <<status, results>>
  BY <1>9, NothingEnqueued DEF RestVars, resultVars
<1>10. QED
  BY <1>1, <1>2, <1>3, <1>4, <1>5, <1>6, <1>7, <1>8, <1>9
  DEF Next, WorkerProceeds, RequestProceeds

(* Every behaviour of workers, requests and faults is, for a client that   *)
(* reads job statuses and result rows, a behaviour of JobLifecycle.        *)
THEOREM ImplementsLifecycleCorrect == Spec => ImplementsLifecycle
<1>1. Init => Lifecycle!Init
  BY DEF Init, Lifecycle!Init, Lifecycle!Jobs, Jobs
<1>2. QED
  BY <1>1, LifecycleStep, IInvCorrect, PTL
  DEF Spec, ImplementsLifecycle, Lifecycle!Spec

-----------------------------------------------------------------------------
(* What a step may never do.                                               *)

LEMMA Untouched ==
  ASSUME IInv, [Next]_vars, NEW j \in Jobs,
         status[j] \notin {"absent", "queued"}, Executors(j) = {}
  PROVE  /\ status'[j] = status[j]
         /\ results'[j] = results[j]
         /\ Executors(j)' = {}
<1> DEFINE Goal == /\ status'[j] = status[j] /\ results'[j] = results[j]
                   /\ \A x \in Actors : job'[x] # j
<1>1. /\ TypeOK /\ RowInv(j) /\ Workers \subseteq Actors /\ Requests \subseteq Actors
      /\ submitted \in Nat /\ \A x \in Actors : job[x] # j
  BY IInvParts DEF Actors, Executors, TypeOK, RowTypes
<1>2. SUFFICES Goal
  BY DEF Executors
<1>3. ASSUME NEW date, NEW batch, Insert(date, batch) PROVE Goal
  <2>1. ~ (j > submitted) /\ Len(batch) \in Nat
    BY <1>1, <1>3 DEF RowInv, Insert
  <2>2. j \notin submitted + 1 .. submitted + Len(batch)
    BY <1>1, <2>1 DEF Jobs
  <2>3. QED
    BY <1>1, <1>3, <2>2 DEF Insert, resultVars, actorVars
<1>4. ASSUME NEW x \in Actors, NEW k \in Jobs, NEW t,
             ClaimNextScanJob(x, k) \/ ClaimScanJobAsset(x, k, t)
      PROVE Goal
  <2>1. k # j
    BY <1>4 DEF ClaimNextScanJob, ClaimScanJobAsset, IsNext, Claimable
  <2>2. /\ job' = [job EXCEPT ![x] = k] /\ results' = results
        /\ status' = [status EXCEPT ![k] = "running"]
    BY <1>4 DEF ClaimNextScanJob, ClaimScanJobAsset, Hold, resultVars
  <2>3. QED
    BY <1>1, <2>1, <2>2 DEF TypeOK, RowTypes, ActorTypes
<1>5. ASSUME NEW x \in Actors, NEW s,
             status' = status \/ SetStatus(x, s),
             results' = results \/ StoreResult(x),
             job' = job \/ Release(x)
      PROVE Goal
  <2>1. job[x] # j /\ j # NoJob
    BY <1>1 DEF Jobs, NoJob
  <2>2. status'[j] = status[j]
    BY <1>1, <1>5, <2>1 DEF SetStatus, TypeOK, RowTypes
  <2>3. results'[j] = results[j]
    BY <1>1, <1>5, <2>1 DEF StoreResult, TypeOK, RowTypes
  <2>4. \A y \in Actors : job'[y] # j
    BY <1>1, <1>5, <2>1 DEF Release, TypeOK, ActorTypes
  <2>5. QED
    BY <2>2, <2>3, <2>4
<1>6. ASSUME NEW w \in Workers, WorkerProceeds(w) \/ TickAborts(w) PROVE Goal
  BY <1>1, <1>5, <1>6
  DEF WorkerProceeds, TickAborts, ScanSucceeds, WorkerScanFails, FailScanJob,
      PersistScanResult, PersistFinding, CompleteScanJob, resultVars
<1>7. ASSUME NEW r \in Requests, RequestProceeds(r) \/ RequestEnds(r) PROVE Goal
  BY <1>1, <1>5, <1>7
  DEF RequestProceeds, RequestEnds, ScanSucceeds, RequestScanFails, CommitResult,
      CommitFails, AuditSucceeds, AuditFails, MarkScanJobFailed, resultVars
<1>8. CASE UNCHANGED vars
  BY <1>1, <1>8 DEF vars
<1>9. ASSUME NEW a \in Assets, CreateScanJob(a) PROVE Goal
  BY <1>3, <1>9 DEF CreateScanJob
<1>10. ASSUME NEW e, NEW due, EnqueueDueScheduledScans(e, due) PROVE Goal
  BY <1>3, <1>10 DEF EnqueueDueScheduledScans
<1>11. ASSUME NEW e \in Enqueuers, BeginEnqueue(e) \/ EnqueueNothing(e) PROVE Goal
  BY <1>1, <1>11, NothingEnqueued DEF RestVars, resultVars, actorVars
<1>12. QED
  BY <1>1, <1>4, <1>6, <1>7, <1>8, <1>9, <1>10, <1>11 DEF Next

(* A running job that lost its executor is never touched again, by anyone. *)
THEOREM AbandonedIsStuckCorrect == Spec => AbandonedIsStuck
<1>1. IInv /\ [Next]_vars
        => \A j \in Jobs : status[j] = "running" /\ Executors(j) = {}
             => /\ status'[j] = "running"
                /\ results'[j] = results[j]
                /\ Executors(j)' = {}
  BY Untouched
<1>2. QED
  BY <1>1, IInvCorrect, PTL DEF Spec, AbandonedIsStuck

(* A final status stays, but for a completed job a request still holds.    *)
THEOREM FinalStatusStaysCorrect == Spec => FinalStatusStays
<1> DEFINE Stays(j) ==
      /\ status[j] = "failed" => status'[j] = "failed"
      /\ status[j] = "completed" =>
           \/ status'[j] = "completed"
           \/ /\ status'[j] = "failed"
              /\ \E r \in Requests : job[r] = j
<1>1. ASSUME IInv, [Next]_vars, NEW j \in Jobs PROVE Stays(j)
  <2>1. /\ status[j] = "failed" => status'[j] = "failed"
        /\ status[j] = "completed" => status'[j] \in {"completed", "failed"}
    <3>1. [Lifecycle!Next]_(Lifecycle!vars) /\ status \in [Jobs -> Statuses]
      BY <1>1, LifecycleStep DEF IInv, TypeOK, RowTypes
    <3>2. QED
      BY <3>1 DEF Lifecycle!Next, Lifecycle!vars, Lifecycle!Submit, Lifecycle!Start,
                  Lifecycle!Record, Lifecycle!Complete, Lifecycle!RecordAndComplete,
                  Lifecycle!Fail, Lifecycle!Disown, Lifecycle!Move, Lifecycle!Jobs, Jobs
  <2>2. ASSUME status[j] = "completed", status'[j] # "completed"
        PROVE  \E r \in Requests : job[r] = j
    <3>1. Executors(j) # {}
      BY <1>1, <2>2, Untouched
    <3>2. PICK x \in Actors : job[x] = j
      BY <3>1 DEF Executors
    <3>3. Agrees(x) /\ HeldJob(x) /\ pc[x] \in Steps
      BY <1>1, <3>2, IInvParts
      DEF ExecutorsAgree, Agrees, Jobs, NoJob, TypeOK, ActorTypes
    <3>4. x \notin Workers
      BY <2>2, <3>2, <3>3
      DEF Agrees, HeldJob, Steps, WorkerSteps, RequestSteps, Jobs, NoJob
    <3>5. QED
      BY <3>2, <3>4 DEF Actors
  <2>3. QED
    BY <2>1, <2>2
<1>2. IInv /\ [Next]_vars => \A j \in Jobs : Stays(j)
  BY <1>1
<1>3. QED
  BY <1>2, IInvCorrect, PTL DEF Spec, FinalStatusStays

-----------------------------------------------------------------------------
(* Why no job starves: what can get ahead of a queued one is used up.      *)

LEMMA BeganIsTyped ==
  ASSUME IInv
  PROVE  /\ began \in [Enqueuers -> 0 .. MaxJobs]
         /\ created \in [Jobs -> 0 .. MaxJobs]
         /\ submitted \in Nat /\ MaxJobs \in Nat
         /\ \A j \in Jobs : j \in Nat /\ (j > submitted => status[j] = "absent")
BY ScanQueueAssumption DEF IInv, TypeOK, RowTypes, RowsAgree, Jobs

(* What a transaction that inserts does to the date and the status of one  *)
(* job.                                                                    *)
LEMMA InsertDates ==
  ASSUME IInv, NEW date, NEW batch, Insert(date, batch), NEW i \in Jobs
  PROVE  /\ submitted' \in Nat /\ submitted <= submitted'
         /\ \/ /\ submitted < submitted' /\ status[i] = "absent"
               /\ created'[i] = date
            \/ created'[i] = created[i] /\ status'[i] = status[i]
<1>1. /\ Len(batch) \in Nat /\ submitted' = submitted + Len(batch)
      /\ \/ /\ i \in submitted + 1 .. submitted + Len(batch) /\ created'[i] = date
         \/ created'[i] = created[i] /\ status'[i] = status[i]
  BY DEF Insert
<1>2. QED
  BY <1>1, BeganIsTyped

(* The steps, as far as the order of the queue goes: a job that is dated   *)
(* now, a transaction that begins now, one that ends without a job, one    *)
(* that ends with the jobs it dated, and all that leaves the dates alone   *)
(* and queues nothing.                                                     *)
Drains ==
  /\ UNCHANGED queueVars
  /\ \A j \in Jobs : status'[j] = "queued" => status[j] = "queued"

Dates(e) ==
  /\ began[e] # NoDate
  /\ \E batch : Insert(began[e], batch)
  /\ began' = [began EXCEPT ![e] = NoDate]

DatesNow == (\E batch : Insert(Now, batch)) /\ began' = began

LEMMA QueueStep ==
  ASSUME IInv, [Next]_vars
  PROVE  \/ DatesNow \/ Drains
         \/ \E e \in Enqueuers : BeginEnqueue(e) \/ EnqueueNothing(e) \/ Dates(e)
<1>1. /\ status \in [Jobs -> Statuses] /\ Workers \subseteq Actors
      /\ Requests \subseteq Actors
  BY DEF IInv, TypeOK, RowTypes, Actors
<1>2. ASSUME NEW x \in Actors, NEW k \in Jobs, NEW t,
             ClaimNextScanJob(x, k) \/ ClaimScanJobAsset(x, k, t)
      PROVE  Drains
  <2>1. UNCHANGED queueVars /\ status' = [status EXCEPT ![k] = "running"]
    BY <1>2 DEF ClaimNextScanJob, ClaimScanJobAsset
  <2>2. QED
    BY <1>1, <2>1 DEF Drains
<1>3. ASSUME NEW x \in Actors, NEW s \in {"completed", "failed"},
             UNCHANGED queueVars, status' = status \/ SetStatus(x, s)
      PROVE  Drains
  BY <1>1, <1>3 DEF SetStatus, Drains
<1>4. ASSUME NEW w \in Workers, WorkerProceeds(w) \/ TickAborts(w) PROVE Drains
  BY <1>1, <1>3, <1>4
  DEF WorkerProceeds, TickAborts, ScanSucceeds, WorkerScanFails, FailScanJob,
      PersistScanResult, PersistFinding, CompleteScanJob
<1>5. ASSUME NEW r \in Requests, RequestProceeds(r) \/ RequestEnds(r) PROVE Drains
  BY <1>1, <1>3, <1>5
  DEF RequestProceeds, RequestEnds, ScanSucceeds, RequestScanFails, CommitResult,
      CommitFails, AuditSucceeds, AuditFails, MarkScanJobFailed
<1>6. CASE UNCHANGED vars
  BY <1>6 DEF vars, queueVars, Drains
<1>7. ASSUME NEW a \in Assets, CreateScanJob(a) PROVE DatesNow
  BY <1>7 DEF CreateScanJob, DatesNow
<1>8. ASSUME NEW e \in Enqueuers, NEW due, EnqueueDueScheduledScans(e, due)
      PROVE  Dates(e)
  BY <1>8 DEF EnqueueDueScheduledScans, Dates, CreatedAt
<1>9. QED
  BY <1>1, <1>2, <1>4, <1>5, <1>6, <1>7, <1>8 DEF Next

LEMMA DatesStep == IInv /\ DatesAgree /\ [Next]_vars => DatesAgree'
<1> SUFFICES ASSUME IInv, DatesAgree, [Next]_vars PROVE DatesAgree'
  OBVIOUS
<1> USE DEF DatesAgree, Now, NoDate
<1>1. ASSUME NEW date, date \in Nat, date <= Now, NEW batch, Insert(date, batch)
      PROVE  /\ \A i \in Jobs : created'[i] <= submitted'
             /\ submitted' \in Nat /\ submitted <= submitted'
  <2>1. ASSUME NEW i \in Jobs PROVE created'[i] <= submitted'
    <3>1. created[i] \in Nat /\ created[i] <= submitted /\ submitted \in Nat
      BY BeganIsTyped
    <3>2. QED
      BY <1>1, <3>1, InsertDates
  <2>2. submitted' \in Nat /\ submitted <= submitted'
    BY <1>1, BeganIsTyped DEF Insert
  <2>3. QED
    BY <2>1, <2>2
<1>2. CASE DatesNow
  <2>1. PICK batch : Insert(Now, batch)
    BY <1>2 DEF DatesNow
  <2>2. Now \in Nat /\ Now <= Now
    BY BeganIsTyped
  <2>3. /\ \A i \in Jobs : created'[i] <= submitted'
        /\ submitted' \in Nat /\ submitted <= submitted'
    BY <1>1, <2>1, <2>2
  <2>4. QED
    BY <1>2, <2>3, BeganIsTyped DEF DatesNow
<1>3. ASSUME NEW e \in Enqueuers, BeginEnqueue(e) \/ EnqueueNothing(e)
      PROVE  DatesAgree'
  BY <1>3, BeganIsTyped DEF BeginEnqueue, EnqueueNothing
<1>4. ASSUME NEW e \in Enqueuers, Dates(e) PROVE DatesAgree'
  <2>1. PICK batch : Insert(began[e], batch)
    BY <1>4 DEF Dates
  <2>2. began[e] \in Nat /\ began[e] <= Now
    BY BeganIsTyped
  <2>3. /\ \A i \in Jobs : created'[i] <= submitted'
        /\ submitted' \in Nat /\ submitted <= submitted'
    BY <1>1, <2>1, <2>2
  <2>4. QED
    BY <1>4, <2>3, BeganIsTyped DEF Dates
<1>5. CASE Drains
  BY <1>5 DEF Drains, queueVars
<1>6. QED
  BY <1>2, <1>3, <1>4, <1>5, QueueStep

(* A step that dates its jobs later than job j puts none of them ahead.    *)
LEMMA LaterIsBehind ==
  ASSUME IInv, NEW j \in Jobs, status[j] = "queued",
         NEW date \in Nat, date > created[j], NEW batch, Insert(date, batch)
  PROVE  created'[j] = created[j] /\ Ahead(j)' \subseteq Ahead(j)
<1>1. created'[j] = created[j]
  BY InsertDates
<1>2. ASSUME NEW i \in Ahead(j)' PROVE i \in Ahead(j)
  <2>1. i \in Jobs /\ i # j /\ status'[i] = "queued" /\ created'[i] <= created[j]
    BY <1>1 DEF Ahead
  <2>2. created[j] \in Nat
    BY BeganIsTyped
  <2>3. created'[i] = created[i] /\ status'[i] = status[i]
    BY <2>1, <2>2, InsertDates
  <2>4. QED
    BY <2>1, <2>3 DEF Ahead
<1>3. QED
  BY <1>1, <1>2

Dwindle(j) ==
  /\ Overtakers(j)' \subseteq Overtakers(j)
  /\ \/ Ahead(j)' \subseteq Ahead(j)
     \/ Overtakers(j)' # Overtakers(j)

LEMMA OvertakersStep ==
  ASSUME IInv, DatesAgree, [Next]_vars, NEW j \in Jobs, status[j] = "queued"
  PROVE  Dwindle(j)
<1>1. /\ created[j] \in Nat /\ created[j] <= submitted /\ submitted \in Nat
      /\ \A e \in Enqueuers : began[e] \in Nat
      /\ Now \in Nat /\ Now > created[j]
  BY BeganIsTyped DEF DatesAgree, Now
<1>2. CASE DatesNow
  <2>1. created'[j] = created[j] /\ Ahead(j)' \subseteq Ahead(j) /\ began' = began
    BY <1>1, <1>2, LaterIsBehind DEF DatesNow
  <2>2. QED
    BY <2>1 DEF Overtakers, Dwindle
<1>3. ASSUME NEW e \in Enqueuers, BeginEnqueue(e) PROVE Dwindle(j)
  <2>1. UNCHANGED <<status, created>>
    BY <1>3 DEF BeginEnqueue
  <2>2. Ahead(j)' = Ahead(j)
    BY <2>1 DEF Ahead
  <2>3. /\ began'[e] > created[j]
        /\ \A f \in Enqueuers \ {e} : began'[f] = began[f]
    BY <1>1, <1>3, BeganIsTyped DEF BeginEnqueue
  <2>4. began'[e] \in Nat
    BY <1>1, <1>3, BeganIsTyped DEF BeginEnqueue
  <2>5. Overtakers(j)' \subseteq Overtakers(j)
    BY <1>1, <2>1, <2>3, <2>4 DEF Overtakers
  <2>6. QED
    BY <2>2, <2>5 DEF Dwindle
<1>4. ASSUME NEW e \in Enqueuers, EnqueueNothing(e) PROVE Dwindle(j)
  <2>1. UNCHANGED <<status, created>>
    BY <1>4 DEF EnqueueNothing
  <2>2. Ahead(j)' = Ahead(j)
    BY <2>1 DEF Ahead
  <2>3. /\ began'[e] = NoDate
        /\ \A f \in Enqueuers \ {e} : began'[f] = began[f]
    BY <1>4, BeganIsTyped DEF EnqueueNothing
  <2>4. Overtakers(j)' \subseteq Overtakers(j)
    BY <2>1, <2>3 DEF Overtakers
  <2>5. QED
    BY <2>2, <2>4 DEF Dwindle
<1>5. ASSUME NEW e \in Enqueuers, Dates(e) PROVE Dwindle(j)
  <2>1. PICK batch : Insert(began[e], batch)
    BY <1>5 DEF Dates
  <2>2. created'[j] = created[j]
    BY <2>1, InsertDates
  <2>3. /\ began[e] # NoDate /\ began'[e] = NoDate
        /\ \A f \in Enqueuers \ {e} : began'[f] = began[f]
    BY <1>5, BeganIsTyped DEF Dates
  <2>4. Overtakers(j)' \subseteq Overtakers(j)
    BY <2>2, <2>3 DEF Overtakers
  <2>5. CASE began[e] <= created[j]
    <3>1. e \in Overtakers(j) /\ e \notin Overtakers(j)'
      BY <2>3, <2>5 DEF Overtakers
    <3>2. QED
      BY <2>4, <3>1 DEF Dwindle
  <2>6. CASE ~ (began[e] <= created[j])
    <3>1. began[e] \in Nat /\ began[e] > created[j]
      BY <1>1, <2>6
    <3>2. QED
      BY <2>1, <2>4, <3>1, LaterIsBehind DEF Dwindle
  <2>7. QED
    BY <2>5, <2>6
<1>6. CASE Drains
  BY <1>6 DEF Drains, queueVars, Ahead, Overtakers, Dwindle
<1>7. QED
  BY <1>2, <1>3, <1>4, <1>5, <1>6, QueueStep

(* What can ever get ahead of a queued job is bounded: the jobs ahead of   *)
(* it now, and one batch of each transaction that is open and began before *)
(* it was inserted.  With claims that take an oldest job this is the       *)
(* safety half of QueuedIsClaimed.                                         *)
THEOREM OvertakersDwindleCorrect == Spec => OvertakersDwindle
<1>1. Init => DatesAgree
  BY DEF Init, DatesAgree, Now, NoDate
<1>2. IInv /\ DatesAgree /\ [Next]_vars
        => \A j \in Jobs : status[j] = "queued" =>
             /\ Overtakers(j)' \subseteq Overtakers(j)
             /\ \/ Ahead(j)' \subseteq Ahead(j)
                \/ Overtakers(j)' # Overtakers(j)
  BY OvertakersStep DEF Dwindle
<1>3. QED
  BY <1>1, <1>2, DatesStep, IInvCorrect, PTL DEF Spec, OvertakersDwindle
=============================================================================
