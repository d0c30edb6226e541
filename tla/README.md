# Verification of the exposure monitor

TLA+ models of the exposure monitor (CEEM), the TLC runs that check small
instances of them, and theorems about them that TLAPS proves for instances of
any size. Paths below are relative to the repository; `api`, `worker`, `shared`,
`scanner`, `findings` and `alerts` stand for `crates/<name>/src/{main,lib}.rs`.

## The system

One PostgreSQL database is the only thing the processes share. API processes
(`api`) answer requests; worker replicas (`worker`) each run one loop that
enqueues the jobs of due schedules, or else executes a queued scan job, or else
delivers an alert (`run_worker_tick`, worker 91-126). The dashboard
(`web/src/App.tsx`) is a client of the API. Slack and the scanned domains are
outside. There are no locks or channels between processes: what one does is seen
by another through rows, and two executors meet only between SQL statements or
transactions. A tick that meets a database error logs it and the loop starts
another tick (worker 80-84); a request that does ends with an error. In both
cases the statements already made stay.

| component | state | operations | with whom it interacts |
| --- | --- | --- | --- |
| scan queue | `scan_jobs`, `scan_results` | create a job, enqueue due schedules, claim, execute, complete, fail; run a queued job from a request | workers and requests race for rows; calls the scanner; feeds findings |
| findings | `findings` | derive from a result, upsert, set a status | written by workers and by requests at once; alerts and tasks refer to them |
| remediation | `remediation_tasks`, `finding_events` | create and move a task, add a note | moving a task sets its finding's status |
| alerts | `alerts`, `organization_alert_settings` | queue or suppress, claim and deliver, deliver on request, retry, change settings | workers, requests and Slack |
| schedules | `scheduled_scans` | create, update, pause, enqueue when due | the worker locks due rows; requests change them |
| worker loop | none of its own | one tick: schedules, then jobs, then alerts | decides which queue is served |
| accounts | `users`, `sessions`, two token tables, `auth_rate_limits` | register, log in and out, refresh, reset, verify | every request reads its session |
| members | `organizations`, `organization_members`, `organization_invites` | create, invite, accept, change a role | every request reads its role |
| assets | `assets` | add a domain | members vouch for domains; scans and findings refer to them |
| channels, audit log | one table each | validated inserts and reads | referred to by the others |
| scanner | the locals of a scan | resolve, probe, read policies | called with a domain, returns evidence or an error |
| dashboard | browser state | calls routes, shows rows | the API |

What is hard, and so what the properties are about: two executors on one row;
statements of one operation that are not one transaction, with a crash or an
error between any two; answers of Slack that are lost; rows nobody will pick up
again; and values (a score, a count, a date, a status) that two pieces of code
keep up in different places.

What makes each component correct:

* scan queue: one executor per job, final statuses that stay and mean what they
  say, and every queued job taken in the end;
* findings: counts and scores that fit what was observed, and scans that do not
  undo triage;
* remediation: a finding in the status its task was moved to;
* alerts: never posted unpaid for, by an attempt or by a user who asked, tried
  until they are taken or spent, and suppressed for a cause only;
* schedules: each due time enqueued once, nothing while paused, no replica
  enqueueing what another did;
* worker loop: no queue starved for ever while the others are bounded;
* accounts: a reset ends the sessions it finds, a token is used once, a refreshed
  session is over, and limits hold across the edge of a window;
* members: nobody is one who neither founded the organization nor accepted an
  invite, and a leading role that is lost stops counting;
* scanner: a scan ends whatever servers answer, and its evidence and findings
  tell what they answered.

## Modules

| module | what it is |
| --- | --- |
| `ScanQueue` | the scan queue: rows, worker replicas, run-now requests |
| `JobLifecycle` | the abstract life of a job, which `ScanQueue` implements |
| `AlertDelivery` | alerts, their settings, workers, requests and Slack |
| `AlertLifecycle` | the abstract life of an alert, which `AlertDelivery` implements |
| `FindingRules` | the rules as operators on evidence |
| `RiskScore` | the score as a function, and as the SQL of the upsert has it |
| `FindingLifecycle` | findings and tasks of a domain; extends the two above |
| `ScanSchedule` | schedules against a clock, and the order of a worker's tick |
| `Timetable` | the abstract schedules, which `ScanSchedule` implements |
| `RateLimit` | the fixed window of one bucket and key, against a clock |
| `Accounts` | an account, its sessions and tokens; extends `RateLimit` |
| `Membership` | members, invites and domains of an organization |
| `Scanner` | one scan against the network; extends `FindingRules` |
| `MC...` | the values of the constants for TLC |
| `...Proofs` | theorems and proofs of the module they are named after |

In all state machines an action is one SQL statement or transaction, or one
answer from outside, so that every interleaving the database allows is a
behaviour. Definitions keep the names of the functions, and `PROJECT.json` maps
each to its lines. Definitions commented as mutants are variations a mistake in
the code could produce; nothing in a specification uses them.

### ScanQueue

`submitted`, `status`, `scanType`, `assetOf`, `created`, `attempts` are columns
of `scan_jobs`; `results`, `resultSource`, `evidence` describe `scan_results`;
`upserts` counts the findings a worker has stored for a job. `pc`, `job`,
`source`, `todo` are what an executor holds between statements. A job's number
is its place in the order of insertion.

`created_at` is the column's default `now()` (migration 202606120001:56), which
is the start of the inserting transaction. The transaction of
`enqueue_due_scheduled_scans` begins at worker 129 and commits at 206: `began`
says when each of the open ones, the `Enqueuers`, began, and its jobs are dated
by that although others may be inserted, seen and dated later in between. The
statement of a request begins and commits at once. Time is how many jobs there
are to see. That the worker whose transaction is open claims no job until it
ends is left out, which only adds behaviours.

| action | code |
| --- | --- |
| `CreateScanJob` | api 1044-1090 |
| `BeginEnqueue` | worker 129: the transaction begins, which dates its jobs |
| `EnqueueDueScheduledScans` | worker 158-208: its inserts become visible at its commit |
| `EnqueueNothing` | nothing due, or a rollback |
| `ClaimNextScanJob` | worker 210-250: oldest queued job, `FOR UPDATE SKIP LOCKED` over the job and its asset |
| `ScanSucceeds`, `WorkerScanFails`, `FailScanJob` | worker 112-122, 252-269 |
| `PersistScanResult`, `PersistFinding`, `CompleteScanJob` | worker 271-379, each its own statement |
| `TickAborts` | a database error or a crash in a tick, worker 80-84 |
| `ClaimScanJobAsset` | api 2032-2069: the job named, if queued; its type is overwritten |
| `RequestScanFails` | api 1316-1329 |
| `CommitResult`, `CommitFails`, `AuditSucceeds`, `AuditFails`, `MarkScanJobFailed` | api 2071-2134 and 1338-1352 |
| `RequestEnds` | a disconnect or a crash, or an error in `mark_scan_job_failed` |

`locked_at` and `max_attempts` of `scan_jobs` are written or declared and never
read. `next_run_at` of a job is NULL or the start of its transaction, so the
claim's test of it excludes nothing. Evidence is kept as how many findings it yields.

### AlertDelivery

`status`, `about`, `attempts`, `due`, `sentAt` are columns of `alerts`;
`received` is how often Slack took the message, which no process knows, and
`asked` how often a user asked for a delivery (bounded by `MaxAsked`).
`minimum` and `horizon` are the settings: the minimum severity, and how far back
the suppression window reaches. `pc`, `item`, `attempt`, `finding`, `cut` are
what an executor holds: between the claim and the outcome a worker knows only
what the claim returned. Queueing an alert is several steps (settings, active
alert, channel, insert), as in `queue_slack_alert` (api 1598-1689). The delivery
of an alert is split where it calls Slack (worker 437-507, api 1766-1843). Slack
may take the message, refuse it, or take it and lose the answer.

`AlertLifecycle` says what all of this promises, in terms of an alert's status,
its time of sending, its attempts, how often Slack took it, and who is
delivering it (`holders`, which is `{x : item[x] = a}`). It leaves out backoff,
settings, the order of the queue and the steps of a delivery. Of its actions
follows, among others, what is proved one by one as well: an alert shown as sent
was taken, a suppressed one is never posted, one whose attempts are spent is
never claimed, and a sent one that nobody is delivering stays sent and is posted
no more.

Both abstract lives permit what the code does where statements of two executors
cross, and the refinements are no protection against it: a request whose audit
insert fails turns a completed job to failed (api 1342), a delivery posts an
alert another has posted or overwrites sent with failed (api 1786, worker 476),
and a spent alert may be queued again (api 1855). What is claimed of those cases
are `FinalStatusStays`, `SettledSentStays` and `PostsArePaid`, which say who can
do so and how often, and the violations below. Nothing is claimed of two
requests that queue an alert of one finding at once: both look for an active
one (api 1645, 2560) before either inserts, so that two wait to be delivered.

### FindingLifecycle

A finding is its rule, since `findings` is unique on asset and rule and the
model has one asset. `status`, `occurrences`, `risk`, `resolvedAt` are its
columns; `taskOf`, `taskStatus` those of `remediation_tasks`. `todo` holds the
drafts an executor has yet to upsert; `next`, `at`, `goal` the second statement
of a request. Three variables are history and decide nothing: `owed` counts the
upserts executors have taken on, less those a crash cut short; `latest` is the
task whose move set a finding's status last, if it was a move that did; `crossed`
are the findings whose last move met another or was cut short.

| action | code |
| --- | --- |
| `WorkerStores`, `UpsertFinding` | worker 271-354; the API's copy of the loop is api 2136-2194 |
| `RequestStores` | api 2071-2103: a run-now request derives no findings |
| `RequestDerives`, `UpsertFinding` | api 1383-1405 |
| `UpdateFindingStatus`, `InsertFindingEvent` | api 1432-1492, 2196-2222 |
| `CreateRemediationTask` | api 1889-1933 |
| `UpdateRemediationStatus`, `MoveFinding` | api 1958-2007, its two statements |
| `Crash` | an error or the end of an executor between two statements |

`FindingRules` shows two facts about the code: `tls_certificate_expiring_soon`
is never derived (the scanner never fills in the certificate's date), and no
rule rates above medium while alerts are sent from high on by default (migration
202606130001), so that with default settings every queued alert is suppressed.
Nothing resolves a finding by itself when its evidence disappears. A detection
reopens a `remediated` finding only (worker 332-335): `accepted_risk` and
`false_positive` have a date of resolution too (api 1446-1449) and stay, so that
"Resolved findings can reopen if detected again." (docs/art-plan.md:262) is true
of one of the three. `ResolutionIsDated` leaves out findings whose status a moved
task set, since a move never touches the date, and `TaskAgrees` those whose
moves crossed or were cut short, since those do disagree. The rows of
`finding_events` are not kept: by docs/art-plan.md:99 "Status changes are
captured as finding events.", but the code inserts one only for a change with a
note (api 1464), which reading shows as well as a run would.

### ScanSchedule

`profile`, `cadence`, `enabled`, `next`, `last` are columns of `scheduled_scans`
for one asset, with 0 for NULL; `edited` says whether `next_run_at` was last
written by a request. `pc`, `held`, `since` are a worker's place in its tick,
the rows its transaction has locked and its `now()`. `waiting` says whether
`ScanQueue` or `AlertDelivery` would have a row to claim.

| action | code |
| --- | --- |
| `LockDueScans` | worker 128-156: begin, and the first due rows that nobody has locked |
| `CommitDueScans` | worker 158-207: jobs, next runs and the commit |
| `FindsNoneDue`, `ClaimScanJob`, `FindsNoJob`, `ClaimAlert`, `TickEnds` | worker 91-126, 75-86 |
| `TickAborts` | worker 81-84, or the end of the process: a rollback |
| `UpsertScheduledScan` | api 1140-1180, 2224-2266 |
| `UpdateScheduledScan`, `PauseScheduledScan` | api 1182-1278 |
| `TimePasses`, `OthersInsert` | the clock; the routes that insert jobs and alerts |

Two clocks are told apart as in the code: `last_enqueued_at` is the
transaction's `now()`, `next_run_at` is reckoned by the process as it goes
(worker 651), any time between the lookup and the commit. A request reckons it
up to `Delay` before its statement takes effect. Its checks of session and role
come before and change nothing here.

`Timetable` is what a reader of the rows may rely on: no workers, locks or
transactions, edits that take effect at once, and runs of a batch in one step,
dated at a moment when each of its schedules was on and due, and due again an
interval after that date or later. A commit of `ScanSchedule` maps to `Run`,
dated by the transaction's `now()`; a request's statement to `Edit`; lookups,
locks, rollbacks and the rest of a tick map to stutters. `profile`, `edited` and
the state of the workers are hidden. What the mapping shows is that nothing a
request does comes between the lookup of a batch and its commit.

### Accounts

`session` and `token` tell of each row whether it can be used, `from` which
session a refresh replaced, `changes` how often a token changed the password.
`pc` and `at` are what a request holds between statements; `doomed` are the
sessions a reset has revoked and not committed; `closing` and `closed` count the
sessions there were when it revoked them. Sessions and tokens are numbered as
they are inserted, and may expire at any time. Of `RateLimit`, `windowStart` and
`attempts` are columns of `auth_rate_limits`; `admissions` is history, each
attempt that was let through with its time and its window.

| action | code |
| --- | --- |
| `LoginUser`, with `EnforceAuthRateLimit` | api 439-444, 2915-2955 |
| `CheckPassword`, `SessionForUser` | api 445-457, 2957-2989 |
| `RegisterUser`, `CreateEmailVerificationToken` | api 387-437, 3065-3082 |
| `LogoutUser`, `RefreshSession`, `RevokeSession` | api 473-524, each statement |
| `RequestPasswordReset`, `RequestEmailVerification` | api 526-553, 613-645 |
| `ConfirmPasswordReset`, `RevokeSessions`, `CommitReset` | api 555-611: one transaction, in which sessions can be opened |
| `ConfirmEmailVerification` | api 647-688, one transaction |
| `RequestEnds` | any error or disconnect between statements |

A row that an open transaction has written is locked: other statements on it
wait (`UserLocked`, `SessionLocked`), but inserting a session does not. A reset
that takes its token while another holds the user is modelled as taking it
afterwards, which nobody can tell. The limit is asked by logins only; the others
have buckets of their own, and a refusal leaves the rest as it is.

### Membership

`role`, `invites`, `domain` are the rows of `organization_members`,
`organization_invites` and `assets` of one organization, with users for their
addresses. `doing` is what each request has been allowed and not yet written.
`founder` and `late` are history: who founded it, and how many changes each user
has made by leave of a leading role since they last had one.

| action | code |
| --- | --- |
| `Asks`, by `Allows`, `MayGive`, `MayAdd` and `MayAccept` | what each handler reads and tests: api 701-703, 794-802, 848-872, 925-933, 979-984, with `require_membership` 2412-2431 |
| `CreateOrganization` | api 705-732, one transaction |
| `CreateOrganizationInvite` | api 806-823 |
| `AcceptOrganizationInvite` | api 874-895, one transaction, which does not look at `accepted_at` again |
| `UpdateMemberRole` | api 935-950: any member, the last owner and oneself too |
| `CreateDomainAsset` | api 988-1003 |
| `Crash` | an error or a disconnect between read and write |

`AcceptOrganizationInvite` counts acceptances instead of overwriting a date: two
requests that read an invite open both accept it, which `AcceptedByReaders`
permits and bounds. Who invited is left out, since no handler reads it.
Names, slugs and tokens are left out but for the slug being taken. Nothing
expires an invite: its `expires_at` is neither set nor read.

### Scanner

One scan. `scanType` is the job's; `addresses`, `spf`, `dmarc` are what the DNS
scans collect; `turn`, `url`, `chain`, `finalUrl`, `hsts`, `error` are the locals
of `probe_http_endpoint`; `answers` is the history of HTTP answers. The network
answers anything at any time: every answer leads somewhere or nowhere, and the
same URL may answer differently the next time.

| action | code |
| --- | --- |
| `ResolveDnsBaseline` | scanner 78-99 |
| `QuerySpf`, `QueryDmarc` | scanner 172-194, 248-265, two lookups |
| `BuildClient` | scanner 107-118 |
| `ReceiveAnswer`, with `Follow` and `HasTurn` | scanner 126-148 |
| `RequestFails` | scanner 149-152 |
| `ScanFails` | an error returned, worker 252-269 and api 1314-1331 |
| `FoundEvidence` | scanner 156-169 |

What the properties bring to light about the code: a chain may hold
`MAX_REDIRECTS` + 1 URLs, the sixth redirect is recorded and not followed and
gives no finding of its own; `http_missing_hsts` is about the last answer alone,
wherever redirects led; and a request that fails in a probe becomes evidence,
while a DNS lookup that fails makes the job fail. `prepare_domain_scan` has no
caller.

## Runs

Every bound is a CONSTANT. Deadlock is not checked: an idle system may stop
where its bounds are used up.

| run | instance | shows |
| --- | --- | --- |
| `scan_queue_safety` | 2 workers, 1 request, 1 enqueuer, 3 jobs, every fault; 488 456 states | `TypeOK`, `SingleExecutor`, `ResultFitsJob`, `CompletedIsWhole`, `WorkerFailureIsClean`, `AbandonedIsStuck`, `OvertakersDwindle`, `ImplementsLifecycle` (of `JobLifecycle`); under fairness `QueuedIsClaimed` |
| `scan_queue_live` | 2 workers, 1 enqueuer, 3 jobs, 2 assets, 2 schedules, scan errors; 406 676 states | `SubmittedEnds` |
| `alert_delivery_safety` | 2 workers, 1 request, 2 alerts of 2 attempts, 1 delivery on request, 2 findings, all calls and faults; 635 218 states | `TypeOK`, `AttemptsSpentOnce`, `PostsArePaid`, `SuppressedHasOriginal`, `ImplementsLifecycle` (of `AlertLifecycle`); under fairness `TriedUntilSpent` |
| `finding_lifecycle` | 1 worker, 2 requests with all calls, 2 tasks, 2 rules, crashes; 1 944 896 states | `TypeOK`, `RiskFitsOccurrences`, `ResolutionIsDated`, `CountsDetections`, `TaskAgrees` |
| `scan_schedule` | 2 workers, 2 schedules, one per transaction, 3 days, requests at any time; 35 280 states | `HeldIsDue`, `Spaced`, `NextRunFits`, `ImplementsTimetable` (of `Timetable`); under fairness `DueIsEnqueued`, `AlertsServed` |
| `accounts` | 2 requests, 2 sessions, 3 tokens, 3 instants, windows of 1 with 2 logins, every route; 3 449 444 states | `TypeOK`, `AdmittedPerWindow`, `TokenOnce`, `ResetCloses`, `RefreshReplaces` |
| `membership` | 2 users, 2 requests, 2 invites, 1 domain, 3 roles, errors anywhere; 2 624 656 states | `LateByReaders`, `MembersAreInvited`, `AcceptedByReaders`, `OwnerlessIsFinal` |
| `scanner` | 3 URLs, the code's 5 redirects, every answer; 83 997 states | `ProbeTellsThePath`, `FindingsFitAnswers`; under fairness `ScanEnds` |

Three jobs are one more than the workers and one for a request, and as many as
the largest profile inserts at once, and room for two between the start and the
commit of a schedule's transaction; two alerts are the least with a duplicate,
and two attempts the least with a retry that is not the last; three detections
are an insert and two conflicts, and three upserts in flight at once (the caps of
the score, reached at six, are past what TLC can do here and are covered by the
theorem `ScoreOnceMore`); two tasks are the least that can disagree about a
finding, and two requests the least whose moves cross. One result is enough for
two requests and a worker to upsert the same finding, since `derive_findings` may
be called again. Two schedules
with one per transaction are the least where one is passed over; a week is two
days there, so that three days see a second run of each. Two sessions are a
session and its successor; three tokens are the one that verifies the address
and two resets. A window of 1 lets a stretch of time meet two windows and their
edge. Two users are an owner and another, who may be demoted by the one they
promoted; roles offered are owner, admin and member, since a viewer may give as
little as a member. Three URLs make circles, answers that differ
from turn to turn, and chains longer than the loop's six turns.

`DueIsEnqueued` is checked with `Delay` 0, a request taking less than the unit
of a day: clients that made requests that take longer than an interval could
write a next run that is past already, and keep a schedule due by editing it for
ever. `AdmittedPerWindow` is twice the limit less one, not the limit, since the
window is fixed: the attempts at the end of one and the start of the next add
up. `AlertsServed` is what `AlertDelivery`'s fairness supposes: once schedules
and jobs leave room, alerts are looked at. While jobs keep coming they are not,
which the order of the tick (worker 91-103) allows.

With finitely many jobs and days the order of a claim (worker 219) and of a batch
(worker 138) decides no liveness: `QueuedIsClaimed` and `DueIsEnqueued` would hold
of any order, and it is `OvertakersDwindle` and `NobodyCutsIn` that speak of it.
The clock of a process and `now()` of the database are taken to agree.
`RefreshReplaces` says that a refreshed session is over before its successor is
there. It permits two successors of one session, by two refreshes at once, and a
successor opened after a reset or a logout, which the statements of a refresh
(api 497-508) do allow.

Four runs look for a violation and find it. Each is a statement of the
repository's documents that the code does not keep:

* `scan_queue_claimed_ends`: `ClaimedEnds`, "Scan failures are visible and
  logged." (docs/art-plan.md:246). A job claimed by a request stays `running` for
  ever when its scan returns an error (api 1316-1329). `AbandonedIsStuck`
  shows that nothing rescues such a job, nor one whose worker died.
* `alert_delivery_once`: `AtMostOnce`, "Alert delivery is idempotent."
  (docs/art-plan.md:276) and workers that "can safely share the queue"
  (docs/deployment.md:52). The claim leaves an alert queued and due, so two
  replicas post it without any fault.
* `alert_delivery_retried`: `QueuedIsSettled`, "Retry failed alert."
  (docs/backlog.md:57). A retry keeps the spent attempts, so the alert says
  `queued` for ever.
* `membership_owner_controls`: `OwnerControls`, admins "manage assets, scans,
  alerts, and members except owner controls." (docs/security-model.md:50).
  `update_member_role` tests the role that is assigned and not the one the member
  has (api 925-935), so an admin makes an owner a plain member, with no other
  request under way. `OwnerlessIsFinal` is what that may lead to.

### Fairness

Weak fairness of a worker's claim and of its next step: the loop sleeps a
bounded time between ticks (worker 75-86), and scanner, database and Slack calls
end with a value or an error. The scanner sets timeouts; the Slack client has
none, so for alerts this is an assumption. So is that whoever deploys the worker
starts a process that ended again: the loop survives errors, not the end of its
process. The loop that stops when idle, `CEEM_WORKER_RUN_ONCE`, is not modelled.
Fairness of a worker's claim of an alert also supposes that no schedule is due
and no job queued often enough, since a tick looks at alerts last;
`AlertsServed` says when that is so. In `Scanner` weak fairness of the whole
next-state relation says only that a request comes to an end, which the clients'
timeouts of 4 and 10 seconds see to (scanner 113, 177); for the lookup of the
system's resolver it is an assumption. `BackoffElapses` is fair because a backoff
is a time in a row, and time goes on.

In `ScanSchedule` the steps that a failing tick may undo (`CommitDueScans`, the
claims) are strongly fair: of ticks that get so far again and again one
succeeds. Nothing is supposed of time or requests. A request in flight proceeds
or ends. Nothing is fair about clients' requests, about faults, or about a retry
by a user.

## Proofs

All theorems hold for any number of jobs, alerts, workers, requests, tasks, users
and URLs and any choice of faults and calls (but for the one about suppressed
alerts, below), under the named assumptions of the modules, which say only that bounds are numbers, that workers are not requests,
that calls, faults and observations are of the kinds defined, and, where a
property counts executors, that there are finitely many.

`ScanQueueProofs`. `SingleExecutor` is not inductive: that a claim is exclusive
follows from the row's status, so the invariant must say that whoever holds a
job holds one that is `running` (or, for a request past its commit,
`completed`). `IInv` adds `ExecutorsAgree`, which relates an executor's step to
what it holds, and `RowsAgree`, which relates each row to its results and
upserts. From it follow `TypeCorrect`, `SingleExecutorCorrect`,
`ResultFitsJobCorrect`, `CompletedIsWholeCorrect`, `WorkerFailureIsCleanCorrect`,
the action properties `AbandonedIsStuckCorrect` and `FinalStatusStaysCorrect`, and
`ImplementsLifecycleCorrect`: `Init` maps to the abstract `Init` and every step
to a step or a stutter of `JobLifecycle`. The refinement implies
`FinalStatusStays`, which is therefore proved and not run by itself.
`OvertakersDwindleCorrect` is the safety half of `QueuedIsClaimed`. Rows are dated
by the start of their transaction, so jobs inserted later may get ahead of a
queued one. But only transactions that were open when it was inserted and had
begun before it (`Overtakers`) can do so, and each of them ends by doing so: the
overtakers of a queued job only get fewer, and while they stay the same, so do
the jobs ahead of it. It rests on `DatesAgree`, inductive with `IInv`: nothing is
dated in the future, and nothing goes back to queued.

`AlertDeliveryProofs`. `IInv` is `TypeOK` with `DeliveriesAgree` (what a
delivery in progress says of its alert's row) and `AlertsAgree` (what a row says
of Slack). From it: `SentIsReceivedCorrect`, `SuppressedIsSilentCorrect`,
`AttemptsSpentOnceCorrect`, `ExhaustedIsLeftCorrect`, `SettledSentStaysCorrect`,
and `ImplementsLifecycleCorrect`: a claim maps to `Claim`, a post Slack takes to
`Post`, an outcome to `Record`, and so on; the steps of queueing an alert before
its insert, backoff and settings map to stutters. The other properties but
`AttemptsSpentOnce` follow from the refinement too, which is what TLC checks.

`PostsArePaidCorrect` is about cardinalities: a claim pays for one post with an
attempt and a request with its asking, and a post takes its deliverer out of
those that are about to post, whatever becomes of the answer. It needs no
hypothesis on the number of workers or requests, nor on faults.

`SuppressedHasOriginalCorrect` holds of some deployments only, and says of which:
it supposes `MinimumStays`, that the minimum severity is not changed; any number
of requests may queue alerts at once. With a minimum that is lowered it fails.
Its invariant `SuppressedForCause` is that whoever is about to suppress an alert
still has its cause: an original, once there, is never absent or suppressed
again.

`FindingLifecycleProofs`. `DraftsCorrect`: evidence yields known rules only,
none twice. `ScoreOnceMore`: the SQL on the old count equals the function on the
new one, whatever the caps do. `IInv` is `TypeOK` with `StatementsAgree` (a
request about to move a finding has just moved a task of it) and `RowsAgree` (a
finding is there if and only if it was counted, and only then has tasks). From
it: `RiskCorrect`, which needs `ScoreOnceMore`. `ResolutionIsDatedCorrect` is
inductive with it. `CountsDetectionsCorrect` is an
argument about cardinalities: an upsert takes its executor out of the finite set
of those that owe the finding as it adds one to the count, and a crash takes it
out as it takes one from `owed`. It needs that what an executor owes is owed
once (`DraftsDiffer`, from `DraftsCorrect`). `TaskAgreesCorrect` needs
`TasksAgree`: unless crossed, a finding has one mover at most, and what that one
is about to write is the status of the task it has moved, which is the finding's
`latest`. No hypothesis restricts requests or crashes.

`ScanScheduleProofs`. `HeldIsDue` needs `TransactionsAgree` (who holds rows is
in its transaction, and no row is held twice), since it is the lock that keeps
requests away; `Spaced` needs `NextRunsAgree`, that a next run a worker wrote
lies an interval after the last run, which is where the clock of the process
against that of the transaction matters. `NextRunFits` needs `HeldIsDue`, for a
commit leaves no manual row. `IInv` is their conjunction. From it:
`TypeCorrect`, `HeldIsDueCorrect`, `SpacedCorrect`, `NextRunFitsCorrect`, and
`ImplementsTimetableCorrect`: that a commit is a run of schedules still on and
due needs `HeldIsDue` and `NextRunFits`, and that its date has been needs
`TransactionsAgree`; every other step is an edit, the clock's, or a stutter.
The type invariant is proved and not run. `NobodyCutsInCorrect` is the safety half
of `DueIsEnqueued`: a run only moves schedules back, so that workers put none
before one that waits, and only edits can.

`AccountsProofs`. `TokenOnce` needs `RequestsAgree` (one reset at a time, with a
token not consumed); `ResetCloses` needs `ResetAgrees` (between its statement
and its commit the reset holds each session there was, unless revoked already);
`RefreshReplaces` needs that a request about to open a successor has revoked its
session, and that revoked is final. From `IInv`: `TypeCorrect`,
`TokenOnceCorrect`, `ResetClosesCorrect`, `RefreshReplacesCorrect`.

`RateLimitProofs`. Steps of the accounts are steps of the limit, so the argument
about the window is made for `RateLimit` alone and used by `AccountsProofs` in
`AdmittedPerWindowCorrect`. Its invariant `WindowsAgree` relates the counter to
the history: the admissions of the present window are the last ones, as many as
`attempts` says up to the limit (`PresentWindow`); windows lie more than an
interval apart, none has more admissions than the limit, and each starts at its
first (`WindowsApart`). That twice the limit of admissions take longer than a
window follows (`AdmittedFollows`): if the first of them is not the start of its
window, the one before it is in the same window, so that the last of them lies in
the third window and a whole one is in between.

`MembershipProofs`. `IInv` is `TypeOK` and `MembersAreInvited` with `Entitled`: a
request about to accept an invite has read it, at its own address.
`AcceptedByReaders` is about cardinalities again: an acceptance takes a request
out of the set of those that read the invite open, and nobody joins the set once
it was accepted. `LateByReaders` likewise: a late change takes a request out of
those that read the role in time (`InFlight`), none joins them while the role is
lost, and who leads has made no late change (`LeadersStartAgain`).
`OwnerlessIsFinal` goes through the actions: without an owner,
nobody may ask for ownership, and every offer of it has been accepted and can be
accepted by nobody else. From them: `LateByReadersCorrect`,
`MembersAreInvitedCorrect`, `AcceptedByReadersCorrect`, `OwnerlessIsFinalCorrect`.

`ScannerProofs`. `ProbeTellsThePath` needs `LocalsFitAnswers`: while the loop
runs, the turns are as many as the answers, each a redirect, and the next URL is
where the last one led. From `IInv`: `ProbeTellsThePathCorrect`,
`EvidenceCorrect` (what a scan returns is evidence the rules know),
`FindingsFitAnswersCorrect`, and `StepsRunOutCorrect`: every step takes from
`StepsLeft`, a number that starts at `MAX_REDIRECTS` + 2, which is the safety half
of `ScanEnds`; for any number of redirects allowed.

Only model-checked: the liveness properties (`QueuedIsClaimed`, `SubmittedEnds`,
`TriedUntilSpent`, `DueIsEnqueued`, `AlertsServed`, `ScanEnds`), since the prover
does not handle fairness. `OvertakersDwindle`, `NobodyCutsIn` and `StepsRunOut` are the
measures three of them rest on, and are proved. Every safety property of the passing runs is proved.

## Not modelled

* Of accounts: the buckets of routes other than login, times of expiry, the
  signature of session tokens, hashing, and the header that stands for a session
  in development.
* Of findings: notes added by themselves, texts and `risk_factors`. Of alerts:
  the message.
* Of the scanner: HTTP headers other than HSTS, status codes but for redirects,
  `tls` (no rule reads it), and how DNS answers are searched for records.
* Slack channels, which are created by a single insert and never changed.
* The audit log, which nothing reads back to decide: an error in writing it is a
  fault of the models.
* The validation and wording of names, notes and payloads; the queries of
  `crates/db`, which API and worker use to connect and migrate only; the
  dashboard, a client; the development seed.

## Plan

What is left, in order of what it would add.

1. A composition of `ScanQueue` and `FindingLifecycle`: a job's completion against
   the findings its evidence leaves, with `ScanQueue`'s `upserts` refined by
   `FindingLifecycle`'s rows.
2. Lifetimes of sessions and tokens against a clock, and the buckets of the other
   routes.
3. Measures, like `OvertakersDwindle`, for the other liveness properties, first of
   all the attempts of `TriedUntilSpent`.
