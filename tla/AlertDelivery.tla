--------------------------- MODULE AlertDelivery ---------------------------
(***************************************************************************)
(* The Slack alerts of one organization: rows of alerts and its alert      *)
(* settings, the API requests that queue, deliver and retry alerts         *)
(* (crates/api), the worker replicas that deliver them (crates/worker),    *)
(* and Slack as those two use it (crates/alerts).                          *)
(*                                                                         *)
(* An alert's number is its place in the order of insertion.  Every action *)
(* is one SQL statement or one answer from Slack.  The organization has an *)
(* enabled Slack channel: without one a request to queue an alert ends     *)
(* with a conflict and changes nothing.  Audit rows are not kept: they are *)
(* written after the statements modelled here or, in deliver_alert, before *)
(* the post, and an error in writing one ends the request or the tick as   *)
(* Abort does.                                                             *)
(***************************************************************************)
EXTENDS Naturals, FiniteSets

CONSTANTS
  MaxAlerts,    \* bound on the rows ever inserted into alerts
  MaxAttempts,  \* alerts.max_attempts, 3 in the schema
  MaxAsked,     \* bound on how often users ask to deliver one alert
  Findings,     \* findings alerts are about
  SeverityOf,   \* the severity of each finding, as severity_rank has it
  Minimums,     \* the minimum severities an admin may set
  Workers,      \* worker replicas
  Requests,     \* concurrent API requests
  Calls,        \* what the requests may ask for: see AllCalls
  Faults        \* what may go wrong: see FaultKinds

Severities == 0 .. 4
High       == 3

AllCalls == {"queue", "deliver", "retry", "settings"}

(* "refuse": Slack answers with an error; "lose": Slack takes the message   *)
(* but its answer is lost; "abort": a process dies, a client disconnects or *)
(* a SQL statement returns an error.                                        *)
FaultKinds == {"refuse", "lose", "abort"}

ASSUME AlertDeliveryAssumption ==
  /\ MaxAlerts \in Nat
  /\ MaxAttempts \in Nat \ {0}
  /\ MaxAsked \in Nat
  /\ SeverityOf \in [Findings -> Severities]
  /\ Minimums \subseteq Severities
  /\ Workers \cap Requests = {}
  /\ IsFiniteSet(Workers \cup Requests)
  /\ Calls \subseteq AllCalls
  /\ Faults \subseteq FaultKinds

Alerts  == 1 .. MaxAlerts
NoAlert == 0
Actors  == Workers \cup Requests

Statuses == {"absent", "queued", "sent", "failed", "suppressed"}

(* Steps of a delivery, and of a request that queues an alert.             *)
DeliverySteps == {"posting", "accepted", "refused"}
QueueingSteps == {"checking", "queueing", "muting", "masking"}
Steps         == {"idle"} \cup DeliverySteps \cup QueueingSteps

VARIABLES
  inserted,  \* how many alerts have been inserted
  status,    \* alerts.status, "absent" before the insert
  about,     \* alerts.finding_id
  attempts,  \* alerts.attempts
  due,       \* next_attempt_at is NULL or past
  sentAt,    \* sent_at is not NULL
  received,  \* how often Slack took the message
  asked,     \* how often a request set out to deliver it
  minimum,   \* organization_alert_settings.minimum_severity
  horizon,   \* alerts up to this number are older than the window
  pc,        \* where each executor is
  item,      \* the alert each executor is delivering
  attempt,   \* the attempt it makes, as the claim returned it (workers)
  finding,   \* the finding it queues an alert for (requests)
  cut        \* the horizon of the settings it has read (requests)

deliveryVars == <<attempts, due, sentAt, received, asked>>
settingsVars == <<minimum, horizon>>
actorVars    == <<pc, item, attempt, finding, cut>>
vars == <<inserted, status, about, attempts, due, sentAt, received, asked,
          minimum, horizon, pc, item, attempt, finding, cut>>

RowTypes ==
  /\ inserted \in 0 .. MaxAlerts
  /\ status \in [Alerts -> Statuses]
  /\ about \in [Alerts -> Findings \cup {"none"}]
  /\ attempts \in [Alerts -> 0 .. MaxAttempts]
  /\ due \in [Alerts -> BOOLEAN]
  /\ sentAt \in [Alerts -> BOOLEAN]
  /\ received \in [Alerts -> Nat]
  /\ asked \in [Alerts -> 0 .. MaxAsked]
  /\ minimum \in Severities
  /\ horizon \in 0 .. MaxAlerts

ActorTypes ==
  /\ pc \in [Actors -> Steps]
  /\ item \in [Actors -> Alerts \cup {NoAlert}]
  /\ attempt \in [Actors -> 0 .. MaxAttempts]
  /\ finding \in [Actors -> Findings \cup {"none"}]
  /\ cut \in [Actors -> 0 .. MaxAlerts]

TypeOK == RowTypes /\ ActorTypes

Init ==
  /\ inserted = 0
  /\ status = [a \in Alerts |-> "absent"]
  /\ about = [a \in Alerts |-> "none"]
  /\ attempts = [a \in Alerts |-> 0]
  /\ due = [a \in Alerts |-> TRUE]
  /\ sentAt = [a \in Alerts |-> FALSE]
  /\ received = [a \in Alerts |-> 0]
  /\ asked = [a \in Alerts |-> 0]
  /\ minimum = High
  /\ horizon = 0
  /\ pc = [x \in Actors |-> "idle"]
  /\ item = [x \in Actors |-> NoAlert]
  /\ attempt = [x \in Actors |-> 0]
  /\ finding = [x \in Actors |-> "none"]
  /\ cut = [x \in Actors |-> 0]

-----------------------------------------------------------------------------
(* Executors.                                                              *)

(* Executor x moves from one step to the next.                             *)
Goto(x, from, to) ==
  /\ pc[x] = from
  /\ pc' = [pc EXCEPT ![x] = to]

(* Executor x takes alert a, on attempt n, to post it.                     *)
Take(x, a, n) ==
  /\ Goto(x, "idle", "posting")
  /\ item' = [item EXCEPT ![x] = a]
  /\ attempt' = [attempt EXCEPT ![x] = n]
  /\ UNCHANGED <<finding, cut>>

(* Executor x forgets what it was doing.                                   *)
Release(x) ==
  /\ pc' = [pc EXCEPT ![x] = "idle"]
  /\ item' = [item EXCEPT ![x] = NoAlert]
  /\ attempt' = [attempt EXCEPT ![x] = 0]
  /\ finding' = [finding EXCEPT ![x] = "none"]
  /\ cut' = [cut EXCEPT ![x] = 0]

Abort(x) ==
  /\ "abort" \in Faults
  /\ pc[x] # "idle"
  /\ Release(x)
  /\ UNCHANGED <<inserted, status, about, deliveryVars, settingsVars>>

-----------------------------------------------------------------------------
(* Slack: a post ends with its answer, which need not say whether the      *)
(* message was taken.                                                      *)

(* Mutant: an answer is taken for a success whatever its status code.      *)
PostTrusted(x) ==
  \/ /\ Goto(x, "posting", "accepted")
     /\ received' = [received EXCEPT ![item[x]] = @ + 1]
     /\ UNCHANGED <<inserted, status, about, attempts, due, sentAt, asked,
                    settingsVars, item, attempt, finding, cut>>
  \/ /\ "refuse" \in Faults
     /\ Goto(x, "posting", "accepted")
     /\ UNCHANGED <<inserted, status, about, deliveryVars, settingsVars, item,
                    attempt, finding, cut>>

(* Mutant: the client posts again when no answer comes.                    *)
PostUntilAnswered(x) ==
  \/ /\ \/ Goto(x, "posting", "accepted")
        \/ "lose" \in Faults /\ Goto(x, "posting", "posting")
     /\ received[item[x]] < 9
     /\ received' = [received EXCEPT ![item[x]] = @ + 1]
     /\ UNCHANGED <<inserted, status, about, attempts, due, sentAt, asked,
                    settingsVars, item, attempt, finding, cut>>
  \/ /\ "refuse" \in Faults
     /\ Goto(x, "posting", "refused")
     /\ UNCHANGED <<inserted, status, about, deliveryVars, settingsVars, item,
                    attempt, finding, cut>>

DeliverSlackMessage(x) ==
  \/ /\ \/ Goto(x, "posting", "accepted")
        \/ "lose" \in Faults /\ Goto(x, "posting", "refused")
     /\ received' = [received EXCEPT ![item[x]] = @ + 1]
     /\ UNCHANGED <<inserted, status, about, attempts, due, sentAt, asked,
                    settingsVars, item, attempt, finding, cut>>
  \/ /\ "refuse" \in Faults
     /\ Goto(x, "posting", "refused")
     /\ UNCHANGED <<inserted, status, about, deliveryVars, settingsVars, item,
                    attempt, finding, cut>>

-----------------------------------------------------------------------------
(* The worker's delivery.                                                  *)

(* Mutant: the attempts an alert has used up are not looked at.            *)
ClaimableForever(a) ==
  /\ status[a] \in {"queued", "failed"}
  /\ due[a]

(* Mutant: a failed alert is left to retry_alert.                          *)
ClaimableOnce(a) ==
  /\ status[a] = "queued"
  /\ attempts[a] < MaxAttempts
  /\ due[a]

Claimable(a) ==
  /\ status[a] \in {"queued", "failed"}
  /\ attempts[a] < MaxAttempts
  /\ due[a]

(* A statement that updates alert a may be in flight and hold its row.     *)
MayBeLocked(a) ==
  \/ \E x \in Actors : item[x] = a /\ pc[x] \in {"accepted", "refused"}
  \/ status[a] = "failed" /\ "retry" \in Calls

(* ORDER BY created_at ... SKIP LOCKED: the oldest alert not locked.       *)
IsNext(a) ==
  /\ Claimable(a)
  /\ \A b \in Alerts : Claimable(b) /\ ~MayBeLocked(b) => a <= b

(* The claim neither hides the row from the next claim (locked_at is       *)
(* written but never read, next_attempt_at stays) nor leaves "queued".     *)
ClaimNextAlert(w, a) ==
  /\ IsNext(a)
  /\ Take(w, a, attempts[a] + 1)
  /\ status' = [status EXCEPT ![a] = "queued"]
  /\ attempts' = [attempts EXCEPT ![a] = @ + 1]
  /\ UNCHANGED <<inserted, about, due, sentAt, received, asked, settingsVars>>

(* update_alert_delivery(.., Sent, now, NULL, NULL).                       *)
WorkerRecordsSent(w) ==
  /\ pc[w] = "accepted"
  /\ status' = [status EXCEPT ![item[w]] = "sent"]
  /\ sentAt' = [sentAt EXCEPT ![item[w]] = TRUE]
  /\ due' = [due EXCEPT ![item[w]] = TRUE]
  /\ Release(w)
  /\ UNCHANGED <<inserted, about, attempts, received, asked, settingsVars>>

(* update_alert_delivery(.., Failed, NULL, retry_at, ..): the last attempt *)
(* leaves next_attempt_at NULL, an earlier one puts it retry_backoff away. *)
WorkerRecordsFailed(w) ==
  /\ pc[w] = "refused"
  /\ status' = [status EXCEPT ![item[w]] = "failed"]
  /\ sentAt' = [sentAt EXCEPT ![item[w]] = FALSE]
  /\ due' = [due EXCEPT ![item[w]] = attempt[w] >= MaxAttempts]
  /\ Release(w)
  /\ UNCHANGED <<inserted, about, attempts, received, asked, settingsVars>>

WorkerProceeds(w) ==
  \/ DeliverSlackMessage(w)
  \/ WorkerRecordsSent(w)
  \/ WorkerRecordsFailed(w)

BackoffElapses(a) ==
  /\ ~due[a]
  /\ due' = [due EXCEPT ![a] = TRUE]
  /\ UNCHANGED <<inserted, status, about, attempts, sentAt, received, asked,
                 settingsVars, actorVars>>

-----------------------------------------------------------------------------
(* deliver_alert and retry_alert.                                          *)

(* The status is read, the post comes later, and nothing claims the row.   *)
DeliverAlert(r, a) ==
  /\ "deliver" \in Calls
  /\ status[a] = "queued"
  /\ asked[a] < MaxAsked
  /\ Take(r, a, 0)
  /\ asked' = [asked EXCEPT ![a] = @ + 1]
  /\ UNCHANGED <<inserted, status, about, attempts, due, sentAt, received,
                 settingsVars>>

(* update_alert_delivery of the API: attempts and next_attempt_at stay.    *)
RequestRecords(r) ==
  /\ pc[r] \in {"accepted", "refused"}
  /\ status' = [status EXCEPT ![item[r]] =
                  IF pc[r] = "accepted" THEN "sent" ELSE "failed"]
  /\ sentAt' = [sentAt EXCEPT ![item[r]] = pc[r] = "accepted"]
  /\ Release(r)
  /\ UNCHANGED <<inserted, about, attempts, due, received, asked, settingsVars>>

(* Mutant: a retry starts the attempts afresh.                             *)
RetryAfresh(a) ==
  /\ "retry" \in Calls
  /\ status[a] = "failed"
  /\ status' = [status EXCEPT ![a] = "queued"]
  /\ due' = [due EXCEPT ![a] = TRUE]
  /\ attempts' = [attempts EXCEPT ![a] = 0]
  /\ UNCHANGED <<inserted, about, sentAt, received, asked, settingsVars,
                 actorVars>>

(* The attempts already made still count.                                  *)
RetryAlert(a) ==
  /\ "retry" \in Calls
  /\ status[a] = "failed"
  /\ status' = [status EXCEPT ![a] = "queued"]
  /\ due' = [due EXCEPT ![a] = TRUE]
  /\ UNCHANGED <<inserted, about, attempts, sentAt, received, asked,
                 settingsVars, actorVars>>

-----------------------------------------------------------------------------
(* queue_slack_alert: the settings are read, then the alerts of the        *)
(* finding, and then a row is inserted.                                    *)

(* Mutant: a finding as severe as the minimum is muted.                    *)
MuteAtMinimum(r, f) ==
  /\ "queue" \in Calls
  /\ inserted < MaxAlerts
  /\ Goto(r, "idle", IF SeverityOf[f] <= minimum THEN "muting" ELSE "checking")
  /\ finding' = [finding EXCEPT ![r] = f]
  /\ cut' = [cut EXCEPT ![r] = horizon]
  /\ UNCHANGED <<inserted, status, about, deliveryVars, settingsVars, item,
                 attempt>>

ReadSettings(r, f) ==
  /\ "queue" \in Calls
  /\ inserted < MaxAlerts
  /\ Goto(r, "idle", IF SeverityOf[f] < minimum THEN "muting" ELSE "checking")
  /\ finding' = [finding EXCEPT ![r] = f]
  /\ cut' = [cut EXCEPT ![r] = horizon]
  /\ UNCHANGED <<inserted, status, about, deliveryVars, settingsVars, item,
                 attempt>>

(* Some alert of finding f in the window is queued, sent or suppressed.    *)
ActiveAlertForFinding(f, h) ==
  \E a \in Alerts : /\ a > h
                    /\ about[a] = f
                    /\ status[a] \in {"queued", "sent", "suppressed"}

CheckActive(r) ==
  /\ Goto(r, "checking", IF ActiveAlertForFinding(finding[r], cut[r])
                         THEN "masking" ELSE "queueing")
  /\ UNCHANGED <<inserted, status, about, deliveryVars, settingsVars, item,
                 attempt, finding, cut>>

InsertAlert(r) ==
  /\ pc[r] \in {"queueing", "muting", "masking"}
  /\ inserted < MaxAlerts
  /\ inserted' = inserted + 1
  /\ status' = [status EXCEPT ![inserted + 1] =
                  IF pc[r] = "queueing" THEN "queued" ELSE "suppressed"]
  /\ about' = [about EXCEPT ![inserted + 1] = finding[r]]
  /\ Release(r)
  /\ UNCHANGED <<deliveryVars, settingsVars>>

(* Time passes: more alerts become older than the window.                  *)
WindowMoves ==
  /\ horizon' \in horizon + 1 .. inserted
  /\ UNCHANGED <<inserted, status, about, deliveryVars, minimum, actorVars>>

(* The window may become longer or shorter.                                *)
UpdateAlertSettings ==
  /\ "settings" \in Calls
  /\ minimum' \in Minimums
  /\ horizon' \in 0 .. inserted
  /\ UNCHANGED <<inserted, status, about, deliveryVars, actorVars>>

RequestProceeds(r) ==
  \/ CheckActive(r)
  \/ InsertAlert(r)
  \/ DeliverSlackMessage(r)
  \/ RequestRecords(r)

-----------------------------------------------------------------------------
Next ==
  \/ \E w \in Workers :
       \/ \E a \in Alerts : ClaimNextAlert(w, a)
       \/ WorkerProceeds(w)
       \/ Abort(w)
  \/ \E r \in Requests :
       \/ \E f \in Findings : ReadSettings(r, f)
       \/ \E a \in Alerts : DeliverAlert(r, a)
       \/ RequestProceeds(r)
       \/ Abort(r)
  \/ \E a \in Alerts : RetryAlert(a) \/ BackoffElapses(a)
  \/ UpdateAlertSettings
  \/ WindowMoves

Spec == Init /\ [][Next]_vars

(* A worker's loop never stops for good and a post ends with an answer or  *)
(* an error.  That a worker gets to claim an alert supposes that it finds  *)
(* the scan queue empty often enough: a tick serves alerts last.  Nothing  *)
(* makes users queue, deliver or retry alerts.                             *)
Fairness ==
  /\ \A w \in Workers : /\ WF_vars(\E a \in Alerts : ClaimNextAlert(w, a))
                        /\ WF_vars(WorkerProceeds(w))
  /\ \A r \in Requests : WF_vars(RequestProceeds(r))
  /\ \A a \in Alerts : WF_vars(BackoffElapses(a))

FairSpec == Spec /\ Fairness

-----------------------------------------------------------------------------
(* Properties.                                                             *)

(* An alert shown as sent, which is one with a time of sending, was taken  *)
(* by Slack, although workers and requests overwrite each other's outcome  *)
(* and a late failure may follow a success.                                *)
SentIsReceived ==
  \A a \in Alerts : /\ status[a] = "sent" <=> sentAt[a]
                    /\ status[a] = "sent" => received[a] > 0

(* A suppressed alert is never posted, whatever users do with it later.    *)
SuppressedIsSilent ==
  \A a \in Alerts : status[a] = "suppressed" =>
    /\ received[a] = 0
    /\ attempts[a] = 0
    /\ \A x \in Actors : item[x] # a

(* Workers may well deliver the same alert at the same time, but each      *)
(* spends another one of its attempts, so that workers post it at most     *)
(* MaxAttempts times and one of them at most makes the last attempt.       *)
AttemptsSpentOnce ==
  \A w \in Workers : item[w] # NoAlert =>
    /\ attempt[w] \in 1 .. attempts[item[w]]
    /\ \A v \in Workers : item[v] = item[w] /\ attempt[v] = attempt[w] => v = w

(* No worker ever takes an alert whose attempts are spent, not even after  *)
(* a user has retried it and it says queued.                               *)
ExhaustedIsLeft ==
  [][\A a \in Alerts : attempts[a] = MaxAttempts =>
       \A w \in Workers : item'[w] = a => item[w] = a]_vars

Deliverers(a) == {x \in Actors : item[x] = a}

(* Once nobody is delivering a sent alert any more it stays sent and is    *)
(* never posted again.                                                     *)
SettledSentStays ==
  [][\A a \in Alerts : status[a] = "sent" /\ Deliverers(a) = {}
       => /\ status'[a] = "sent"
          /\ received'[a] = received[a]
          /\ Deliverers(a)' = {}]_vars

Posting(a) == {x \in Deliverers(a) : pc[x] = "posting"}

(* Every message Slack has or may yet get is paid for, by an attempt of    *)
(* the alert's or by a user who asked for it: however many workers and     *)
(* requests race and whatever answers are lost, an alert is posted no      *)
(* oftener than MaxAttempts and the users allow.                           *)
PostsArePaid ==
  \A a \in Alerts : received[a] + Cardinality(Posting(a)) <= attempts[a] + asked[a]

(* Slack takes the message of an alert at most once.                       *)
AtMostOnce == \A a \in Alerts : received[a] <= 1

(* A finding severe enough to be alerted on has a suppressed alert only    *)
(* where another one was queued for delivery.                              *)
SuppressedHasOriginal ==
  \A a \in Alerts :
    status[a] = "suppressed" /\ SeverityOf[about[a]] >= minimum
      => \E b \in Alerts : /\ about[b] = about[a]
                           /\ status[b] \in {"queued", "sent", "failed"}

(* A queued or failed alert is tried again until Slack has taken it or its *)
(* attempts are spent, also when workers crash in the middle of one.       *)
TriedUntilSpent ==
  \A a \in Alerts : status[a] \in {"queued", "failed"}
                      ~> status[a] = "sent" \/ attempts[a] = MaxAttempts

(* A queued alert comes to be sent or failed.                              *)
QueuedIsSettled ==
  \A a \in Alerts : status[a] = "queued" ~> status[a] \in {"sent", "failed"}

(* Whatever workers, requests, Slack and faults do, an alert lives as      *)
(* AlertLifecycle says: in particular one shown as sent was taken, one     *)
(* that is suppressed is never posted, one whose attempts are spent is     *)
(* never claimed again, and once nobody is delivering a sent alert it      *)
(* stays sent and is posted no more.                                       *)
Lifecycle == INSTANCE AlertLifecycle WITH
               holders <- [a \in Alerts |-> Deliverers(a)]
ImplementsLifecycle == Lifecycle!Spec

(* How the rows and the executors that deliver them agree: the inductive   *)
(* strengthening of the invariants above.                                  *)
Delivering(x) ==
  /\ status[item[x]] \in {"queued", "sent", "failed"}
  /\ pc[x] = "accepted" => received[item[x]] > 0

DeliveriesAgree ==
  \A x \in Actors : /\ pc[x] \in DeliverySteps <=> item[x] # NoAlert
                    /\ item[x] # NoAlert => Delivering(x)

AlertsAgree ==
  \A a \in Alerts :
    /\ a > inserted <=> status[a] = "absent"
    /\ status[a] \in {"absent", "suppressed"} => received[a] = 0 /\ attempts[a] = 0

IInv ==
  /\ TypeOK
  /\ DeliveriesAgree
  /\ AlertsAgree
  /\ SentIsReceived
  /\ SuppressedIsSilent
  /\ AttemptsSpentOnce
-----------------------------------------------------------------------------
(* What keeps SuppressedHasOriginal, which not every deployment has.       *)

(* The minimum severity stays what it is by default.                       *)
MinimumStays == "settings" \in Calls => Minimums \subseteq {High}

HasOriginal(f) ==
  \E b \in Alerts : about[b] = f /\ status[b] \in {"queued", "sent", "failed"}

(* Whoever is about to suppress an alert of a finding has found it below   *)
(* the minimum, or an original of it.                                      *)
SuppressedForCause ==
  /\ minimum = High
  /\ \A r \in Requests :
       /\ pc[r] \in QueueingSteps => finding[r] \in Findings
       /\ pc[r] = "muting" => SeverityOf[finding[r]] < High
       /\ pc[r] = "masking" => SeverityOf[finding[r]] < High \/ HasOriginal(finding[r])
=============================================================================
