------------------------ MODULE AlertDeliveryProofs ------------------------
(***************************************************************************)
(* Proofs about alert delivery, for every number of alerts, attempts,      *)
(* workers and requests and every combination of calls and faults: type    *)
(* correctness, the safety invariants through the inductive invariant      *)
(* IInv, the properties of steps, the bound on the messages of an alert,   *)
(* the refinement of AlertLifecycle, and why alerts are suppressed.        *)
(***************************************************************************)
EXTENDS AlertDelivery, FiniteSetTheorems, TLAPS

-----------------------------------------------------------------------------
(* Type correctness.                                                       *)

LEMMA ReleaseTypes ==
  ASSUME ActorTypes, NEW x \in Actors, Release(x)
  PROVE  ActorTypes'
<1>1. pc' \in [Actors -> Steps] /\ item' \in [Actors -> Alerts \cup {NoAlert}]
  BY DEF ActorTypes, Release, Steps
<1>2. 0 \in 0 .. MaxAttempts /\ 0 \in 0 .. MaxAlerts
  BY AlertDeliveryAssumption
<1>3. attempt' \in [Actors -> 0 .. MaxAttempts] /\ cut' \in [Actors -> 0 .. MaxAlerts]
  BY <1>2 DEF ActorTypes, Release
<1>4. finding' \in [Actors -> Findings \cup {"none"}]
  BY DEF ActorTypes, Release
<1>5. QED
  BY <1>1, <1>3, <1>4 DEF ActorTypes

LEMMA TakeTypes ==
  ASSUME ActorTypes, NEW x \in Actors, NEW a \in Alerts,
         NEW n \in 0 .. MaxAttempts, Take(x, a, n)
  PROVE  ActorTypes'
<1>1. pc' \in [Actors -> Steps]
  BY DEF ActorTypes, Take, Goto, Steps, DeliverySteps
<1>2. item' \in [Actors -> Alerts \cup {NoAlert}] /\ attempt' \in [Actors -> 0 .. MaxAttempts]
  BY DEF ActorTypes, Take
<1>3. QED
  BY <1>1, <1>2 DEF ActorTypes, Take

LEMMA GotoTypes ==
  ASSUME ActorTypes, NEW x \in Actors, NEW from, NEW to \in Steps,
         Goto(x, from, to)
  PROVE  pc' \in [Actors -> Steps]
BY DEF ActorTypes, Goto

LEMMA PostTypes ==
  ASSUME TypeOK, NEW x \in Actors, DeliverSlackMessage(x)
  PROVE  TypeOK'
<1> USE DEF settingsVars, deliveryVars
<1>1. {"accepted", "refused"} \subseteq Steps
  BY DEF Steps, DeliverySteps
<1>2. pc' \in [Actors -> Steps]
  BY <1>1, GotoTypes DEF TypeOK, DeliverSlackMessage
<1>4. received' \in [Alerts -> Nat]
  <2>1. CASE UNCHANGED received
    BY <2>1 DEF TypeOK, RowTypes
  <2>2. CASE received' = [received EXCEPT ![item[x]] = @ + 1]
    <3>1. item[x] \in Alerts => received[item[x]] + 1 \in Nat
      BY DEF TypeOK, RowTypes
    <3>2. received \in [Alerts -> Nat]
      BY DEF TypeOK, RowTypes
    <3>3. QED
      BY <2>2, <3>1, <3>2
  <2>3. QED
    BY <2>1, <2>2 DEF DeliverSlackMessage
<1>5. QED
  BY <1>2, <1>4 DEF TypeOK, RowTypes, ActorTypes, DeliverSlackMessage

LEMMA TypeInit == Init => TypeOK
<1> SUFFICES ASSUME Init PROVE TypeOK
  OBVIOUS
<1>1. RowTypes
  BY AlertDeliveryAssumption DEF Init, RowTypes, Statuses, Severities, High
<1>2. ActorTypes
  BY AlertDeliveryAssumption DEF Init, ActorTypes, Steps
<1>3. QED
  BY <1>1, <1>2 DEF TypeOK

LEMMA TypeStep == TypeOK /\ [Next]_vars => TypeOK'
<1> SUFFICES ASSUME TypeOK, RowTypes, ActorTypes, [Next]_vars
             PROVE  TypeOK'
  BY DEF TypeOK
<1> USE DEF settingsVars, deliveryVars, actorVars
<1>a. Workers \subseteq Actors /\ Requests \subseteq Actors
  BY DEF Actors
<1>b. MaxAttempts \in Nat /\ MaxAlerts \in Nat
  BY AlertDeliveryAssumption
<1>c. {"queued", "sent", "failed", "suppressed"} \subseteq Statuses
  BY DEF Statuses
<1>1. ASSUME NEW w \in Workers, NEW a \in Alerts, ClaimNextAlert(w, a)
      PROVE  TypeOK'
  <2>1. attempts[a] \in 0 .. MaxAttempts /\ attempts[a] < MaxAttempts
    BY <1>1 DEF RowTypes, ClaimNextAlert, IsNext, Claimable
  <2>2. attempts[a] + 1 \in 0 .. MaxAttempts
    BY <1>b, <2>1
  <2>3. ActorTypes'
    BY <1>1, <1>a, <2>2, TakeTypes DEF ClaimNextAlert
  <2>4. attempts' \in [Alerts -> 0 .. MaxAttempts]
    BY <1>1, <2>2 DEF RowTypes, ClaimNextAlert
  <2>5. status' \in [Alerts -> Statuses]
    BY <1>1, <1>c DEF RowTypes, ClaimNextAlert
  <2>6. QED
    BY <1>1, <2>3, <2>4, <2>5 DEF TypeOK, RowTypes, ClaimNextAlert
<1>2. ASSUME NEW x \in Actors, DeliverSlackMessage(x) PROVE TypeOK'
  BY <1>2, PostTypes
<1>3. ASSUME NEW w \in Workers, WorkerRecordsSent(w) \/ WorkerRecordsFailed(w)
      PROVE  TypeOK'
  <2>1. ActorTypes'
    BY <1>3, <1>a, ReleaseTypes DEF WorkerRecordsSent, WorkerRecordsFailed
  <2>2. status' \in [Alerts -> Statuses]
    BY <1>3, <1>c DEF RowTypes, WorkerRecordsSent, WorkerRecordsFailed
  <2>3. sentAt' \in [Alerts -> BOOLEAN]
    BY <1>3 DEF RowTypes, WorkerRecordsSent, WorkerRecordsFailed
  <2>4. due' \in [Alerts -> BOOLEAN]
    <3>1. CASE WorkerRecordsSent(w)
      BY <3>1 DEF RowTypes, WorkerRecordsSent
    <3>2. CASE WorkerRecordsFailed(w)
      <4> DEFINE last == attempt[w] >= MaxAttempts
      <4>1. last \in BOOLEAN
        OBVIOUS
      <4>2. due' = [due EXCEPT ![item[w]] = last]
        BY <3>2 DEF WorkerRecordsFailed
      <4> HIDE DEF last
      <4>3. QED
        BY <4>1, <4>2 DEF RowTypes
    <3>3. QED
      BY <1>3, <3>1, <3>2
  <2>5. QED
    BY <1>3, <2>1, <2>2, <2>3, <2>4
       DEF TypeOK, RowTypes, WorkerRecordsSent, WorkerRecordsFailed
<1>4. ASSUME NEW x \in Actors, Abort(x) PROVE TypeOK'
  <2>1. ActorTypes'
    BY <1>4, ReleaseTypes DEF Abort
  <2>2. QED
    BY <1>4, <2>1 DEF TypeOK, RowTypes, Abort
<1>5. ASSUME NEW r \in Requests, NEW f \in Findings, ReadSettings(r, f)
      PROVE  TypeOK'
  <2>1. {"muting", "checking"} \subseteq Steps
    BY DEF Steps, QueueingSteps
  <2>2. pc' \in [Actors -> Steps]
    BY <1>5, <1>a, <2>1, GotoTypes DEF ReadSettings
  <2>3. cut' \in [Actors -> 0 .. MaxAlerts]
    BY <1>5 DEF ActorTypes, RowTypes, ReadSettings
  <2>4. finding' \in [Actors -> Findings \cup {"none"}]
    BY <1>5 DEF ActorTypes, ReadSettings
  <2>5. QED
    BY <1>5, <2>2, <2>3, <2>4 DEF TypeOK, RowTypes, ActorTypes, ReadSettings
<1>6. ASSUME NEW r \in Requests, CheckActive(r) PROVE TypeOK'
  <2>1. {"masking", "queueing"} \subseteq Steps
    BY DEF Steps, QueueingSteps
  <2>2. pc' \in [Actors -> Steps]
    BY <1>6, <1>a, <2>1, GotoTypes DEF CheckActive
  <2>3. QED
    BY <1>6, <2>2 DEF TypeOK, RowTypes, ActorTypes, CheckActive
<1>7. ASSUME NEW r \in Requests, InsertAlert(r) PROVE TypeOK'
  <2>1. ActorTypes'
    BY <1>7, <1>a, ReleaseTypes DEF InsertAlert
  <2>2. inserted' \in 0 .. MaxAlerts
    BY <1>7, <1>b DEF RowTypes, InsertAlert
  <2>3. status' \in [Alerts -> Statuses]
    BY <1>7, <1>c DEF RowTypes, InsertAlert
  <2>4. about' \in [Alerts -> Findings \cup {"none"}]
    BY <1>7, <1>a DEF RowTypes, ActorTypes, InsertAlert
  <2>5. QED
    BY <1>7, <2>1, <2>2, <2>3, <2>4 DEF TypeOK, RowTypes, InsertAlert
<1>8. ASSUME NEW r \in Requests, NEW a \in Alerts, DeliverAlert(r, a)
      PROVE  TypeOK'
  <2>1. ActorTypes'
    BY <1>8, <1>a, <1>b, TakeTypes DEF DeliverAlert
  <2>2. asked[a] + 1 \in 0 .. MaxAsked
    BY <1>8, AlertDeliveryAssumption DEF RowTypes, DeliverAlert
  <2>3. asked' \in [Alerts -> 0 .. MaxAsked]
    BY <1>8, <2>2 DEF RowTypes, DeliverAlert
  <2>4. QED
    BY <1>8, <2>1, <2>3 DEF TypeOK, RowTypes, DeliverAlert
<1>9. ASSUME NEW r \in Requests, RequestRecords(r) PROVE TypeOK'
  <2>1. ActorTypes'
    BY <1>9, <1>a, ReleaseTypes DEF RequestRecords
  <2>2. status' \in [Alerts -> Statuses]
    BY <1>9, <1>c DEF RowTypes, RequestRecords
  <2>3. sentAt' \in [Alerts -> BOOLEAN]
    BY <1>9 DEF RowTypes, RequestRecords
  <2>4. QED
    BY <1>9, <2>1, <2>2, <2>3 DEF TypeOK, RowTypes, RequestRecords
<1>10. ASSUME NEW a \in Alerts, RetryAlert(a) \/ BackoffElapses(a)
       PROVE  TypeOK'
  <2>1. status' \in [Alerts -> Statuses] /\ due' \in [Alerts -> BOOLEAN]
    BY <1>10, <1>c DEF RowTypes, RetryAlert, BackoffElapses
  <2>2. QED
    BY <1>10, <2>1 DEF TypeOK, RowTypes, ActorTypes, RetryAlert, BackoffElapses
<1>11. ASSUME WindowMoves \/ UpdateAlertSettings PROVE TypeOK'
  <2>1. horizon' \in 0 .. MaxAlerts
    BY <1>11, <1>b DEF RowTypes, WindowMoves, UpdateAlertSettings
  <2>2. minimum' \in Severities
    BY <1>11, AlertDeliveryAssumption DEF RowTypes, WindowMoves, UpdateAlertSettings
  <2>3. QED
    BY <1>11, <2>1, <2>2
       DEF TypeOK, RowTypes, ActorTypes, WindowMoves, UpdateAlertSettings
<1>12. CASE UNCHANGED vars
  BY <1>12 DEF vars, TypeOK, RowTypes, ActorTypes
<1>13. QED
  BY <1>1, <1>2, <1>3, <1>4, <1>5, <1>6, <1>7, <1>8, <1>9, <1>10, <1>11, <1>12, <1>a
     DEF Next, WorkerProceeds, RequestProceeds

(* Every reachable state is of the types TypeOK gives; in particular no    *)
(* alert ever counts more attempts than MaxAttempts.                       *)
THEOREM TypeCorrect == Spec => []TypeOK
<1>1. Init => TypeOK
  BY TypeInit
<1>2. TypeOK /\ [Next]_vars => TypeOK'
  BY TypeStep
<1>3. QED
  BY <1>1, <1>2, PTL DEF Spec

-----------------------------------------------------------------------------
(* Safety.                                                                 *)

(* Delivering(x) for the alert x holds, and none for an executor that      *)
(* holds none.                                                             *)
Agrees(x) == /\ pc[x] \in DeliverySteps <=> item[x] # NoAlert
             /\ item[x] # NoAlert => Delivering(x)

LEMMA SafetyInit == Init => IInv
<1> SUFFICES ASSUME Init PROVE IInv
  OBVIOUS
<1>1. TypeOK
  BY TypeInit
<1>2. DeliveriesAgree
  BY DEF Init, DeliveriesAgree, DeliverySteps
<1>3. AlertsAgree
  BY DEF Init, AlertsAgree, Alerts
<1>4. SentIsReceived /\ SuppressedIsSilent /\ AttemptsSpentOnce
  BY DEF Init, SentIsReceived, SuppressedIsSilent, AttemptsSpentOnce, Actors
<1>5. QED
  BY <1>1, <1>2, <1>3, <1>4 DEF IInv

(* What an executor is doing stays in agreement when its own place and its *)
(* alert's status class and count of receipts do.                          *)
LEMMA AgreesFrame ==
  ASSUME NEW x \in Actors, Agrees(x),
         pc'[x] = pc[x], item'[x] = item[x],
         item[x] # NoAlert =>
           /\ status'[item[x]] \in {"queued", "sent", "failed"}
           /\ received[item[x]] > 0 => received'[item[x]] > 0
  PROVE  Agrees(x)'
BY DEF Agrees, Delivering

LEMMA ReleaseAgrees ==
  ASSUME TypeOK, NEW x \in Actors, Release(x)
  PROVE  /\ Agrees(x)'
         /\ \A y \in Actors : y # x => /\ pc'[y] = pc[y]
                                      /\ item'[y] = item[y]
                                      /\ attempt'[y] = attempt[y]
BY DEF TypeOK, ActorTypes, Release, Agrees, DeliverySteps

LEMMA DeliveriesStep ==
  TypeOK /\ DeliveriesAgree /\ AlertsAgree /\ [Next]_vars => DeliveriesAgree'
<1> SUFFICES ASSUME TypeOK, DeliveriesAgree, AlertsAgree, [Next]_vars,
                    NEW y \in Actors
             PROVE  Agrees(y)'
  BY DEF DeliveriesAgree, Agrees
<1> USE DEF settingsVars, deliveryVars, actorVars
<1>a. Workers \subseteq Actors /\ Requests \subseteq Actors
  BY DEF Actors
<1>b. RowTypes /\ ActorTypes
  BY DEF TypeOK
<1>c. Agrees(y) /\ \A x \in Actors : Agrees(x)
  BY DEF DeliveriesAgree, Agrees
<1>d. item[y] # NoAlert => item[y] \in Alerts
  BY <1>b DEF ActorTypes
<1>e. item[y] # NoAlert => status[item[y]] \in {"queued", "sent", "failed"}
  BY <1>c DEF Agrees, Delivering
<1>1. ASSUME NEW w \in Workers, NEW a \in Alerts, ClaimNextAlert(w, a)
      PROVE  Agrees(y)'
  <2>1. status' = [status EXCEPT ![a] = "queued"] /\ received' = received
    BY <1>1 DEF ClaimNextAlert
  <2>2. CASE y = w
    BY <1>1, <1>a, <1>b, <2>1, <2>2
       DEF RowTypes, ActorTypes, ClaimNextAlert, Take, Goto, Agrees, Delivering,
           DeliverySteps, Alerts, NoAlert
  <2>3. CASE y # w
    <3>1. pc'[y] = pc[y] /\ item'[y] = item[y]
      BY <1>1, <1>b, <2>3 DEF ActorTypes, ClaimNextAlert, Take, Goto
    <3>2. QED
      BY <1>b, <1>c, <1>d, <1>e, <2>1, <3>1, AgreesFrame DEF RowTypes
  <2>4. QED
    BY <2>2, <2>3
<1>2. ASSUME NEW x \in Actors, DeliverSlackMessage(x) PROVE Agrees(y)'
  <2>1. item' = item /\ status' = status
    BY <1>2 DEF DeliverSlackMessage
  <2>2. \A a \in Alerts : received[a] > 0 => received'[a] > 0
    BY <1>2, <1>b DEF RowTypes, DeliverSlackMessage
  <2>3. CASE y = x
    <3>1. pc[y] = "posting" /\ pc'[y] \in {"accepted", "refused"} /\ item[y] # NoAlert
      BY <1>2, <1>b, <1>c, <2>3
         DEF ActorTypes, DeliverSlackMessage, Goto, Agrees, DeliverySteps
    <3>2. pc'[y] = "accepted" => received'[item[y]] > 0
      BY <1>2, <1>b, <1>d, <2>3, <3>1
         DEF RowTypes, ActorTypes, DeliverSlackMessage, Goto
    <3>3. QED
      BY <1>e, <2>1, <3>1, <3>2 DEF Agrees, Delivering, DeliverySteps
  <2>4. CASE y # x
    <3>1. pc'[y] = pc[y]
      BY <1>2, <1>b, <2>4 DEF ActorTypes, DeliverSlackMessage, Goto
    <3>2. QED
      BY <1>c, <1>d, <1>e, <2>1, <2>2, <3>1, AgreesFrame
  <2>5. QED
    BY <2>3, <2>4
<1>3. ASSUME NEW x \in Actors, Release(x), received' = received,
             \A a \in Alerts : status[a] \in {"queued", "sent", "failed"}
                               => status'[a] \in {"queued", "sent", "failed"}
      PROVE  Agrees(y)'
  <2>1. CASE y = x
    BY <1>3, <2>1, ReleaseAgrees
  <2>2. CASE y # x
    <3>1. pc'[y] = pc[y] /\ item'[y] = item[y]
      BY <1>3, <2>2, ReleaseAgrees
    <3>2. QED
      BY <1>3, <1>c, <1>d, <1>e, <3>1, AgreesFrame
  <2>3. QED
    BY <2>1, <2>2
<1>4. ASSUME pc' = pc, item' = item, received' = received,
             \A a \in Alerts : status[a] \in {"queued", "sent", "failed"}
                               => status'[a] \in {"queued", "sent", "failed"}
      PROVE  Agrees(y)'
  BY <1>4, <1>c, <1>d, <1>e, AgreesFrame
<1>5. ASSUME NEW w \in Workers, WorkerRecordsSent(w) \/ WorkerRecordsFailed(w)
      PROVE  Agrees(y)'
  <2>1. \A a \in Alerts : status[a] \in {"queued", "sent", "failed"}
                          => status'[a] \in {"queued", "sent", "failed"}
    BY <1>5, <1>b DEF RowTypes, WorkerRecordsSent, WorkerRecordsFailed
  <2>2. QED
    BY <1>5, <1>3, <1>a, <2>1 DEF WorkerRecordsSent, WorkerRecordsFailed
<1>6. ASSUME NEW r \in Requests, RequestRecords(r) PROVE Agrees(y)'
  <2>1. \A a \in Alerts : status[a] \in {"queued", "sent", "failed"}
                          => status'[a] \in {"queued", "sent", "failed"}
    BY <1>6, <1>b DEF RowTypes, RequestRecords
  <2>2. QED
    BY <1>6, <1>3, <1>a, <2>1 DEF RequestRecords
<1>7. ASSUME NEW x \in Actors, Abort(x) PROVE Agrees(y)'
  BY <1>7, <1>3 DEF Abort
<1>8. ASSUME NEW r \in Requests, InsertAlert(r) PROVE Agrees(y)'
  <2>1. ASSUME NEW a \in Alerts, status[a] \in {"queued", "sent", "failed"}
        PROVE  status'[a] = status[a]
    <3>1. a # inserted + 1
      BY <1>b, <2>1 DEF RowTypes, AlertsAgree, Alerts
    <3>2. QED
      BY <1>8, <1>b, <3>1 DEF RowTypes, InsertAlert
  <2>2. received' = received /\ Release(r)
    BY <1>8 DEF InsertAlert
  <2>3. QED
    BY <1>3, <1>a, <2>1, <2>2
<1>9. ASSUME NEW r \in Requests,
             (\E f \in Findings : ReadSettings(r, f)) \/ CheckActive(r)
      PROVE  Agrees(y)'
  <2>1. item' = item /\ status' = status /\ received' = received
    BY <1>9 DEF ReadSettings, CheckActive
  <2>2. /\ pc[r] \notin DeliverySteps
        /\ pc'[r] \notin DeliverySteps
        /\ \A x \in Actors : x # r => pc'[x] = pc[x]
    BY <1>9, <1>a, <1>b DEF ActorTypes, ReadSettings, CheckActive, Goto, DeliverySteps
  <2>3. CASE y = r
    BY <1>c, <2>1, <2>2, <2>3 DEF Agrees
  <2>4. CASE y # r
    BY <1>c, <1>e, <2>1, <2>2, <2>4, AgreesFrame
  <2>5. QED
    BY <2>3, <2>4
<1>10. ASSUME NEW r \in Requests, NEW a \in Alerts, DeliverAlert(r, a)
       PROVE  Agrees(y)'
  <2>1. status[a] = "queued" /\ status' = status /\ received' = received
    BY <1>10 DEF DeliverAlert
  <2>2. CASE y = r
    BY <1>10, <1>a, <1>b, <2>1, <2>2
       DEF ActorTypes, DeliverAlert, Take, Goto, Agrees, Delivering, DeliverySteps,
           Alerts, NoAlert
  <2>3. CASE y # r
    <3>1. pc'[y] = pc[y] /\ item'[y] = item[y]
      BY <1>10, <1>b, <2>3 DEF ActorTypes, DeliverAlert, Take, Goto
    <3>2. QED
      BY <1>c, <1>e, <2>1, <3>1, AgreesFrame
  <2>4. QED
    BY <2>2, <2>3
<1>11. ASSUME NEW a \in Alerts, RetryAlert(a) \/ BackoffElapses(a)
       PROVE  Agrees(y)'
  <2>1. \A b \in Alerts : status[b] \in {"queued", "sent", "failed"}
                          => status'[b] \in {"queued", "sent", "failed"}
    BY <1>11, <1>b DEF RowTypes, RetryAlert, BackoffElapses
  <2>2. QED
    BY <1>11, <1>4, <2>1 DEF RetryAlert, BackoffElapses
<1>12. ASSUME WindowMoves \/ UpdateAlertSettings \/ UNCHANGED vars
       PROVE  Agrees(y)'
  BY <1>12, <1>4 DEF WindowMoves, UpdateAlertSettings, vars
<1>13. QED
  BY <1>1, <1>2, <1>5, <1>6, <1>7, <1>8, <1>9, <1>10, <1>11, <1>12, <1>a
     DEF Next, WorkerProceeds, RequestProceeds

(* What AlertsAgree and SentIsReceived say of one alert.                   *)
Row(a) ==
  /\ a > inserted <=> status[a] = "absent"
  /\ status[a] \in {"absent", "suppressed"} => received[a] = 0 /\ attempts[a] = 0
  /\ status[a] = "sent" <=> sentAt[a]
  /\ status[a] = "sent" => received[a] > 0

LEMMA RowsStep ==
  TypeOK /\ DeliveriesAgree /\ AlertsAgree /\ SentIsReceived /\ [Next]_vars
    => AlertsAgree' /\ SentIsReceived'
<1> SUFFICES ASSUME TypeOK, DeliveriesAgree, AlertsAgree, SentIsReceived,
                    [Next]_vars, NEW a \in Alerts
             PROVE  Row(a)'
  BY DEF AlertsAgree, SentIsReceived, Row, Alerts
<1> USE DEF settingsVars, deliveryVars, actorVars
<1>a. Workers \subseteq Actors /\ Requests \subseteq Actors
  BY DEF Actors
<1>b. RowTypes /\ ActorTypes
  BY DEF TypeOK
<1>c. Row(a)
  BY DEF AlertsAgree, SentIsReceived, Row
<1>d. \A x \in Actors : /\ Agrees(x)
                        /\ item[x] # NoAlert =>
                             /\ item[x] \in Alerts
                             /\ status[item[x]] \in {"queued", "sent", "failed"}
  BY <1>b DEF ActorTypes, DeliveriesAgree, Agrees, Delivering
<1>1. ASSUME NEW w \in Workers, NEW b \in Alerts, ClaimNextAlert(w, b)
      PROVE  Row(a)'
  <2>1. status[b] \in {"queued", "failed"}
    BY <1>1 DEF ClaimNextAlert, IsNext, Claimable
  <2>2. /\ status' = [status EXCEPT ![b] = "queued"]
        /\ attempts' = [attempts EXCEPT ![b] = @ + 1]
        /\ UNCHANGED <<inserted, sentAt, received>>
    BY <1>1 DEF ClaimNextAlert
  <2>3. CASE a = b
    BY <1>b, <1>c, <2>1, <2>2, <2>3 DEF RowTypes, Row
  <2>4. CASE a # b
    BY <1>b, <1>c, <2>2, <2>4 DEF RowTypes, Row
  <2>5. QED
    BY <2>3, <2>4
<1>2. ASSUME NEW x \in Actors, DeliverSlackMessage(x) PROVE Row(a)'
  <2>1. item[x] # NoAlert
    BY <1>2, <1>b, <1>d DEF ActorTypes, DeliverSlackMessage, Goto, Agrees, DeliverySteps
  <2>2. /\ received[a] > 0 => received'[a] > 0
        /\ a # item[x] => received'[a] = received[a]
    BY <1>2, <1>b, <1>d DEF RowTypes, DeliverSlackMessage
  <2>3. a = item[x] => status[a] \in {"queued", "sent", "failed"}
    BY <1>d, <2>1
  <2>4. QED
    BY <1>2, <1>c, <2>2, <2>3 DEF Row, DeliverSlackMessage
<1>3. ASSUME NEW x \in Actors, pc[x] \in {"accepted", "refused"}
      PROVE  /\ item[x] \in Alerts
             /\ status[item[x]] \in {"queued", "sent", "failed"}
             /\ pc[x] = "accepted" => received[item[x]] > 0
  BY <1>3, <1>d DEF Agrees, Delivering, DeliverySteps
<1>4. ASSUME NEW w \in Workers, WorkerRecordsSent(w) PROVE Row(a)'
  <2>1. /\ item[w] \in Alerts
        /\ status[item[w]] \in {"queued", "sent", "failed"}
        /\ received[item[w]] > 0
    BY <1>3, <1>4, <1>a DEF WorkerRecordsSent
  <2>2. /\ status' = [status EXCEPT ![item[w]] = "sent"]
        /\ sentAt' = [sentAt EXCEPT ![item[w]] = TRUE]
        /\ UNCHANGED <<inserted, attempts, received>>
    BY <1>4 DEF WorkerRecordsSent
  <2>3. QED
    BY <1>b, <1>c, <2>1, <2>2 DEF RowTypes, Row
<1>5. ASSUME NEW w \in Workers, WorkerRecordsFailed(w) PROVE Row(a)'
  <2>1. item[w] \in Alerts /\ status[item[w]] \in {"queued", "sent", "failed"}
    BY <1>3, <1>5, <1>a DEF WorkerRecordsFailed
  <2>2. /\ status' = [status EXCEPT ![item[w]] = "failed"]
        /\ sentAt' = [sentAt EXCEPT ![item[w]] = FALSE]
        /\ UNCHANGED <<inserted, attempts, received>>
    BY <1>5 DEF WorkerRecordsFailed
  <2>3. QED
    BY <1>b, <1>c, <2>1, <2>2 DEF RowTypes, Row
<1>6. ASSUME NEW r \in Requests, RequestRecords(r) PROVE Row(a)'
  <2>1. /\ item[r] \in Alerts
        /\ status[item[r]] \in {"queued", "sent", "failed"}
        /\ pc[r] = "accepted" => received[item[r]] > 0
    BY <1>3, <1>6, <1>a DEF RequestRecords
  <2>2. UNCHANGED <<inserted, attempts, received>>
    BY <1>6 DEF RequestRecords
  <2>3. CASE pc[r] = "accepted"
    <3>1. /\ status' = [status EXCEPT ![item[r]] = "sent"]
          /\ sentAt' = [sentAt EXCEPT ![item[r]] = TRUE]
      BY <1>6, <2>3 DEF RequestRecords
    <3>2. QED
      BY <1>b, <1>c, <2>1, <2>2, <2>3, <3>1 DEF RowTypes, Row
  <2>4. CASE pc[r] = "refused"
    <3>1. /\ status' = [status EXCEPT ![item[r]] = "failed"]
          /\ sentAt' = [sentAt EXCEPT ![item[r]] = FALSE]
      BY <1>6, <2>4 DEF RequestRecords
    <3>2. QED
      BY <1>b, <1>c, <2>1, <2>2, <3>1 DEF RowTypes, Row
  <2>5. QED
    BY <1>6, <2>3, <2>4 DEF RequestRecords
<1>7. ASSUME NEW x \in Actors, Abort(x) PROVE Row(a)'
  BY <1>7, <1>c DEF Row, Abort
<1>8. ASSUME NEW r \in Requests, InsertAlert(r) PROVE Row(a)'
  <2>1. /\ inserted' = inserted + 1
        /\ UNCHANGED <<attempts, sentAt, received>>
    BY <1>8 DEF InsertAlert
  <2>2. CASE a = inserted + 1
    <3>1. status[a] = "absent"
      BY <1>b, <1>c, <2>2 DEF RowTypes, Row
    <3>2. status'[a] \in {"queued", "suppressed"}
      BY <1>8, <1>b, <2>2 DEF RowTypes, InsertAlert
    <3>3. QED
      BY <1>b, <1>c, <2>1, <2>2, <3>1, <3>2 DEF RowTypes, Row
  <2>3. CASE a # inserted + 1
    <3>1. status'[a] = status[a]
      BY <1>8, <1>b, <2>3 DEF RowTypes, InsertAlert
    <3>2. a > inserted + 1 <=> a > inserted
      BY <1>b, <2>3 DEF RowTypes, Alerts
    <3>3. QED
      BY <1>c, <2>1, <3>1, <3>2 DEF Row
  <2>4. QED
    BY <2>2, <2>3
<1>9. ASSUME NEW r \in Requests,
             \/ \E f \in Findings : ReadSettings(r, f)
             \/ CheckActive(r)
             \/ \E b \in Alerts : DeliverAlert(r, b)
      PROVE  Row(a)'
  BY <1>9, <1>c DEF Row, ReadSettings, CheckActive, DeliverAlert
<1>10. ASSUME NEW b \in Alerts, RetryAlert(b) PROVE Row(a)'
  <2>1. status[b] = "failed" /\ status' = [status EXCEPT ![b] = "queued"]
    BY <1>10 DEF RetryAlert
  <2>2. UNCHANGED <<inserted, attempts, sentAt, received>>
    BY <1>10 DEF RetryAlert
  <2>3. QED
    BY <1>b, <1>c, <2>1, <2>2 DEF RowTypes, Row
<1>11. ASSUME NEW b \in Alerts, BackoffElapses(b) PROVE Row(a)'
  BY <1>11, <1>c DEF Row, BackoffElapses
<1>12. ASSUME WindowMoves \/ UpdateAlertSettings \/ UNCHANGED vars
       PROVE  Row(a)'
  BY <1>12, <1>c DEF Row, WindowMoves, UpdateAlertSettings, vars
<1>13. QED
  BY <1>1, <1>2, <1>4, <1>5, <1>6, <1>7, <1>8, <1>9, <1>10, <1>11, <1>12, <1>a
     DEF Next, WorkerProceeds, RequestProceeds

(* A suppressed alert is silent because no delivery agrees with one.       *)
LEMMA SilenceFollows ==
  ASSUME DeliveriesAgree, AlertsAgree
  PROVE  SuppressedIsSilent
<1> SUFFICES ASSUME NEW a \in Alerts, status[a] = "suppressed"
             PROVE  /\ received[a] = 0
                    /\ attempts[a] = 0
                    /\ \A x \in Actors : item[x] # a
  BY DEF SuppressedIsSilent
<1>1. received[a] = 0 /\ attempts[a] = 0
  BY DEF AlertsAgree
<1>2. a # NoAlert
  BY DEF Alerts, NoAlert
<1>3. \A x \in Actors : item[x] # a
  BY <1>2 DEF DeliveriesAgree, Delivering
<1>4. QED
  BY <1>1, <1>3

(* The attempts of the workers that hold alerts, one worker at a time.     *)
LEMMA AttemptsFrame ==
  ASSUME AttemptsSpentOnce, attempts' = attempts,
         \A w \in Workers : item'[w] # NoAlert =>
                            item'[w] = item[w] /\ attempt'[w] = attempt[w]
  PROVE  AttemptsSpentOnce'
<1> SUFFICES ASSUME NEW w \in Workers, item'[w] # NoAlert
             PROVE  /\ attempt'[w] \in 1 .. attempts'[item'[w]]
                    /\ \A v \in Workers :
                         item'[v] = item'[w] /\ attempt'[v] = attempt'[w] => v = w
  BY DEF AttemptsSpentOnce
<1>1. item'[w] = item[w] /\ attempt'[w] = attempt[w]
  OBVIOUS
<1>2. attempt'[w] \in 1 .. attempts'[item'[w]]
  BY <1>1 DEF AttemptsSpentOnce
<1>3. ASSUME NEW v \in Workers, item'[v] = item'[w], attempt'[v] = attempt'[w]
      PROVE  v = w
  BY <1>1, <1>3 DEF AttemptsSpentOnce
<1>4. QED
  BY <1>2, <1>3

LEMMA AttemptsStep ==
  TypeOK /\ AttemptsSpentOnce /\ [Next]_vars => AttemptsSpentOnce'
<1> SUFFICES ASSUME TypeOK, AttemptsSpentOnce, [Next]_vars
             PROVE  AttemptsSpentOnce'
  OBVIOUS
<1> USE DEF settingsVars, deliveryVars, actorVars
<1>a. Workers \subseteq Actors /\ Requests \subseteq Actors
  BY DEF Actors
<1>b. RowTypes /\ ActorTypes
  BY DEF TypeOK
<1>c. \A w \in Workers, r \in Requests : w # r
  BY AlertDeliveryAssumption
<1>1. ASSUME NEW u \in Workers, NEW a \in Alerts, ClaimNextAlert(u, a)
      PROVE  AttemptsSpentOnce'
  <2>1. /\ item' = [item EXCEPT ![u] = a]
        /\ attempt' = [attempt EXCEPT ![u] = attempts[a] + 1]
        /\ attempts' = [attempts EXCEPT ![a] = @ + 1]
    BY <1>1 DEF ClaimNextAlert, Take
  <2>2. attempts[a] \in Nat /\ attempts'[a] = attempts[a] + 1
    BY <1>b, <2>1 DEF RowTypes
  <2>3. item'[u] = a /\ attempt'[u] = attempts[a] + 1
    BY <1>a, <1>b, <2>1 DEF ActorTypes
  <2>4. \A v \in Workers : v # u => item'[v] = item[v] /\ attempt'[v] = attempt[v]
    BY <1>a, <1>b, <2>1 DEF ActorTypes
  <2>5. \A v \in Workers : v # u /\ item[v] = a => attempt[v] \in 1 .. attempts[a]
    BY DEF AttemptsSpentOnce, Alerts, NoAlert
  <2>6. ASSUME NEW w \in Workers, item'[w] # NoAlert
        PROVE  /\ attempt'[w] \in 1 .. attempts'[item'[w]]
               /\ \A v \in Workers :
                    item'[v] = item'[w] /\ attempt'[v] = attempt'[w] => v = w
    <3>1. CASE w = u
      <4>1. attempt'[w] \in 1 .. attempts'[item'[w]]
        BY <2>2, <2>3, <3>1
      <4>2. QED
        BY <2>2, <2>3, <2>4, <2>5, <3>1, <4>1
    <3>2. CASE w # u
      <4>1. item'[w] = item[w] /\ attempt'[w] = attempt[w] /\ item[w] \in Alerts
        BY <1>a, <1>b, <2>4, <2>6, <3>2 DEF ActorTypes
      <4>2. attempt[w] \in 1 .. attempts[item[w]]
        BY <2>6, <4>1 DEF AttemptsSpentOnce
      <4>3. attempts[item[w]] \in Nat /\ attempts'[item[w]] >= attempts[item[w]]
        BY <1>b, <2>1, <4>1 DEF RowTypes
      <4>4. attempt'[w] \in 1 .. attempts'[item'[w]]
        BY <1>b, <2>1, <2>2, <4>1, <4>2, <4>3 DEF RowTypes
      <4>5. ASSUME NEW v \in Workers, item'[v] = item'[w], attempt'[v] = attempt'[w]
            PROVE  v = w
        <5>1. CASE v = u
          BY <2>2, <2>3, <4>1, <4>2, <4>5, <5>1
        <5>2. CASE v # u
          BY <2>4, <2>6, <4>1, <4>5, <5>2 DEF AttemptsSpentOnce
        <5>3. QED
          BY <5>1, <5>2
      <4>6. QED
        BY <4>4, <4>5
    <3>3. QED
      BY <3>1, <3>2
  <2>7. QED
    BY <2>6 DEF AttemptsSpentOnce
<1>2. ASSUME attempts' = attempts, item' = item, attempt' = attempt
      PROVE  AttemptsSpentOnce'
  BY <1>2, AttemptsFrame
<1>3. ASSUME NEW x \in Actors, Release(x), attempts' = attempts
      PROVE  AttemptsSpentOnce'
  <2>1. \A w \in Workers : item'[w] # NoAlert =>
                            item'[w] = item[w] /\ attempt'[w] = attempt[w]
    BY <1>3, <1>a, <1>b DEF ActorTypes, Release
  <2>2. QED
    BY <1>3, <2>1, AttemptsFrame
<1>4. ASSUME NEW w \in Workers, WorkerRecordsSent(w) \/ WorkerRecordsFailed(w)
      PROVE  AttemptsSpentOnce'
  BY <1>3, <1>4, <1>a DEF WorkerRecordsSent, WorkerRecordsFailed
<1>5. ASSUME NEW r \in Requests, RequestRecords(r) \/ InsertAlert(r)
      PROVE  AttemptsSpentOnce'
  BY <1>3, <1>5, <1>a DEF RequestRecords, InsertAlert
<1>6. ASSUME NEW x \in Actors, Abort(x) PROVE AttemptsSpentOnce'
  BY <1>3, <1>6 DEF Abort
<1>7. ASSUME NEW x \in Actors, DeliverSlackMessage(x) PROVE AttemptsSpentOnce'
  BY <1>2, <1>7 DEF DeliverSlackMessage
<1>8. ASSUME NEW r \in Requests,
             (\E f \in Findings : ReadSettings(r, f)) \/ CheckActive(r)
      PROVE  AttemptsSpentOnce'
  BY <1>2, <1>8 DEF ReadSettings, CheckActive
<1>9. ASSUME NEW r \in Requests, NEW a \in Alerts, DeliverAlert(r, a)
      PROVE  AttemptsSpentOnce'
  <2>1. \A w \in Workers : item'[w] = item[w] /\ attempt'[w] = attempt[w]
    BY <1>9, <1>a, <1>b, <1>c DEF ActorTypes, DeliverAlert, Take
  <2>2. attempts' = attempts
    BY <1>9 DEF DeliverAlert
  <2>3. QED
    BY <2>1, <2>2, AttemptsFrame
<1>10. ASSUME NEW a \in Alerts, RetryAlert(a) \/ BackoffElapses(a)
       PROVE  AttemptsSpentOnce'
  BY <1>2, <1>10 DEF RetryAlert, BackoffElapses
<1>11. ASSUME WindowMoves \/ UpdateAlertSettings \/ UNCHANGED vars
       PROVE  AttemptsSpentOnce'
  BY <1>2, <1>11 DEF WindowMoves, UpdateAlertSettings, vars
<1>12. QED
  BY <1>1, <1>4, <1>5, <1>6, <1>7, <1>8, <1>9, <1>10, <1>11, <1>a
     DEF Next, WorkerProceeds, RequestProceeds

(* The inductive invariant: every reachable state satisfies IInv.          *)
THEOREM IInvCorrect == Spec => []IInv
<1>1. Init => IInv
  BY SafetyInit
<1>2. IInv /\ [Next]_vars => IInv'
  <2> SUFFICES ASSUME IInv, [Next]_vars PROVE IInv'
    OBVIOUS
  <2>1. TypeOK'
    BY TypeStep DEF IInv
  <2>2. DeliveriesAgree'
    BY DeliveriesStep DEF IInv
  <2>3. AlertsAgree' /\ SentIsReceived'
    BY RowsStep DEF IInv
  <2>4. SuppressedIsSilent'
    <3>1. DeliveriesAgree /\ AlertsAgree => SuppressedIsSilent
      BY SilenceFollows
    <3>2. (DeliveriesAgree /\ AlertsAgree => SuppressedIsSilent)'
      BY SilenceFollows, PTL
    <3>3. QED
      BY <2>2, <2>3, <3>2
  <2>5. AttemptsSpentOnce'
    BY AttemptsStep DEF IInv
  <2>6. QED
    BY <2>1, <2>2, <2>3, <2>4, <2>5 DEF IInv
<1>3. QED
  BY <1>1, <1>2, PTL DEF Spec

(* An alert shown as sent was taken by Slack, whoever recorded the outcome.*)
THEOREM SentIsReceivedCorrect == Spec => []SentIsReceived
<1>1. IInv => SentIsReceived
  BY DEF IInv
<1>2. QED
  BY <1>1, IInvCorrect, PTL

(* A suppressed alert is never claimed, delivered or posted.               *)
THEOREM SuppressedIsSilentCorrect == Spec => []SuppressedIsSilent
<1>1. IInv => SuppressedIsSilent
  BY DEF IInv
<1>2. QED
  BY <1>1, IInvCorrect, PTL

(* Workers never make the same attempt of an alert twice, so they post it  *)
(* at most MaxAttempts times however they race.                            *)
THEOREM AttemptsSpentOnceCorrect == Spec => []AttemptsSpentOnce
<1>1. IInv => AttemptsSpentOnce
  BY DEF IInv
<1>2. QED
  BY <1>1, IInvCorrect, PTL

-----------------------------------------------------------------------------
(* Steps.                                                                  *)

(* An alert whose attempts are spent is not taken by a worker again.       *)
LEMMA ExhaustedStep ==
  TypeOK /\ [Next]_vars =>
    \A a \in Alerts : attempts[a] = MaxAttempts =>
      \A w \in Workers : item'[w] = a => item[w] = a
<1> SUFFICES ASSUME TypeOK, [Next]_vars, NEW a \in Alerts,
                    attempts[a] = MaxAttempts, NEW w \in Workers, item'[w] = a
             PROVE  item[w] = a
  OBVIOUS
<1> USE DEF settingsVars, deliveryVars, actorVars
<1>a. Workers \subseteq Actors /\ Requests \subseteq Actors
  BY DEF Actors
<1>b. ActorTypes /\ a # NoAlert
  BY DEF TypeOK, Alerts, NoAlert
<1>c. \A r \in Requests : w # r
  BY AlertDeliveryAssumption
<1>1. CASE item' = item
  BY <1>1
<1>2. ASSUME NEW x \in Actors, Release(x) PROVE item[w] = a
  BY <1>2, <1>a, <1>b DEF ActorTypes, Release
<1>3. ASSUME NEW u \in Workers, NEW b \in Alerts, ClaimNextAlert(u, b)
      PROVE  item[w] = a
  <2>1. b # a
    BY <1>3, AlertDeliveryAssumption DEF ClaimNextAlert, IsNext, Claimable
  <2>2. QED
    BY <1>3, <1>a, <1>b, <2>1 DEF ActorTypes, ClaimNextAlert, Take
<1>4. ASSUME NEW r \in Requests, NEW b \in Alerts, DeliverAlert(r, b)
      PROVE  item[w] = a
  BY <1>4, <1>a, <1>b, <1>c DEF ActorTypes, DeliverAlert, Take
<1>5. ASSUME NEW u \in Workers, WorkerProceeds(u) \/ Abort(u) PROVE item[w] = a
  BY <1>1, <1>2, <1>5, <1>a
     DEF WorkerProceeds, DeliverSlackMessage, WorkerRecordsSent, WorkerRecordsFailed, Abort
<1>6. ASSUME NEW r \in Requests, RequestProceeds(r) \/ Abort(r) PROVE item[w] = a
  BY <1>1, <1>2, <1>6, <1>a
     DEF RequestProceeds, CheckActive, InsertAlert, DeliverSlackMessage, RequestRecords, Abort
<1>7. ASSUME NEW r \in Requests, NEW f \in Findings, ReadSettings(r, f)
      PROVE  item[w] = a
  BY <1>1, <1>7 DEF ReadSettings
<1>8. ASSUME NEW b \in Alerts, RetryAlert(b) \/ BackoffElapses(b)
      PROVE  item[w] = a
  BY <1>1, <1>8 DEF RetryAlert, BackoffElapses
<1>9. ASSUME UpdateAlertSettings \/ WindowMoves \/ UNCHANGED vars
      PROVE  item[w] = a
  BY <1>1, <1>9 DEF UpdateAlertSettings, WindowMoves, vars
<1>10. QED
  BY <1>3, <1>4, <1>5, <1>6, <1>7, <1>8, <1>9 DEF Next

(* Once its attempts are spent no worker takes an alert again, also after  *)
(* a retry has put it back to queued.                                      *)
THEOREM ExhaustedIsLeftCorrect == Spec => ExhaustedIsLeft
<1>1. TypeOK /\ [Next]_vars =>
        [\A a \in Alerts : attempts[a] = MaxAttempts =>
           \A w \in Workers : item'[w] = a => item[w] = a]_vars
  BY ExhaustedStep
<1>2. QED
  BY <1>1, TypeCorrect, PTL DEF Spec, ExhaustedIsLeft

(* A sent alert that nobody is delivering stays as it is.                  *)
LEMMA SettledStep ==
  IInv /\ [Next]_vars =>
    \A a \in Alerts : status[a] = "sent" /\ Deliverers(a) = {}
      => /\ status'[a] = "sent"
         /\ received'[a] = received[a]
         /\ Deliverers(a)' = {}
<1> SUFFICES ASSUME IInv, [Next]_vars, NEW a \in Alerts,
                    status[a] = "sent", Deliverers(a) = {}
             PROVE  /\ status'[a] = "sent"
                    /\ received'[a] = received[a]
                    /\ \A x \in Actors : item'[x] # a
  BY DEF Deliverers
<1> USE DEF settingsVars, deliveryVars, actorVars
<1> DEFINE Stays == /\ status'[a] = "sent"
                    /\ received'[a] = received[a]
                    /\ \A x \in Actors : item'[x] # a
<1>a. Workers \subseteq Actors /\ Requests \subseteq Actors
  BY DEF Actors
<1>b. RowTypes /\ ActorTypes /\ a # NoAlert
  BY DEF IInv, TypeOK, Alerts, NoAlert
<1>c. \A x \in Actors : item[x] # a
  BY DEF Deliverers
<1>1. ASSUME item' = item, status'[a] = status[a], received'[a] = received[a]
      PROVE  Stays
  BY <1>1, <1>c
<1>2. ASSUME NEW x \in Actors, Release(x), status'[a] = status[a],
             received'[a] = received[a]
      PROVE  Stays
  <2>1. \A y \in Actors : item'[y] # a
    BY <1>2, <1>b, <1>c DEF ActorTypes, Release
  <2>2. QED
    BY <1>2, <2>1
<1>3. ASSUME NEW x \in Actors, NEW b \in Alerts, NEW n, Take(x, b, n), b # a,
             status'[a] = status[a], received'[a] = received[a]
      PROVE  Stays
  <2>1. \A y \in Actors : item'[y] # a
    BY <1>3, <1>b, <1>c DEF ActorTypes, Take
  <2>2. QED
    BY <1>3, <2>1
<1>4. ASSUME NEW u \in Workers, NEW b \in Alerts, ClaimNextAlert(u, b) PROVE Stays
  <2>1. b # a
    BY <1>4 DEF ClaimNextAlert, IsNext, Claimable
  <2>2. status'[a] = status[a] /\ received'[a] = received[a]
    BY <1>4, <1>b, <2>1 DEF RowTypes, ClaimNextAlert
  <2>3. QED
    BY <1>3, <1>4, <1>a, <2>1, <2>2 DEF ClaimNextAlert
<1>5. ASSUME NEW r \in Requests, NEW b \in Alerts, DeliverAlert(r, b) PROVE Stays
  <2>1. b # a
    BY <1>5 DEF DeliverAlert
  <2>2. QED
    BY <1>3, <1>5, <1>a, <2>1 DEF DeliverAlert
<1>6. ASSUME NEW x \in Actors, DeliverSlackMessage(x) PROVE Stays
  <2>1. received'[a] = received[a]
    BY <1>6, <1>b, <1>c DEF RowTypes, DeliverSlackMessage
  <2>2. QED
    BY <1>1, <1>6, <2>1 DEF DeliverSlackMessage
<1>7. ASSUME NEW w \in Workers, WorkerRecordsSent(w) \/ WorkerRecordsFailed(w)
      PROVE  Stays
  <2>1. status'[a] = status[a]
    BY <1>7, <1>a, <1>b, <1>c DEF RowTypes, WorkerRecordsSent, WorkerRecordsFailed
  <2>2. QED
    BY <1>2, <1>7, <1>a, <2>1 DEF WorkerRecordsSent, WorkerRecordsFailed
<1>8. ASSUME NEW r \in Requests, RequestRecords(r) PROVE Stays
  <2>1. status'[a] = status[a]
    BY <1>8, <1>a, <1>b, <1>c DEF RowTypes, RequestRecords
  <2>2. QED
    BY <1>2, <1>8, <1>a, <2>1 DEF RequestRecords
<1>9. ASSUME NEW r \in Requests, InsertAlert(r) PROVE Stays
  <2>1. inserted + 1 # a
    BY <1>b DEF IInv, AlertsAgree, RowTypes, Alerts
  <2>2. status'[a] = status[a]
    BY <1>9, <1>b, <2>1 DEF RowTypes, InsertAlert
  <2>3. QED
    BY <1>2, <1>9, <1>a, <2>2 DEF InsertAlert
<1>10. ASSUME NEW x \in Actors, Abort(x) PROVE Stays
  BY <1>2, <1>10 DEF Abort
<1>11. ASSUME NEW r \in Requests,
              (\E f \in Findings : ReadSettings(r, f)) \/ CheckActive(r)
       PROVE  Stays
  BY <1>1, <1>11 DEF ReadSettings, CheckActive
<1>12. ASSUME NEW b \in Alerts, RetryAlert(b) \/ BackoffElapses(b) PROVE Stays
  <2>1. status'[a] = status[a]
    BY <1>12, <1>b DEF RowTypes, RetryAlert, BackoffElapses
  <2>2. QED
    BY <1>1, <1>12, <2>1 DEF RetryAlert, BackoffElapses
<1>13. ASSUME UpdateAlertSettings \/ WindowMoves \/ UNCHANGED vars PROVE Stays
  BY <1>1, <1>13 DEF UpdateAlertSettings, WindowMoves, vars
<1>14. QED
  BY <1>4, <1>5, <1>6, <1>7, <1>8, <1>9, <1>10, <1>11, <1>12, <1>13, <1>a
     DEF Next, WorkerProceeds, RequestProceeds

(* Once nobody is delivering a sent alert it stays sent and is never       *)
(* posted again.                                                           *)
THEOREM SettledSentStaysCorrect == Spec => SettledSentStays
<1>1. IInv /\ [Next]_vars =>
        [\A a \in Alerts : status[a] = "sent" /\ Deliverers(a) = {}
           => /\ status'[a] = "sent"
              /\ received'[a] = received[a]
              /\ Deliverers(a)' = {}]_vars
  BY SettledStep
<1>2. QED
  BY <1>1, IInvCorrect, PTL DEF Spec, SettledSentStays

-----------------------------------------------------------------------------
(* The lifecycle.                                                          *)

Holders == [a \in Alerts |-> Deliverers(a)]

LEMMA HoldersStay ==
  ASSUME item' = item
  PROVE  Holders' = Holders
BY DEF Holders, Deliverers

LEMMA HoldersTake ==
  ASSUME IInv, NEW x \in Actors, NEW a \in Alerts, NEW n, Take(x, a, n)
  PROVE  Holders' = [Holders EXCEPT ![a] = @ \cup {x}]
<1>1. item[x] = NoAlert /\ item' = [item EXCEPT ![x] = a]
  BY DEF IInv, DeliveriesAgree, DeliverySteps, Take, Goto
<1>2. item'[x] = a /\ \A y \in Actors \ {x} : item'[y] = item[y]
  BY <1>1 DEF IInv, TypeOK, ActorTypes
<1>3. \A b \in Alerts : b # NoAlert
  BY DEF Alerts, NoAlert
<1>4. Deliverers(a)' = Deliverers(a) \cup {x}
  BY <1>2 DEF Deliverers
<1>5. \A b \in Alerts \ {a} : Deliverers(b)' = Deliverers(b)
  BY <1>1, <1>2, <1>3 DEF Deliverers
<1> QED BY <1>4, <1>5 DEF Holders

LEMMA HoldersRelease ==
  ASSUME IInv, NEW x \in Actors, Release(x)
  PROVE  /\ item[x] = NoAlert => Holders' = Holders
         /\ item[x] # NoAlert =>
              /\ item[x] \in Alerts /\ x \in Holders[item[x]]
              /\ Holders' = [Holders EXCEPT ![item[x]] = @ \ {x}]
<1>1. item'[x] = NoAlert /\ \A y \in Actors \ {x} : item'[y] = item[y]
  BY DEF IInv, TypeOK, ActorTypes, Release
<1>2. \A b \in Alerts : b # NoAlert
  BY DEF Alerts, NoAlert
<1>3. \A b \in Alerts : Deliverers(b)' = Deliverers(b) \ {x}
  BY <1>1, <1>2 DEF Deliverers
<1>4. \A b \in Alerts : item[x] # b => Deliverers(b)' = Deliverers(b)
  BY <1>3 DEF Deliverers
<1>5. item[x] # NoAlert => item[x] \in Alerts /\ x \in Deliverers(item[x])
  BY DEF IInv, TypeOK, ActorTypes, Deliverers
<1> QED BY <1>2, <1>3, <1>4, <1>5 DEF Holders

(* Who ends a delivery by recording an outcome, sent only of an alert that *)
(* Slack has taken.                                                        *)
LEMMA RecordRefines ==
  ASSUME IInv, NEW x \in Actors, NEW s \in {"sent", "failed"},
         pc[x] = (IF s = "sent" THEN "accepted" ELSE "refused"),
         status' = [status EXCEPT ![item[x]] = s],
         sentAt' = [sentAt EXCEPT ![item[x]] = s = "sent"],
         Release(x), UNCHANGED <<attempts, received>>
  PROVE  Lifecycle!Next
<1>1. /\ item[x] # NoAlert
      /\ s = "sent" => received[item[x]] > 0
  BY DEF IInv, DeliveriesAgree, Delivering, DeliverySteps
<1>2. PICK a \in Alerts :
        /\ a = item[x] /\ x \in Holders[a]
        /\ Holders' = [Holders EXCEPT ![a] = @ \ {x}]
  BY <1>1, HoldersRelease
<1>3. Lifecycle!Record(x, a, s)
  BY <1>1, <1>2 DEF Lifecycle!Record, Lifecycle!Become, Holders
<1> QED BY <1>2, <1>3 DEF Lifecycle!Next, Lifecycle!Alerts, Alerts, Actors

LEMMA LifecycleStep ==
  IInv /\ [Next]_vars => [Lifecycle!Next]_(Lifecycle!vars)
<1> SUFFICES ASSUME IInv, [Next]_vars
             PROVE  \/ Lifecycle!Next
                    \/ UNCHANGED <<status, sentAt, attempts, received, Holders>>
  BY DEF Lifecycle!vars, Holders
<1> DEFINE Stays == UNCHANGED <<status, sentAt, attempts, received, Holders>>
<1> USE DEF settingsVars, deliveryVars, actorVars
<1>a. Workers \subseteq Actors /\ Requests \subseteq Actors
  BY DEF Actors
<1>b. RowTypes /\ ActorTypes
  BY DEF IInv, TypeOK
<1>1. ASSUME NEW w \in Workers, NEW a \in Alerts, ClaimNextAlert(w, a)
      PROVE  Lifecycle!Next
  <2>1. Holders' = [Holders EXCEPT ![a] = @ \cup {w}]
    BY <1>1, <1>a, HoldersTake DEF ClaimNextAlert
  <2>2. Lifecycle!Claim(w, a)
    BY <1>1, <2>1 DEF ClaimNextAlert, IsNext, Claimable, Lifecycle!Claim,
                      Lifecycle!Become, Holders
  <2> QED BY <2>2 DEF Lifecycle!Next, Lifecycle!Alerts, Alerts
<1>2. ASSUME NEW r \in Requests, NEW a \in Alerts, DeliverAlert(r, a)
      PROVE  Lifecycle!Next
  <2>1. Holders' = [Holders EXCEPT ![a] = @ \cup {r}]
    BY <1>2, <1>a, HoldersTake DEF DeliverAlert
  <2>2. Lifecycle!Deliver(r, a)
    BY <1>2, <2>1 DEF DeliverAlert, Lifecycle!Deliver, Holders
  <2> QED BY <2>2 DEF Lifecycle!Next, Lifecycle!Alerts, Alerts
<1>3. ASSUME NEW x \in Actors, DeliverSlackMessage(x)
      PROVE  Lifecycle!Next \/ Stays
  <2>1. /\ Holders' = Holders
        /\ UNCHANGED <<status, sentAt, attempts>>
    BY <1>3, HoldersStay DEF DeliverSlackMessage
  <2>2. CASE received' = received
    BY <2>1, <2>2
  <2>3. CASE received' = [received EXCEPT ![item[x]] = @ + 1]
    <3>1. pc[x] = "posting"
      BY <1>3 DEF DeliverSlackMessage, Goto
    <3>2. PICK a \in Alerts : a = item[x] /\ x \in Deliverers(a)
      BY <3>1, <1>b
         DEF IInv, DeliveriesAgree, DeliverySteps, ActorTypes, Deliverers
    <3>3. Holders[a] # {}
      BY <3>2 DEF Holders
    <3>4. received' = [received EXCEPT ![a] = @ + 1]
      BY <2>3, <3>2
    <3>5. Lifecycle!Post(a)
      BY <2>1, <3>3, <3>4 DEF Lifecycle!Post, Holders
    <3> QED BY <3>5 DEF Lifecycle!Next, Lifecycle!Alerts, Alerts
  <2> QED BY <1>3, <2>2, <2>3 DEF DeliverSlackMessage
<1>4. ASSUME NEW w \in Workers, WorkerRecordsSent(w) PROVE Lifecycle!Next
  <2>1. sentAt' = [sentAt EXCEPT ![item[w]] = "sent" = "sent"]
    BY <1>4 DEF WorkerRecordsSent
  <2> QED BY <1>4, <1>a, <2>1, RecordRefines DEF WorkerRecordsSent
<1>5. ASSUME NEW w \in Workers, WorkerRecordsFailed(w) PROVE Lifecycle!Next
  <2>1. sentAt' = [sentAt EXCEPT ![item[w]] = "failed" = "sent"]
    BY <1>5 DEF WorkerRecordsFailed
  <2> QED BY <1>5, <1>a, <2>1, RecordRefines DEF WorkerRecordsFailed
<1>6. ASSUME NEW r \in Requests, RequestRecords(r) PROVE Lifecycle!Next
  <2>1. CASE pc[r] = "accepted"
    <3>1. /\ status' = [status EXCEPT ![item[r]] = "sent"]
          /\ sentAt' = [sentAt EXCEPT ![item[r]] = "sent" = "sent"]
      BY <1>6, <2>1 DEF RequestRecords
    <3> QED BY <1>6, <1>a, <2>1, <3>1, RecordRefines DEF RequestRecords
  <2>2. CASE pc[r] = "refused"
    <3>1. /\ status' = [status EXCEPT ![item[r]] = "failed"]
          /\ sentAt' = [sentAt EXCEPT ![item[r]] = "failed" = "sent"]
      BY <1>6, <2>2 DEF RequestRecords
    <3> QED BY <1>6, <1>a, <2>2, <3>1, RecordRefines DEF RequestRecords
  <2> QED BY <1>6, <2>1, <2>2 DEF RequestRecords
<1>7. ASSUME NEW x \in Actors, Abort(x) PROVE Lifecycle!Next \/ Stays
  <2>1. Release(x) /\ UNCHANGED <<status, sentAt, attempts, received>>
    BY <1>7 DEF Abort
  <2>2. CASE item[x] = NoAlert
    BY <2>1, <2>2, HoldersRelease
  <2>3. CASE item[x] # NoAlert
    <3>1. PICK a \in Alerts :
            x \in Holders[a] /\ Holders' = [Holders EXCEPT ![a] = @ \ {x}]
      BY <2>1, <2>3, HoldersRelease
    <3>2. Lifecycle!Drop(x, a)
      BY <2>1, <3>1 DEF Lifecycle!Drop, Holders
    <3> QED BY <3>2 DEF Lifecycle!Next, Lifecycle!Alerts, Alerts, Actors
  <2> QED BY <2>2, <2>3
<1>8. ASSUME NEW r \in Requests, InsertAlert(r) PROVE Lifecycle!Next
  <2>1. item[r] = NoAlert
    BY <1>8, <1>a DEF InsertAlert, IInv, DeliveriesAgree, DeliverySteps
  <2>2. Holders' = Holders
    BY <1>8, <1>a, <2>1, HoldersRelease DEF InsertAlert
  <2>3. PICK a \in Alerts : a = inserted + 1 /\ status[a] = "absent"
    BY <1>8, <1>b, AlertDeliveryAssumption
       DEF InsertAlert, IInv, AlertsAgree, RowTypes, Alerts
  <2>4. PICK s \in {"queued", "suppressed"} : status' = [status EXCEPT ![a] = s]
    BY <1>8, <2>3 DEF InsertAlert
  <2>5. Lifecycle!Submit(a, s)
    BY <1>8, <2>2, <2>3, <2>4
       DEF InsertAlert, Lifecycle!Submit, Lifecycle!Become, Holders
  <2> QED BY <2>5 DEF Lifecycle!Next, Lifecycle!Alerts, Alerts
<1>9. ASSUME NEW a \in Alerts, RetryAlert(a) PROVE Lifecycle!Next
  <2>1. Holders' = Holders
    BY <1>9, HoldersStay DEF RetryAlert
  <2>2. Lifecycle!Retry(a)
    BY <1>9, <2>1 DEF RetryAlert, Lifecycle!Retry, Lifecycle!Become, Holders
  <2> QED BY <2>2 DEF Lifecycle!Next, Lifecycle!Alerts, Alerts
<1>10. ASSUME \/ \E r \in Requests : \/ \E f \in Findings : ReadSettings(r, f)
                                     \/ CheckActive(r)
              \/ \E a \in Alerts : BackoffElapses(a)
              \/ UpdateAlertSettings \/ WindowMoves \/ UNCHANGED vars
       PROVE  Stays
  BY <1>10, HoldersStay DEF ReadSettings, CheckActive, BackoffElapses,
     UpdateAlertSettings, WindowMoves, vars
<1> QED
  BY <1>1, <1>2, <1>3, <1>4, <1>5, <1>6, <1>7, <1>8, <1>9, <1>10, <1>a
     DEF Next, WorkerProceeds, RequestProceeds

(* Every behaviour of workers, requests, Slack and faults is one of        *)
(* AlertLifecycle, for any number of alerts, attempts and executors.       *)
THEOREM ImplementsLifecycleCorrect == Spec => ImplementsLifecycle
<1>1. Init => Lifecycle!Init
  BY DEF Init, Lifecycle!Init, Lifecycle!Alerts, Alerts, Deliverers, NoAlert
<1>2. QED
  BY <1>1, LifecycleStep, IInvCorrect, PTL
  DEF Spec, ImplementsLifecycle, Lifecycle!Spec

-----------------------------------------------------------------------------
(* How often an alert is posted.                                           *)

Paid(a) == received[a] + Cardinality(Posting(a)) <= attempts[a] + asked[a]

LEMMA PostingIsFinite ==
  ASSUME NEW a
  PROVE  IsFiniteSet(Posting(a)) /\ Cardinality(Posting(a)) \in Nat
<1>1. IsFiniteSet(Actors)
  BY AlertDeliveryAssumption DEF Actors
<1>2. Posting(a) \subseteq Actors
  BY DEF Posting, Deliverers
<1>3. QED
  BY <1>1, <1>2, FS_Subset, FS_CardinalityType

(* The three steps that matter: one that starts no post, one that pays for *)
(* a post, and one that ends one.                                          *)
LEMMA NoNewPost ==
  ASSUME TypeOK, NEW a \in Alerts, Paid(a), Posting(a)' \subseteq Posting(a),
         received'[a] = received[a], attempts'[a] = attempts[a], asked'[a] = asked[a]
  PROVE  Paid(a)'
<1> DEFINE P == Posting(a)
           Q == Posting(a)'
<1>1. Cardinality(Q) <= Cardinality(P) /\ Cardinality(P) \in Nat /\ Cardinality(Q) \in Nat
  BY PostingIsFinite, FS_Subset, FS_CardinalityType
<1>2. /\ received[a] \in Nat /\ attempts[a] \in Nat /\ asked[a] \in Nat
      /\ received[a] + Cardinality(P) <= attempts[a] + asked[a]
  BY AlertDeliveryAssumption DEF TypeOK, RowTypes, Paid
<1>3. received'[a] + Cardinality(Q) <= attempts'[a] + asked'[a]
  <2> HIDE DEF P, Q
  <2> QED BY <1>1, <1>2
<1>4. QED
  BY <1>3 DEF Paid

LEMMA PaidPost ==
  ASSUME TypeOK, NEW a \in Alerts, Paid(a), NEW x,
         Posting(a)' = Posting(a) \cup {x}, received'[a] = received[a],
         \/ attempts'[a] = attempts[a] + 1 /\ asked'[a] = asked[a]
         \/ attempts'[a] = attempts[a] /\ asked'[a] = asked[a] + 1
  PROVE  Paid(a)'
<1> DEFINE P == Posting(a)
           Q == Posting(a)'
<1>1. /\ Cardinality(P) \in Nat /\ Cardinality(Q) \in Nat
      /\ Cardinality(Q) <= Cardinality(P) + 1
  <2>1. IsFiniteSet(P) /\ Cardinality(P) \in Nat /\ Q = P \cup {x}
    BY PostingIsFinite
  <2> HIDE DEF P, Q
  <2>2. Cardinality(Q) = IF x \in P THEN Cardinality(P) ELSE Cardinality(P) + 1
    BY <2>1, FS_AddElement
  <2>3. QED
    BY <2>1, <2>2
<1>2. /\ received[a] \in Nat /\ attempts[a] \in Nat /\ asked[a] \in Nat
      /\ received[a] + Cardinality(P) <= attempts[a] + asked[a]
  BY AlertDeliveryAssumption DEF TypeOK, RowTypes, Paid
<1>3. received'[a] + Cardinality(Q) <= attempts'[a] + asked'[a]
  <2> HIDE DEF P, Q
  <2> QED BY <1>1, <1>2
<1>4. QED
  BY <1>3 DEF Paid

LEMMA EndedPost ==
  ASSUME TypeOK, NEW a \in Alerts, Paid(a), NEW x \in Posting(a),
         Posting(a)' = Posting(a) \ {x}, received'[a] = received[a] + 1,
         attempts'[a] = attempts[a], asked'[a] = asked[a]
  PROVE  Paid(a)'
<1> DEFINE P == Posting(a)
           Q == Posting(a)'
<1>1. /\ Cardinality(P) \in Nat /\ Cardinality(Q) \in Nat
      /\ Cardinality(Q) = Cardinality(P) - 1
  BY PostingIsFinite, FS_RemoveElement, FS_CardinalityType
<1>2. /\ received[a] \in Nat /\ attempts[a] \in Nat /\ asked[a] \in Nat
      /\ received[a] + Cardinality(P) <= attempts[a] + asked[a]
  BY AlertDeliveryAssumption DEF TypeOK, RowTypes, Paid
<1>3. received'[a] + Cardinality(Q) <= attempts'[a] + asked'[a]
  <2> HIDE DEF P, Q
  <2> QED BY <1>1, <1>2
<1>4. QED
  BY <1>3 DEF Paid

(* Executor x takes alert b, which attempts or asked pays for.             *)
LEMMA TakePaid ==
  ASSUME TypeOK, NEW x \in Actors, NEW b \in Alerts, NEW n, Take(x, b, n),
         received' = received,
         \/ attempts' = [attempts EXCEPT ![b] = @ + 1] /\ asked' = asked
         \/ attempts' = attempts /\ asked' = [asked EXCEPT ![b] = @ + 1],
         NEW a \in Alerts, Paid(a)
  PROVE  Paid(a)'
<1>1. /\ pc[x] = "idle" /\ pc'[x] = "posting" /\ item'[x] = b
      /\ \A y \in Actors \ {x} : pc'[y] = pc[y] /\ item'[y] = item[y]
  BY DEF TypeOK, ActorTypes, Take, Goto
<1>2. CASE a = b
  <2>1. Posting(a)' = Posting(a) \cup {x}
    BY <1>1, <1>2 DEF Posting, Deliverers
  <2>2. \/ attempts'[a] = attempts[a] + 1 /\ asked'[a] = asked[a]
        \/ attempts'[a] = attempts[a] /\ asked'[a] = asked[a] + 1
    BY <1>2 DEF TypeOK, RowTypes
  <2>3. QED
    BY <2>1, <2>2, PaidPost
<1>3. CASE a # b
  <2>1. Posting(a)' \subseteq Posting(a)
    BY <1>1, <1>3 DEF Posting, Deliverers
  <2>2. attempts'[a] = attempts[a] /\ asked'[a] = asked[a]
    BY <1>3 DEF TypeOK, RowTypes
  <2>3. QED
    BY <2>1, <2>2, NoNewPost
<1>4. QED
  BY <1>2, <1>3

(* Slack answers executor x, or its answer is lost.                        *)
LEMMA AnswerPaid ==
  ASSUME TypeOK, NEW x \in Actors, DeliverSlackMessage(x), NEW a \in Alerts, Paid(a)
  PROVE  Paid(a)'
<1>1. /\ pc[x] = "posting" /\ pc'[x] # "posting" /\ item' = item
      /\ \A y \in Actors \ {x} : pc'[y] = pc[y]
      /\ attempts' = attempts /\ asked' = asked
  BY DEF TypeOK, ActorTypes, DeliverSlackMessage, Goto, deliveryVars
<1>2. Posting(a)' = Posting(a) \ {x}
  BY <1>1 DEF Posting, Deliverers
<1>3. CASE item[x] = a /\ received' = [received EXCEPT ![item[x]] = @ + 1]
  <2>1. x \in Posting(a) /\ received'[a] = received[a] + 1
    BY <1>1, <1>3 DEF Posting, Deliverers, TypeOK, RowTypes
  <2>2. QED
    BY <1>1, <1>2, <2>1, EndedPost
<1>4. CASE item[x] # a \/ received' = received
  <2>1. received'[a] = received[a]
    BY <1>4 DEF DeliverSlackMessage, TypeOK, RowTypes, deliveryVars
  <2>2. QED
    BY <1>1, <1>2, <2>1, NoNewPost
<1>5. QED
  BY <1>3, <1>4 DEF DeliverSlackMessage, deliveryVars

LEMMA PaidStep ==
  ASSUME TypeOK, [Next]_vars, NEW a \in Alerts, Paid(a)
  PROVE  Paid(a)'
<1> USE DEF settingsVars, deliveryVars, actorVars
<1>a. Workers \subseteq Actors /\ Requests \subseteq Actors
  BY DEF Actors
<1>b. pc \in [Actors -> Steps] /\ item \in [Actors -> Alerts \cup {NoAlert}]
  BY DEF TypeOK, ActorTypes
<1>1. ASSUME NEW w \in Workers, NEW b \in Alerts, ClaimNextAlert(w, b)
      PROVE  Paid(a)'
  BY <1>1, <1>a, TakePaid DEF ClaimNextAlert
<1>2. ASSUME NEW r \in Requests, NEW b \in Alerts, DeliverAlert(r, b)
      PROVE  Paid(a)'
  BY <1>2, <1>a, TakePaid DEF DeliverAlert
<1>3. ASSUME NEW x \in Actors, DeliverSlackMessage(x) PROVE Paid(a)'
  BY <1>3, AnswerPaid
<1>4. ASSUME NEW x \in Actors, Release(x), UNCHANGED <<received, attempts, asked>>
      PROVE  Paid(a)'
  <2>1. Posting(a)' \subseteq Posting(a)
    BY <1>4, <1>b DEF Release, Posting, Deliverers
  <2>2. QED
    BY <1>4, <2>1, NoNewPost
<1>5. ASSUME NEW r \in Requests,
             CheckActive(r) \/ \E f \in Findings : ReadSettings(r, f)
      PROVE  Paid(a)'
  <2>1. /\ pc'[r] # "posting" /\ item' = item
        /\ \A y \in Actors \ {r} : pc'[y] = pc[y]
        /\ UNCHANGED <<received, attempts, asked>>
    BY <1>5, <1>a, <1>b DEF CheckActive, ReadSettings, Goto
  <2>2. Posting(a)' \subseteq Posting(a)
    BY <2>1 DEF Posting, Deliverers
  <2>3. QED
    BY <2>1, <2>2, NoNewPost
<1>6. ASSUME UNCHANGED <<pc, item, received, attempts, asked>> PROVE Paid(a)'
  <2>1. Posting(a)' = Posting(a)
    BY <1>6 DEF Posting, Deliverers
  <2>2. QED
    BY <1>6, <2>1, NoNewPost
<1>7. ASSUME NEW x \in Actors,
             Abort(x) \/ WorkerRecordsSent(x) \/ WorkerRecordsFailed(x)
               \/ RequestRecords(x) \/ InsertAlert(x)
      PROVE  Paid(a)'
  BY <1>4, <1>7 DEF Abort, WorkerRecordsSent, WorkerRecordsFailed, RequestRecords,
                    InsertAlert
<1>8. ASSUME \/ \E b \in Alerts : RetryAlert(b) \/ BackoffElapses(b)
             \/ UpdateAlertSettings \/ WindowMoves \/ UNCHANGED vars
      PROVE  Paid(a)'
  BY <1>6, <1>8 DEF RetryAlert, BackoffElapses, UpdateAlertSettings, WindowMoves, vars
<1>9. QED
  BY <1>1, <1>2, <1>3, <1>5, <1>7, <1>8, <1>a DEF Next, WorkerProceeds, RequestProceeds

(* However many replicas and requests deliver an alert at once, whatever   *)
(* answers are lost and whatever dies, Slack gets no more messages of it   *)
(* than the attempts workers have claimed (worker 399-401) and the         *)
(* deliveries users have asked for (api 1766): MaxAttempts of workers.     *)
THEOREM PostsArePaidCorrect == Spec => []PostsArePaid
<1>1. Init => PostsArePaid
  <2> SUFFICES ASSUME Init, NEW a \in Alerts
               PROVE  received[a] + Cardinality(Posting(a)) <= attempts[a] + asked[a]
    BY DEF PostsArePaid
  <2>1. Posting(a) = {}
    BY DEF Init, Posting, Deliverers
  <2>2. Cardinality(Posting(a)) = 0
    BY <2>1, FS_EmptySet
  <2>3. QED
    BY <2>2 DEF Init
<1>2. TypeOK /\ PostsArePaid /\ [Next]_vars => PostsArePaid'
  BY PaidStep DEF PostsArePaid, Paid
<1>3. QED
  BY <1>1, <1>2, TypeCorrect, PTL DEF Spec

-----------------------------------------------------------------------------
(* What holds where the minimum severity stays.                            *)

(* The row an insert fills was never touched.                              *)
LEMMA InsertIsFresh ==
  ASSUME IInv, NEW r \in Requests, InsertAlert(r)
  PROVE  /\ inserted + 1 \in Alerts
         /\ status[inserted + 1] = "absent"
         /\ received[inserted + 1] = 0 /\ attempts[inserted + 1] = 0
         /\ \A a \in Alerts \ {inserted + 1} :
              status'[a] = status[a] /\ about'[a] = about[a]
         /\ about'[inserted + 1] = finding[r]
         /\ status'[inserted + 1] = IF pc[r] = "queueing" THEN "queued" ELSE "suppressed"
<1>1. inserted \in 0 .. MaxAlerts /\ inserted < MaxAlerts /\ MaxAlerts \in Nat
  BY AlertDeliveryAssumption DEF IInv, TypeOK, RowTypes, InsertAlert
<1>2. inserted + 1 \in Alerts /\ inserted + 1 > inserted
  BY <1>1 DEF Alerts
<1>3. status[inserted + 1] = "absent"
  BY <1>2 DEF IInv, AlertsAgree
<1>4. received[inserted + 1] = 0 /\ attempts[inserted + 1] = 0
  BY <1>2, <1>3 DEF IInv, AlertsAgree
<1> QED BY <1>2, <1>3, <1>4 DEF InsertAlert, IInv, TypeOK, RowTypes

(* What a step may do to the queueing of request r.                        *)
LEMMA QueueingStep ==
  ASSUME IInv, [Next]_vars, NEW r \in Requests, pc'[r] \in QueueingSteps
  PROVE  \/ /\ UNCHANGED <<pc[r], cut[r], finding[r]>>
            /\ \A q \in Requests : InsertAlert(q) => q # r
         \/ \E f \in Findings : ReadSettings(r, f)
         \/ CheckActive(r)
<1> USE DEF settingsVars, deliveryVars, actorVars
<1> DEFINE Rests == UNCHANGED <<pc[r], cut[r], finding[r]>>
           Others == \A q \in Requests : InsertAlert(q) => q # r
<1>a. Workers \subseteq Actors /\ Requests \subseteq Actors
  BY DEF Actors
<1>b. ActorTypes
  BY DEF IInv, TypeOK
<1>c. \A w \in Workers : w # r
  BY AlertDeliveryAssumption
<1>d. Others
  BY <1>a, <1>b DEF ActorTypes, InsertAlert, Release, QueueingSteps
<1>1. ASSUME NEW x \in Actors, Release(x) PROVE Rests
  BY <1>1, <1>a, <1>b DEF ActorTypes, Release, QueueingSteps
<1>2. ASSUME NEW x \in Actors, NEW from, NEW to \in DeliverySteps, Goto(x, from, to),
             UNCHANGED <<finding, cut>>
      PROVE  Rests
  BY <1>2, <1>a, <1>b DEF ActorTypes, Goto, DeliverySteps, QueueingSteps
<1>3. ASSUME NEW x \in Actors, DeliverSlackMessage(x) PROVE Rests
  BY <1>2, <1>3 DEF DeliverSlackMessage, DeliverySteps
<1>4. ASSUME NEW w \in Workers, NEW a \in Alerts, ClaimNextAlert(w, a) PROVE Rests
  BY <1>2, <1>4, <1>a DEF ClaimNextAlert, Take, DeliverySteps
<1>5. ASSUME NEW q \in Requests, NEW a \in Alerts, DeliverAlert(q, a) PROVE Rests
  BY <1>2, <1>5, <1>a DEF DeliverAlert, Take, DeliverySteps
<1>6. ASSUME NEW x \in Actors, \/ WorkerRecordsSent(x) \/ WorkerRecordsFailed(x)
                               \/ RequestRecords(x) \/ InsertAlert(x) \/ Abort(x)
      PROVE  Rests
  BY <1>1, <1>6 DEF WorkerRecordsSent, WorkerRecordsFailed, RequestRecords, InsertAlert,
                    Abort
<1>7. ASSUME NEW q \in Requests, q # r,
             (\E f \in Findings : ReadSettings(q, f)) \/ CheckActive(q)
      PROVE  Rests
  BY <1>7, <1>a, <1>b DEF ActorTypes, ReadSettings, CheckActive, Goto
<1>8. ASSUME \/ \E a \in Alerts : RetryAlert(a) \/ BackoffElapses(a)
             \/ UpdateAlertSettings \/ WindowMoves \/ UNCHANGED vars
      PROVE  Rests
  BY <1>8 DEF RetryAlert, BackoffElapses, UpdateAlertSettings, WindowMoves, vars
<1> QED
  BY <1>3, <1>4, <1>5, <1>6, <1>7, <1>8, <1>a, <1>d
     DEF Next, WorkerProceeds, RequestProceeds

(* An alert meant for delivery stays one, about the same finding.          *)
LEMMA OriginalStays ==
  ASSUME IInv, [Next]_vars, NEW a \in Alerts,
         status[a] \in {"queued", "sent", "failed"}
  PROVE  about'[a] = about[a] /\ status'[a] \in {"queued", "sent", "failed"}
<1> USE DEF settingsVars, deliveryVars, actorVars
<1>a. RowTypes
  BY DEF IInv, TypeOK
<1>1. CASE \E r \in Requests : InsertAlert(r)
  <2>1. PICK r \in Requests : InsertAlert(r)
    BY <1>1
  <2>2. a # inserted + 1
    BY <2>1, InsertIsFresh
  <2> QED BY <2>1, <2>2, InsertIsFresh
<1>2. ASSUME NEW u \in Workers, NEW b \in Alerts, ClaimNextAlert(u, b)
      PROVE  about' = about /\ status'[a] \in {"queued", status[a]}
  BY <1>2, <1>a DEF RowTypes, ClaimNextAlert
<1>3. ASSUME NEW u \in Workers, WorkerRecordsSent(u) \/ WorkerRecordsFailed(u)
      PROVE  about' = about /\ status'[a] \in {"sent", "failed", status[a]}
  BY <1>3, <1>a DEF RowTypes, WorkerRecordsSent, WorkerRecordsFailed
<1>4. ASSUME NEW r \in Requests, RequestRecords(r)
      PROVE  about' = about /\ status'[a] \in {"sent", "failed", status[a]}
  BY <1>4, <1>a DEF RowTypes, RequestRecords
<1>5. ASSUME NEW b \in Alerts, RetryAlert(b)
      PROVE  about' = about /\ status'[a] \in {"queued", status[a]}
  BY <1>5, <1>a DEF RowTypes, RetryAlert
<1>6. ASSUME \/ \E x \in Actors : DeliverSlackMessage(x) \/ Abort(x)
             \/ \E r \in Requests : \/ \E f \in Findings : ReadSettings(r, f)
                                    \/ CheckActive(r)
                                    \/ \E b \in Alerts : DeliverAlert(r, b)
             \/ \E b \in Alerts : BackoffElapses(b)
             \/ UpdateAlertSettings \/ WindowMoves \/ UNCHANGED vars
      PROVE  about' = about /\ status' = status
  BY <1>6 DEF DeliverSlackMessage, Abort, ReadSettings, CheckActive, DeliverAlert,
              BackoffElapses, UpdateAlertSettings, WindowMoves, vars
<1> QED
  BY <1>1, <1>2, <1>3, <1>4, <1>5, <1>6
     DEF Next, WorkerProceeds, RequestProceeds, Actors

(* A suppressed alert was, or this step inserts it.                        *)
LEMMA SuppressionStep ==
  ASSUME IInv, [Next]_vars, NEW a \in Alerts, status'[a] = "suppressed"
  PROVE  \/ status[a] = "suppressed" /\ about'[a] = about[a]
         \/ \E r \in Requests : /\ pc[r] \in {"muting", "masking"}
                                /\ about'[a] = finding[r]
<1> USE DEF settingsVars, deliveryVars, actorVars
<1> DEFINE Stays == status[a] = "suppressed" /\ about'[a] = about[a]
<1>a. RowTypes
  BY DEF IInv, TypeOK
<1>1. ASSUME NEW r \in Requests, InsertAlert(r)
      PROVE  Stays \/ (pc[r] \in {"muting", "masking"} /\ about'[a] = finding[r])
  <2>1. pc[r] \in {"queueing", "muting", "masking"}
    BY <1>1 DEF InsertAlert
  <2>2. CASE a = inserted + 1
    BY <1>1, <2>1, <2>2, InsertIsFresh
  <2>3. CASE a # inserted + 1
    BY <1>1, <2>3, InsertIsFresh
  <2> QED BY <2>2, <2>3
<1>2. ASSUME NEW u \in Workers, NEW b \in Alerts, ClaimNextAlert(u, b) PROVE Stays
  BY <1>2, <1>a DEF RowTypes, ClaimNextAlert
<1>3. ASSUME NEW u \in Workers, WorkerRecordsSent(u) \/ WorkerRecordsFailed(u)
      PROVE  Stays
  BY <1>3, <1>a DEF RowTypes, WorkerRecordsSent, WorkerRecordsFailed
<1>4. ASSUME NEW r \in Requests, RequestRecords(r) PROVE Stays
  BY <1>4, <1>a DEF RowTypes, RequestRecords
<1>5. ASSUME NEW b \in Alerts, RetryAlert(b) PROVE Stays
  BY <1>5, <1>a DEF RowTypes, RetryAlert
<1>6. ASSUME \/ \E x \in Actors : DeliverSlackMessage(x) \/ Abort(x)
             \/ \E r \in Requests : \/ \E f \in Findings : ReadSettings(r, f)
                                    \/ CheckActive(r)
                                    \/ \E b \in Alerts : DeliverAlert(r, b)
             \/ \E b \in Alerts : BackoffElapses(b)
             \/ UpdateAlertSettings \/ WindowMoves \/ UNCHANGED vars
      PROVE  Stays
  BY <1>6 DEF DeliverSlackMessage, Abort, ReadSettings, CheckActive, DeliverAlert,
              BackoffElapses, UpdateAlertSettings, WindowMoves, vars
<1> QED
  BY <1>1, <1>2, <1>3, <1>4, <1>5, <1>6
     DEF Next, WorkerProceeds, RequestProceeds, Actors

LEMMA SuppressedForCauseStep ==
  ASSUME MinimumStays, IInv, SuppressedForCause, SuppressedHasOriginal, [Next]_vars
  PROVE  SuppressedForCause' /\ SuppressedHasOriginal'
<1> USE DEF settingsVars, deliveryVars, actorVars
<1>a. Requests \subseteq Actors /\ RowTypes /\ ActorTypes
  BY DEF Actors, IInv, TypeOK
<1>b. High \in Nat /\ \A f \in Findings : SeverityOf[f] \in Nat
  BY AlertDeliveryAssumption DEF High, Severities
<1>1. minimum = High /\ minimum' = High
  <2>1. minimum = High
    BY DEF SuppressedForCause
  <2>2. CASE UpdateAlertSettings
    BY <2>1, <2>2 DEF MinimumStays, UpdateAlertSettings
  <2>3. CASE ~UpdateAlertSettings
    BY <2>1, <2>3
       DEF Next, WorkerProceeds, RequestProceeds, ClaimNextAlert, DeliverSlackMessage,
           WorkerRecordsSent, WorkerRecordsFailed, Abort, ReadSettings, DeliverAlert,
           CheckActive, InsertAlert, RequestRecords, RetryAlert, BackoffElapses,
           WindowMoves, vars
  <2> QED BY <2>1, <2>2, <2>3
<1>2. ASSUME NEW f, HasOriginal(f) PROVE HasOriginal(f)'
  BY <1>2, OriginalStays DEF HasOriginal
<1>3. ASSUME NEW r \in Requests, pc'[r] \in QueueingSteps
      PROVE  /\ finding'[r] \in Findings
             /\ pc'[r] = "muting" => SeverityOf[finding'[r]] < High
             /\ pc'[r] = "masking" =>
                  SeverityOf[finding'[r]] < High \/ HasOriginal(finding[r])'
  <2>1. CASE UNCHANGED <<pc[r], cut[r], finding[r]>>
    BY <1>2, <1>3, <2>1 DEF SuppressedForCause
  <2>2. CASE \E f \in Findings : ReadSettings(r, f)
    BY <1>1, <1>a, <2>2 DEF ActorTypes, ReadSettings, Goto
  <2>3. CASE CheckActive(r)
    <3>1. /\ pc[r] = "checking" /\ finding'[r] = finding[r]
          /\ pc'[r] = "masking" => ActiveAlertForFinding(finding[r], cut[r])
          /\ pc'[r] # "muting"
      BY <1>a, <2>3 DEF ActorTypes, CheckActive, Goto
    <3>2. finding[r] \in Findings
      BY <3>1 DEF SuppressedForCause, QueueingSteps
    <3>3. ASSUME NEW a \in Alerts, about[a] = finding[r],
                 status[a] \in {"queued", "sent", "suppressed"}
          PROVE  SeverityOf[finding[r]] < High \/ HasOriginal(finding[r])
      BY <1>1, <1>b, <3>2, <3>3 DEF SuppressedHasOriginal, HasOriginal
    <3> QED BY <1>2, <3>1, <3>2, <3>3 DEF ActiveAlertForFinding
  <2> QED BY <1>3, <2>1, <2>2, <2>3, QueueingStep
<1>4. SuppressedForCause'
  <2>1. \A r \in Requests : pc'[r] \in {"muting", "masking"} => pc'[r] \in QueueingSteps
    BY DEF QueueingSteps
  <2> QED BY <1>1, <1>3, <2>1 DEF SuppressedForCause
<1>5. ASSUME NEW a \in Alerts, status'[a] = "suppressed",
             SeverityOf[about'[a]] >= High
      PROVE  HasOriginal(about[a])'
  <2>1. CASE status[a] = "suppressed" /\ about'[a] = about[a]
    <3>1. HasOriginal(about[a])
      BY <1>1, <1>5, <2>1 DEF SuppressedHasOriginal, HasOriginal
    <3> QED BY <1>2, <2>1, <3>1
  <2>2. ASSUME NEW r \in Requests, pc[r] \in {"muting", "masking"},
               about'[a] = finding[r]
        PROVE  HasOriginal(about[a])'
    <3>1. finding[r] \in Findings
      BY <2>2 DEF SuppressedForCause, QueueingSteps
    <3>2. HasOriginal(finding[r])
      BY <1>5, <1>b, <2>2, <3>1 DEF SuppressedForCause
    <3> QED BY <1>2, <2>2, <3>2
  <2> QED BY <1>5, <2>1, <2>2, SuppressionStep
<1>6. SuppressedHasOriginal'
  BY <1>1, <1>5 DEF SuppressedHasOriginal, HasOriginal
<1> QED BY <1>4, <1>6

(* As long as the minimum severity stays, a finding severe enough has a    *)
(* suppressed alert only where another of its alerts was meant for         *)
(* delivery, however many requests queue alerts at once and whatever       *)
(* workers, Slack and crashes do.  Raised and lowered again, a minimum     *)
(* leaves a finding that no alert tells of (api 1620-1662).                *)
THEOREM SuppressedHasOriginalCorrect ==
  ASSUME MinimumStays
  PROVE  Spec => []SuppressedHasOriginal
<1>1. Init => SuppressedForCause /\ SuppressedHasOriginal
  BY DEF Init, SuppressedForCause, SuppressedHasOriginal, Actors, QueueingSteps
<1>2. IInv /\ SuppressedForCause /\ SuppressedHasOriginal /\ [Next]_vars
        => SuppressedForCause' /\ SuppressedHasOriginal'
  BY SuppressedForCauseStep
<1> QED BY <1>1, <1>2, IInvCorrect, PTL DEF Spec
=============================================================================
