--------------------------- MODULE AlertLifecycle ---------------------------
(***************************************************************************)
(* What alert delivery promises a reader of the rows of alerts and of the  *)
(* Slack channel, whoever delivers an alert and whatever fails: the life   *)
(* of every alert, how often Slack has taken it, and who is delivering it. *)
(* Alerts may be taken twice, and an outcome may be recorded over another; *)
(* AlertDelivery implements this specification.                            *)
(***************************************************************************)
EXTENDS Naturals

CONSTANTS MaxAlerts, MaxAttempts, Workers, Requests

VARIABLES
  status,    \* the alert's status, "absent" until it is queued
  sentAt,    \* whether it has a time of sending
  attempts,  \* how many attempts workers have made
  received,  \* how often Slack took it
  holders    \* the executors that are delivering it

Alerts == 1 .. MaxAlerts
vars   == <<status, sentAt, attempts, received, holders>>

Init ==
  /\ status = [a \in Alerts |-> "absent"]
  /\ sentAt = [a \in Alerts |-> FALSE]
  /\ attempts = [a \in Alerts |-> 0]
  /\ received = [a \in Alerts |-> 0]
  /\ holders = [a \in Alerts |-> {}]

Become(a, s) == status' = [status EXCEPT ![a] = s]

(* A new alert is to be delivered, or is suppressed for good.              *)
Submit(a, s) ==
  /\ status[a] = "absent"
  /\ s \in {"queued", "suppressed"}
  /\ Become(a, s)
  /\ UNCHANGED <<sentAt, attempts, received, holders>>

(* A worker makes one more attempt while there is one left ...             *)
Claim(w, a) ==
  /\ status[a] \in {"queued", "failed"}
  /\ attempts[a] < MaxAttempts
  /\ Become(a, "queued")
  /\ attempts' = [attempts EXCEPT ![a] = @ + 1]
  /\ holders' = [holders EXCEPT ![a] = @ \cup {w}]
  /\ UNCHANGED <<sentAt, received>>

(* ... and a request delivers an alert that is queued.                     *)
Deliver(r, a) ==
  /\ status[a] = "queued"
  /\ holders' = [holders EXCEPT ![a] = @ \cup {r}]
  /\ UNCHANGED <<status, sentAt, attempts, received>>

(* Slack only takes an alert that someone is delivering.                   *)
Post(a) ==
  /\ holders[a] # {}
  /\ received' = [received EXCEPT ![a] = @ + 1]
  /\ UNCHANGED <<status, sentAt, attempts, holders>>

(* Who delivers an alert records one outcome at most, and that it was sent *)
(* only once Slack has taken it ...                                        *)
Record(x, a, s) ==
  /\ x \in holders[a]
  /\ \/ s = "sent" /\ received[a] > 0
     \/ s = "failed"
  /\ Become(a, s)
  /\ sentAt' = [sentAt EXCEPT ![a] = s = "sent"]
  /\ holders' = [holders EXCEPT ![a] = @ \ {x}]
  /\ UNCHANGED <<attempts, received>>

(* ... or gives up without a trace.                                        *)
Drop(x, a) ==
  /\ x \in holders[a]
  /\ holders' = [holders EXCEPT ![a] = @ \ {x}]
  /\ UNCHANGED <<status, sentAt, attempts, received>>

Retry(a) ==
  /\ status[a] = "failed"
  /\ Become(a, "queued")
  /\ UNCHANGED <<sentAt, attempts, received, holders>>

Next ==
  \E a \in Alerts :
    \/ \E s \in {"queued", "suppressed"} : Submit(a, s)
    \/ \E w \in Workers : Claim(w, a)
    \/ \E r \in Requests : Deliver(r, a)
    \/ Post(a)
    \/ \E x \in Workers \cup Requests :
         (\E s \in {"sent", "failed"} : Record(x, a, s)) \/ Drop(x, a)
    \/ Retry(a)

Spec == Init /\ [][Next]_vars
=============================================================================
