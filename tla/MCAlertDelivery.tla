-------------------------- MODULE MCAlertDelivery --------------------------
(* Small instances of alert delivery for TLC.                              *)
EXTENDS AlertDelivery, TLC

EveryCall  == AllCalls
Serially   == {"queue", "retry"}
QueueOnly  == {"queue"}
EveryFault == FaultKinds
Refusals   == {"refuse"}

(* One finding at the default minimum and one below it.                    *)
CONSTANTS fHigh, fLow
OneFinding  == {fHigh}
TwoFindings == {fHigh, fLow}
OneSeverity == [f \in {fHigh} |-> High]
Ranks       == fHigh :> High @@ fLow :> 1
=============================================================================
