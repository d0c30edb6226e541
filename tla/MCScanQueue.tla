---------------------------- MODULE MCScanQueue ----------------------------
(* Small instances of the scan queue for TLC.                              *)
EXTENDS ScanQueue, TLC

AllFaults == FaultKinds
ScanFault == {"scan"}

(* One route beside the manual job and the schedules tells a type a        *)
(* request overwrote from the one a job was inserted with; of the two      *)
(* schedules one fills the queue and one leaves room to be overtaken.      *)
OneRoute   == {"dns_policy"}
MixedPlans == {"full_domain_baseline", "http_probe"}

(* Two schedules of one asset come due in the same transaction.            *)
TwoPlans  == {"dns_baseline", "http_probe"}
=============================================================================
