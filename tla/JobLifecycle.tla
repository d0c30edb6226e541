---------------------------- MODULE JobLifecycle ----------------------------
(***************************************************************************)
(* What the scan queue promises a client who only reads scan_jobs and      *)
(* scan_results: the life of every job, as its status and the number of    *)
(* its result rows, whoever executes it and whatever fails.  The queue of  *)
(* ScanQueue implements this specification.                                *)
(***************************************************************************)
EXTENDS Naturals

CONSTANT MaxJobs

VARIABLES
  status,  \* the job's status, "absent" until it is submitted
  rows     \* how many result rows the job has

Jobs == 1 .. MaxJobs
vars == <<status, rows>>

Init ==
  /\ status = [j \in Jobs |-> "absent"]
  /\ rows = [j \in Jobs |-> 0]

(* Jobs are submitted in batches: a profile's jobs appear together.        *)
Submit(B) ==
  /\ \A j \in B : status[j] = "absent"
  /\ status' = [j \in Jobs |-> IF j \in B THEN "queued" ELSE status[j]]
  /\ rows' = rows

Move(j, from, to) ==
  /\ status[j] = from
  /\ status' = [status EXCEPT ![j] = to]

Start(j) == Move(j, "queued", "running") /\ rows' = rows

(* The only row a job ever gets is stored while it is running, alone ...   *)
Record(j) ==
  /\ status[j] = "running"
  /\ rows[j] = 0
  /\ rows' = [rows EXCEPT ![j] = 1]
  /\ status' = status

(* ... to be completed later, or together with the completion.             *)
Complete(j) == Move(j, "running", "completed") /\ rows[j] = 1 /\ rows' = rows

RecordAndComplete(j) ==
  /\ Move(j, "running", "completed")
  /\ rows[j] = 0
  /\ rows' = [rows EXCEPT ![j] = 1]

Fail(j) == Move(j, "running", "failed") /\ rows[j] = 0 /\ rows' = rows

(* A completed job whose completion could not be audited.                  *)
Disown(j) == Move(j, "completed", "failed") /\ rows[j] = 1 /\ rows' = rows

Next ==
  \/ \E B \in SUBSET Jobs : Submit(B)
  \/ \E j \in Jobs :
       \/ Start(j)
       \/ Record(j)
       \/ Complete(j)
       \/ RecordAndComplete(j)
       \/ Fail(j)
       \/ Disown(j)

Spec == Init /\ [][Next]_vars
=============================================================================
