------------------------- MODULE MCFindingLifecycle -------------------------
(* Small instances of the finding lifecycle for TLC.                       *)
EXTENDS FindingLifecycle, TLC

(* The domain has no DMARC record; its SPF record comes and goes.          *)
NoRecord  == [kind |-> "dns_policy", dmarc |-> FALSE, spf |-> FALSE]
OnlySpf   == [kind |-> "dns_policy", dmarc |-> FALSE, spf |-> TRUE]

ComesAndGoes == {NoRecord, OnlySpf}

EveryCall  == AllCalls

(* One status of each kind: resolved and reopened by scans, resolved and   *)
(* left alone, not resolved.                                               *)
SomeMarks == {"remediated", "accepted_risk", "open"}
SomeMoves == {"remediated", "accepted_risk", "blocked"}

Symmetry == Permutations(Requests) \cup Permutations(Tasks)
=============================================================================
