----------------------------- MODULE RiskScore -----------------------------
(***************************************************************************)
(* The risk score of a finding: the function of crates/shared and the SQL  *)
(* expression with which the worker and the API keep the stored score up   *)
(* to date without calling it again.  All of it fits in 32 bits.           *)
(***************************************************************************)
EXTENDS Integers

SeverityPoints ==
  [info |-> 5, low |-> 20, medium |-> 45, high |-> 70, critical |-> 90]

ConfidencePoints == [low |-> 0, medium |-> 5, high |-> 10]

RiskSeverities  == {"info", "low", "medium", "high", "critical"}
RiskConfidences == {"low", "medium", "high"}

Least(a, b) == IF a <= b THEN a ELSE b

AgePoints(days) == IF days >= 30 THEN 10 ELSE IF days >= 7 THEN 5 ELSE 0

CalculateFindingRiskScore(severity, confidence, occurrences, days, public) ==
  Least(100, SeverityPoints[severity]
               + ConfidencePoints[confidence]
               + (IF public THEN 10 ELSE 0)
               + Least(occurrences - 1, 5) * 4
               + AgePoints(days))

(* The score both executors compute for a draft, whatever its history.     *)
DraftRiskScore(severity, confidence) ==
  CalculateFindingRiskScore(severity, confidence, 1, 0, TRUE)

(* The score a finding detected n times gets when it is detected again.    *)
UpsertedRiskScore(severity, confidence, n) ==
  Least(100, DraftRiskScore(severity, confidence) + Least(20, n * 4))
=============================================================================
