CONSTANTS
  MaxResults = 1
  MaxDetections = 3
  Observations <- ComesAndGoes
  Marks <- SomeMarks
  Moves <- SomeMoves
  Tasks = {t1, t2}
  Workers = {w1}
  Requests = {r1, r2}
  Calls <- EveryCall
  Crashes = TRUE
SPECIFICATION Spec
INVARIANTS TypeOK RiskFitsOccurrences ResolutionIsDated CountsDetections TaskAgrees
CHECK_DEADLOCK FALSE
SYMMETRY Symmetry
