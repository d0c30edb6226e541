CONSTANTS
  fHigh = fHigh
  fLow = fLow
  MaxAlerts = 1
  MaxAttempts = 3
  MaxAsked = 0
  Findings <- OneFinding
  SeverityOf <- OneSeverity
  Minimums = {}
  Workers = {w1, w2}
  Requests = {r1}
  Calls <- QueueOnly
  Faults = {}
SPECIFICATION Spec
INVARIANTS AtMostOnce
CHECK_DEADLOCK FALSE
