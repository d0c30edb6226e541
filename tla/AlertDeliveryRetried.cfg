CONSTANTS
  fHigh = fHigh
  fLow = fLow
  MaxAlerts = 1
  MaxAttempts = 3
  MaxAsked = 0
  Findings <- OneFinding
  SeverityOf <- OneSeverity
  Minimums = {}
  Workers = {w1}
  Requests = {r1}
  Calls <- Serially
  Faults <- Refusals
SPECIFICATION FairSpec
PROPERTIES QueuedIsSettled
CHECK_DEADLOCK FALSE
