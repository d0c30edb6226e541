CONSTANTS
  fHigh = fHigh
  fLow = fLow
  MaxAlerts = 2
  MaxAttempts = 2
  MaxAsked = 1
  Findings <- TwoFindings
  SeverityOf <- Ranks
  Minimums = {3}
  Workers = {w1, w2}
  Requests = {r1}
  Calls <- EveryCall
  Faults <- EveryFault
SPECIFICATION FairSpec
INVARIANTS TypeOK AttemptsSpentOnce PostsArePaid SuppressedHasOriginal
PROPERTIES ImplementsLifecycle TriedUntilSpent
CHECK_DEADLOCK FALSE
