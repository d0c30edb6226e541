CONSTANTS
  MaxJobs = 3
  MaxDrafts = 1
  Assets = {a1, a2}
  Workers = {w1, w2}
  Requests = {}
  Enqueuers = {e1}
  Routes = {}
  Plans <- TwoPlans
  Faults <- ScanFault
SPECIFICATION FairSpec
PROPERTIES SubmittedEnds
CHECK_DEADLOCK FALSE
