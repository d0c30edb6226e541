CONSTANTS
  MaxJobs = 2
  MaxDrafts = 1
  Assets = {a1}
  Workers = {w1}
  Requests = {r1}
  Enqueuers = {}
  Routes <- OneRoute
  Plans = {}
  Faults <- ScanFault
SPECIFICATION FairSpec
PROPERTIES ClaimedEnds
CHECK_DEADLOCK FALSE
