CONSTANTS
  MaxJobs = 3
  MaxDrafts = 1
  Assets = {a1}
  Workers = {w1, w2}
  Requests = {r1}
  Enqueuers = {e1}
  Routes <- OneRoute
  Plans <- MixedPlans
  Faults <- AllFaults
SPECIFICATION FairSpec
INVARIANTS TypeOK SingleExecutor ResultFitsJob CompletedIsWhole WorkerFailureIsClean
PROPERTIES AbandonedIsStuck ImplementsLifecycle OvertakersDwindle QueuedIsClaimed
CHECK_DEADLOCK FALSE
