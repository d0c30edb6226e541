CONSTANTS
  MaxSessions = 2
  MaxTokens = 3
  Requests = {r1, r2}
  Window = 1
  MaxAttempts = 2
  MaxTime = 3
SPECIFICATION Spec
INVARIANTS
  TypeOK
  TokenOnce
  ResetCloses
  RefreshReplaces
  AdmittedPerWindow
SYMMETRY Symmetry
CHECK_DEADLOCK FALSE
