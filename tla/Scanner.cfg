CONSTANTS
  Urls = {home, other, plain}
  Home = home
  Nowhere = Nowhere
  MAX_REDIRECTS = 5
SPECIFICATION FairSpec
INVARIANTS
  ProbeTellsThePath
  FindingsFitAnswers
PROPERTIES
  ScanEnds
CHECK_DEADLOCK FALSE
