SPECIFICATION AurFairSpec
CONSTANTS
  r1 = r1
  r2 = r2
  b1 = b1
  b2 = b2
  Runs = {r1, r2}
  Bases = {b1, b2}
  None = None
  MaxConcurrent = 2
  MaxPushes = 1
INVARIANTS BuiltIsReviewed DependenciesFirst SummaryTrue
PROPERTIES SourcesStay BuildsEnd
CHECK_DEADLOCK FALSE
