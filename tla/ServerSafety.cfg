SPECIFICATION Spec
CONSTANTS
  c1 = c1
  c2 = c2
  Conns = {c1, c2}
  Free = Free
  Drain = Drain
  MaxConnections = 2
  MaxRequests = 2
  MaxWorkers = 3
SYMMETRY ConnSymmetry
INVARIANTS CleanExit LeaseNeverLast TwoWorkersAtMost GuardAccounted FailureReported
