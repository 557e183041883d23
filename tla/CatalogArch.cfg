SPECIFICATION Spec
CONSTANTS
  c1 = c1
  c2 = c2
  Clients = {c1, c2}
  Worker = Worker
  Free = Free
  Native = Native
  Backend = "arch"
  Kinds = {"search", "debian", "suggest", "info", "status", "explicit", "count", "refresh", "clear"}
  MaxRepo = 1
  MaxInst = 1
  MaxRequests = 1
  MaxRounds = 0
  MaxCrashes = 0
SYMMETRY ClientSymmetry
INVARIANTS CachesCurrent ReadsFresh RefreshFresh
