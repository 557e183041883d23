SPECIFICATION Spec
CONSTANTS
  c1 = c1
  c2 = c2
  Clients = {c1}
  Worker = Worker
  Free = Free
  Native = Native
  Backend = "arch"
  Kinds = {"status", "explicit", "refresh"}
  MaxRepo = 0
  MaxInst = 1
  MaxRequests = 2
  MaxRounds = 1
  MaxCrashes = 1
INVARIANTS CacheExact IndexUntorn ReadsFresh
