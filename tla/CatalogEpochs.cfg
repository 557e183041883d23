SPECIFICATION Spec
CONSTANTS
  c1 = c1
  c2 = c2
  Clients = {c1}
  Worker = Worker
  Free = Free
  Native = Native
  Backend = "apt"
  Kinds = {"explicit"}
  MaxRepo = 0
  MaxInst = 1
  MaxRequests = 1
  MaxRounds = 1
  MaxCrashes = 0
INVARIANT ListMatchesCount
