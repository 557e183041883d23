SPECIFICATION FairSpec
CONSTANTS
  c1 = c1
  c2 = c2
  Clients = {c1, c2}
  Worker = Worker
  Free = Free
  Native = Native
  Backend = "arch"
  Kinds = {"search", "refresh"}
  MaxRepo = 1
  MaxInst = 0
  MaxRequests = 1
  MaxRounds = 0
  MaxCrashes = 0
PROPERTY RequestsComplete
