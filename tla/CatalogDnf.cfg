SPECIFICATION Spec
CONSTANTS
  c1 = c1
  c2 = c2
  Clients = {c1, c2}
  Worker = Worker
  Free = Free
  Native = Native
  Backend = "dnf"
  Kinds = {"search", "refresh"}
  MaxRepo = 1
  MaxInst = 3
  MaxRequests = 1
  MaxRounds = 0
  MaxCrashes = 0
SYMMETRY ClientSymmetry
INVARIANTS TypeOK ReadsFresh
