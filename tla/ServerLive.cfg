SPECIFICATION FairSpec
CONSTANTS
  c1 = c1
  c2 = c2
  Conns = {c1, c2}
  Free = Free
  Drain = Drain
  MaxConnections = 2
  MaxRequests = 1
  MaxWorkers = 3
PROPERTIES ShutdownCompletes RequestsEnd
