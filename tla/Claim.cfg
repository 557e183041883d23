SPECIFICATION Spec
CONSTANTS
  d1 = d1
  d2 = d2
  d3 = d3
  Daemons = {d1, d2, d3}
  None = None
  Inodes = {1, 2, 3}
INVARIANTS NoStaleAfterExit BindSucceeds
PROPERTIES LiveSocketKept ImplementsOneDaemon
