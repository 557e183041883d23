SPECIFICATION StoresSpec
CONSTANTS
  p1 = p1
  p2 = p2
  v1 = v1
  v2 = v2
  Procs = {p1, p2}
  Versions = {v1, v2}
  Nobody = Nobody
  Managers = {"plain", "pi", "php", "swift", "erlang", "rust"}
  Syncers = {p1, p2}
  First = First
  Absent = Absent
  LastFile = 4
  Updaters = {p1, p2}
  Shipped = Shipped
  Missing = Missing
  Recorders = {p1, p2}
  NoRecorder = NoRecorder
  MaxLive = 2
  MaxEntries = 5
  MaxDamage = 1
  Trackers = {p1, p2}
  NoTracker = NoTracker
  MaxDay = 3
  MonthLength = 2
  MaxTracked = 4
INVARIANTS
  LooksInstalledIsWhole OldSetRecoverable OldPairRecoverable
  NothingForgotten EveryCommandCounted StreaksAreRuns
PROPERTIES GoodActiveSurvives SyncAllOrNothing UpdateAllOrNothing
CHECK_DEADLOCK FALSE
