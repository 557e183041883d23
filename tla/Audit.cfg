SPECIFICATION FairSpec
CONSTANTS
  o1 = o1
  Commands = {o1}
  Daemon = Daemon
  None = None
  MaxLines = 2
  MaxArchives = 2
  QueueCapacity = 1
  MaxAppends = 3
  MaxEvents = 2
  MaxStarts = 2
  MaxFaults = 1
INVARIANTS VerifiesUnlessTorn RetentionInOrder DrainedIsSettled
PROPERTY QueueSettles
CHECK_DEADLOCK FALSE
