SPECIFICATION Spec
CONSTANTS
  MaxRetries = 2
  Backoffs = 2
  MaxCalls = 4
INVARIANTS AnswerIsOwn ReusableIsQuiet
CHECK_DEADLOCK FALSE
