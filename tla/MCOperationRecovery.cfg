SPECIFICATION Spec
CONSTANTS
  Id = {1, 2}
  Entries = {"a", "b"}
  Ending <- ReplyEndings
  MaxRecords = 4
INVARIANTS
  ReducerIsLoop
  RecoveryIsIdempotent
PROPERTIES
  DurableVerdictIsFinal
\* A journal that is full, with every entry durable, is the end of it.
CHECK_DEADLOCK FALSE
