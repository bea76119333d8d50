SPECIFICATION Spec
CONSTANTS
  write = write
  child = child
  later = later
  Calls = {write, child, later}
  NoCall = NoCall
  OperationOf <- CallOperations
  ScopeOf <- CallScopes
  Detached = {child}
  Extension = {child}
  Reviewed = {later, child}
  Rememberable = {write, later}
  MaxOperations = 2
  MaxCloses = 1
  MaxChanges = 1
INVARIANTS
  OneRequestShown
  AnswerIsAwaited
  QueueNeverIdle
  CancelSettles
PROPERTIES
  ExecutesWithConsent
CHECK_DEADLOCK FALSE
