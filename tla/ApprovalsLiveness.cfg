SPECIFICATION FairSpec
CONSTANTS
  write = write
  child = child
  later = later
  Calls = {write, child}
  NoCall = NoCall
  OperationOf <- CallOperations
  ScopeOf <- CallScopes
  Detached = {child}
  Extension = {child}
  Reviewed = {child}
  Rememberable = {write}
  MaxOperations = 1
  MaxCloses = 1
  MaxChanges = 1
PROPERTIES
  EveryCallDecided
CHECK_DEADLOCK FALSE
