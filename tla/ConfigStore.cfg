SPECIFICATION Spec
CONSTANTS
  Agents = {a}
  Pages = {p}
  MaxWrites = 1
  MaxCrashes = 1
  MaxEdits = 1
  MaxReloads = 2
INVARIANTS
  OneWriter
  NoWriteLost
  ReadersFollow
\* Once the bounded writes are done nothing happens any more.
CHECK_DEADLOCK FALSE
