SPECIFICATION Spec
CONSTANTS
  Sessions = {s1, s2}
  MaxConnections = 3
  MaxUpdates = 6
  MaxCommands = 3
  MaxFaults = 1
\* Once the bounded commands are served everybody waits for a new one.
CHECK_DEADLOCK FALSE
INVARIANTS
  TypeOK
  Converges
  HostIsAnswered
  PromptIsLive
  AnswerIsForItsQuestion
  LeaseHasConnection
  AnswersAreNotBlocked
SYMMETRY SessionSymmetry
