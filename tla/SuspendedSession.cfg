SPECIFICATION Spec
CONSTANTS
  Requests = {r1}
  ConnectionOf <- OneConnection
  MaxOps = 1
  MaxAttempts = 1
  MaxInputs = 1
  MaxFaults = 0
  MaxSessions = 1
  MaxPrompts = 2
  MaxCloses = 0
  MaxCrashes = 0
INVARIANTS
  SuspendedIsRecoverable
\* Once the bounded prompts are served the Host only waits.
CHECK_DEADLOCK FALSE
