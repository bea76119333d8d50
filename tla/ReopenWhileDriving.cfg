SPECIFICATION Spec
CONSTANTS
  Requests = {r1}
  ConnectionOf <- OneConnection
  MaxOps = 1
  MaxAttempts = 1
  MaxInputs = 1
  MaxFaults = 0
  MaxSessions = 2
  MaxPrompts = 2
  MaxCloses = 1
  MaxCrashes = 0
INVARIANTS
  NoRecoveryWhileDriving
\* Once the bounded prompts are served the Host only waits.
CHECK_DEADLOCK FALSE
