SPECIFICATION Spec
CONSTANTS
  Requests = {r1, r2}
  ConnectionOf <- OwnConnections
  MaxOps = 1
  MaxAttempts = 1
  MaxInputs = 0
  MaxFaults = 1
  MaxSessions = 2
  MaxPrompts = 1
  MaxCloses = 2
  MaxCrashes = 1
SYMMETRY RequestSymmetry
INVARIANTS
  ControllerHeld
  ControllerInUse
\* Once the bounded prompts are served the Host only waits.
CHECK_DEADLOCK FALSE
