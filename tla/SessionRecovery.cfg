SPECIFICATION Spec
CONSTANTS
  Requests = {r1}
  ConnectionOf <- OneConnection
  MaxOps = 2
  MaxAttempts = 1
  MaxInputs = 1
  MaxFaults = 0
  MaxSessions = 2
  MaxPrompts = 2
  MaxCloses = 0
  MaxCrashes = 1
INVARIANTS
  OneDriver
  RecoveryDecides
PROPERTIES
  AdmissionAfterFinish
  TerminalIsFinal
  RecoveryInventsNothing
\* Once the bounded prompts are served the Host only waits.
CHECK_DEADLOCK FALSE
