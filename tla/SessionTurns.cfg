SPECIFICATION FairSpec
CONSTANTS
  Requests = {r1}
  ConnectionOf <- OneConnection
  MaxOps = 1
  MaxAttempts = 2
  MaxInputs = 1
  MaxFaults = 1
  MaxSessions = 1
  MaxPrompts = 2
  MaxCloses = 0
  MaxCrashes = 0
INVARIANTS
  JournalWellFormed
  EffectNeedsIntent
PROPERTIES
  ImplementsLifecycle
  CancelStopsRun
  EndedIsDecided
\* Once the bounded prompts are served the Host only waits.
CHECK_DEADLOCK FALSE
