SPECIFICATION FairSpec
CONSTANTS
  Hosts = {h1, h2, h3}
  Clients = {c1}
  NoHost = NoHost
  MaxRebuilds = 1
INVARIANTS
  OneOwner
  ServedAtEndpoint
PROPERTIES
  StaleLockIsTakenOver
  ConnectEnds
