SPECIFICATION FairSpec
CONSTANTS
  x = x
  y = y
  v1 = v1
  v2 = v2
  Names = {x, y}
  Versions = {v1, v2}
  Off = Off
  Configurations <- TwoConfigurations
  MaxServers = 3
  MaxChanges = 2
  MaxEvents = 1
INVARIANTS
  OneConnection
  NothingLeaks
  FollowsConfiguration
  CatalogFollows
PROPERTIES
  ClosedIsReleased
\* A closed runtime does nothing any more.
CHECK_DEADLOCK FALSE
