SPECIFICATION FairSpec
CONSTANTS
  MaxLaunches = 3
  Ports = {1, 2}
  MaxCalls = 1
INVARIANTS
  ConnectedToOwn
  ServedByOwn
PROPERTIES
  LaunchDecided
CHECK_DEADLOCK FALSE
