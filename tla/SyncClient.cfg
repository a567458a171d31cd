CONSTANTS
  MaxPairings = 2
  Endpoints = 1
  MaxLoops = 2
  MaxFailures = 1
  MaxKills = 1
  Due = 2
  Overlaps = FALSE
SPECIFICATION FairSpec
INVARIANTS
  OneCurrentLoop
  RefreshOnOwnSocket
PROPERTIES
  ComesOnline
CHECK_DEADLOCK FALSE
