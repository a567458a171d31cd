CONSTANTS
  Convs = {c1}
  MaxSessions = 2
  MaxClock = 3
  MaxSnapshots = 3
  MaxSeq = 1
  MaxPipe = 2
  ClockStepsBack = FALSE
  Republishes = FALSE
  Removes = TRUE
SPECIFICATION Spec
INVARIANTS
  OnlineHasSession
  
PROPERTIES
  NeverGoesBack
CHECK_DEADLOCK FALSE
