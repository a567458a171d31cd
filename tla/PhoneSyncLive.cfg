CONSTANTS
  Convs = {c1}
  MaxSessions = 2
  MaxClock = 2
  MaxSnapshots = 2
  MaxSeq = 0
  MaxPipe = 1
  ClockStepsBack = TRUE
  Republishes = TRUE
  Removes = FALSE
SPECIFICATION LiveSpec
PROPERTIES
  PhoneCatchesUp
CHECK_DEADLOCK FALSE
