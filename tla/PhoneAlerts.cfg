CONSTANTS
  Convs = {c1}
  Windows <- MCWindows
  Payloads <- MCPayloads
  Thresholds <- MCThresholds
  Settings <- MCSettings
  None = None
  MaxAge = 0
  MaxTime = 1
  MaxEvents = 4
SPECIFICATION FairSpec
INVARIANTS
  OneDecisionPerState
  NoteIsCurrent
PROPERTIES
  NoteComes
CHECK_DEADLOCK FALSE
