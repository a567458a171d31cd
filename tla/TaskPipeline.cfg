CONSTANTS
  Convs = {1, 2}
  Indexed = {1}
  Hooks = {h1, h2}
  Kinds = {"running", "waiting_for_review"}
  MaxWaiting = 1
  MaxTime = 1
  MaxEvents = 2
  MaxRestarts = 1
  MaxFaults = 1
SPECIFICATION FairSpec
INVARIANTS
  LaterEventWins
  SnapshotMatches
PROPERTIES
  TitleKept
  EventsAreShown
CHECK_DEADLOCK FALSE
