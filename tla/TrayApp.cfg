CONSTANTS
  Editors = {tray, installer}
  Tray = tray
  Others = {other}
  Calls = {1, 2}
  MaxOps = 4
  Instances = {1, 2}
  Handles = {1, 2}
  MaxDepth = 2
SPECIFICATION FairSpec
INVARIANTS
  OneInstance
  ChoiceHolds
  WindowsTellTheTruth
  OthersKept
  
PROPERTIES
  TrayComesToRest
CHECK_DEADLOCK FALSE
