CONSTANTS
  Elsewhere = {"Ok", "Unavailable"}
  MaxEvents = 2
SPECIFICATION FairSpec
INVARIANTS
  NoInventedSuccess
  LastValuesKept
  TrustedIsAsNewAsItSays
PROPERTIES
  ConfirmationsAreShown
CHECK_DEADLOCK FALSE
