CONSTANTS
  Codes = {c1, c2}
  MaxAttempts = 3
  Lifetime = 1
  MaxTime = 3
  MaxOffers = 3
  MaxTokens = 3
SPECIFICATION Spec
INVARIANT
  RevokedStaysOut
CHECK_DEADLOCK FALSE
