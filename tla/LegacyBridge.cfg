CONSTANTS
  Slots = {s1, s2}
  Endpoints = 2
  MaxAttempts = 2
  MaxOffers = 2
  MaxTokens = 2
  MaxUpsets = 1
SPECIFICATION FairSpec
INVARIANTS
  CodeIsGuarded
  TokensAreKept
  PluginIsSound
PROPERTIES
  PluginComesBack
CHECK_DEADLOCK FALSE
