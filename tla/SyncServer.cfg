CONSTANTS
  Conns = {c1}
  PhoneTokens = {t1, t2}
  NoPhone = NoPhone
  MaxPayload = 2
  MaxBumps = 1
  HasCollector = TRUE
  Collects = TRUE
SPECIFICATION SyncFairSpec
INVARIANTS
  NoUnnoticedRevocation
  NoUpdateLostInLoop
PROPERTIES
  StreamsKeepUp
CHECK_DEADLOCK FALSE
