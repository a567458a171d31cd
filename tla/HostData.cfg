CONSTANTS
  None = None
  Absent = Absent
  Odd = Odd
  HookNames = {"UserPromptSubmit", "PermissionRequest", "PreToolUse", "Stop", "SessionStart"}
  Handlers = {"own", "other"}
  U32 = 65536
  I32 = 32768
  LastSecond = 4
  Times <- MCTimes
  Limits <- MCLimits
  CardBodies <- MCCardBodies
  Sources <- MCSources
  Logs <- MCLogs
  Lengths <- MCLengths
  Hellos <- MCHellos
  Addresses <- MCAddresses
  Draws <- MCDraws
  Titles <- MCTitles
  Policies <- MCPolicies
  Contexts <- MCContexts
  HookFiles <- MCHookFiles
  Links <- MCLinks
SPECIFICATION DataSpec
INVARIANTS
  QuotaIsWhatSourcesSaid
  
  OffersCanBeUsed
  OthersHooksSurvive
