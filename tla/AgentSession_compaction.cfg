CONSTANTS
  MaxMessages = 5
  MaxSessions = 2
  MaxContinuations = 1
  Mode = "OneAtATime"
  HasTurnEndHook = FALSE
  MayFail = FALSE
  MayTimeout = FALSE
  MayCompact = TRUE
  MayWrite = FALSE
  WritesFail = FALSE
SPECIFICATION Spec
CHECK_DEADLOCK FALSE
INVARIANT CompactionKeepsRecent
