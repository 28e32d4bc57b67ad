CONSTANTS
  CalmMessages = 5
  MaxMessages = 4
  MaxSessions = 2
  MaxContinuations = 0
  Mode = "All"
  HasTurnEndHook = TRUE
  MayFail = TRUE
  MayTimeout = TRUE
  MayCompact = TRUE
  MayWrite = TRUE
  WritesFail = TRUE
SPECIFICATION MCSpec
CHECK_DEADLOCK FALSE
INVARIANT CalmResumeReplays
INVARIANT TranscriptWasRead
INVARIANT TranscriptsDontMix
INVARIANT PersistedOnce
PROPERTY NoStaleAbort
PROPERTY SessionStaysUsable
