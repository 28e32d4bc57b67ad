SPECIFICATION MCSpec
CONSTANTS
  Subjects = {"subprocess", "extensions", "files", "bash", "streams"}
  Callers = {c1, c2}
  NoCaller = NoCaller
  MaxCalls = 4
  CanDrop = TRUE
  Extensions = {"guard", "rewriter", "late"}
  Values = {1, 2}
  MaxRounds = 3
  MaxSends = 3
  Tasks = {"t1", "t2"}
  Spellings = {"own", "link"}
  PipeSize = 1
  MaxWrites = 2
  MaxBytes = 2
  StreamSubjects = {"anthropic", "openai", "responses", "google", "proxy", "model", "requests"}
  Types = {"text", "thinking", "redacted_thinking", "tool_use", "other"}
  Reasons = {"stop", "toolUse"}
  Ids = {"a"}
  MaxBlocks = 3
  ProxyBlocks = 2
  MaxPieces = 3
  MaxChunk = 3
  MaxRetries = 2
  MaxMessages = 4
INVARIANTS
  VettedValue
  OnlySetUpServe
  FilesKeepEdits
  OutputWhole
  MessageComplete
  RequestsPaired
PROPERTIES
  HealthyAnswersMatch
  ToolsReturn
  DoneIsFinal
  AbortEndsStream
CHECK_DEADLOCK FALSE
