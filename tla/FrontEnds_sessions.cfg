SPECIFICATION MCSpec
CONSTANTS
  Subjects = {"rpc", "driver", "frames", "editor", "web"}
  MaxFrames = 4
  Kinds = {"prompt", "bash", "abort", "abort_bash", "steer", "new_session", "query", "invalid"}
  WriterFails = TRUE
  ReaderFails = TRUE
  SubmitKinds = {"turn", "bash", "emptyBash", "compact", "slash", "model", "login", "settings"}
  MaxSubmits = 2
  MaxEvents = 2
  MaxDialogs = 2
  Interval = 3
  Delays = {0, 2, 4}
  MaxQueued = 3
  MaxKeys = 4
  MaxCells = 3
  MaxRing = 2
  FoldCells = 2
  MaxPrompts = 3
  MaxConns = 2
  MaxSessions = 2
  MaxHappenings = 3
  OneSave = TRUE
INVARIANTS
  CommandsInOrder
  AnsweredOnce
  OutcomeReported
  QuietIsClean
  TerminalKeepsUp
  PageFollowsServer
  PendingIsUnderWay
PROPERTIES
  ServerSettles
  SubmitsServed
  TurnsEnd
CHECK_DEADLOCK FALSE
