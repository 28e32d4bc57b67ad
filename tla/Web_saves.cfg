SPECIFICATION Spec
CONSTANTS
  MaxPrompts = 2
  MaxConns = 1
  MaxSessions = 1
  MaxEvents = 3
  OneSave = FALSE
PROPERTY AnswersStaySaved
CHECK_DEADLOCK FALSE
