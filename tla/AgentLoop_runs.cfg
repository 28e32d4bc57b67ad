SPECIFICATION MCSpec
CONSTANTS
  MaxCalls = 2
  CallBudget = 3
  MaxInputs = 3
INVARIANTS
  TypeOK
  ToolCallsAnswered
  RuntimeMirrorsRun
  NoMessageLost
  QueuesDeliverInOrder
  TurnsNest
PROPERTIES
  ReturnsWhatItAdded
  AbortFreezesRun
  RunsEnd
CHECK_DEADLOCK FALSE
