SPECIFICATION Spec
CONSTANTS
  Callers = {c1, c2}
  NoCaller = NoCaller
  MaxCalls = 3
  CanDrop = FALSE
INVARIANT AnswersMatch
CHECK_DEADLOCK FALSE
