SPECIFICATION Spec
CONSTANTS
  Kinds = {"login", "settings"}
  MaxSubmits = 1
  MaxEvents = 2
  MaxDialogs = 2
INVARIANT DialogStaysUp
CHECK_DEADLOCK FALSE
