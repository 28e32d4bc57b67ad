SPECIFICATION Spec
CONSTANTS
  Kinds = {"turn"}
  MaxSubmits = 1
  MaxEvents = 2
  MaxDialogs = 2
INVARIANT CancelHitsTurn
CHECK_DEADLOCK FALSE
