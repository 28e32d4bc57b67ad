SPECIFICATION Spec
CONSTANTS
  MaxRetries = 2
INVARIANT OneMessagePerResponse
CHECK_DEADLOCK FALSE
