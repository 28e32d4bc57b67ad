SPECIFICATION Spec
CONSTANTS
  Subjects = {"requests"}
  Types = {"text"}
  Reasons = {"stop"}
  Ids = {"a"}
  MaxBlocks = 1
  ProxyBlocks = 1
  MaxPieces = 1
  MaxChunk = 1
  MaxRetries = 1
  MaxMessages = 2
PROPERTY ReplaysAnywhere
CHECK_DEADLOCK FALSE
