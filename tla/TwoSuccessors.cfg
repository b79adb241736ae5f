CONSTANTS
  Streams = {"suc5", "suc7", "times5", "times7", "merge", "cons", "suc1"}
  Role <- RoleOf
  ProdList <- TwoSuccessors
  Multiplier <- Factor
  Connections <- Edges
  Values <- Nat
  BUFFER_SIZE = 2
  ITEMS = 7
  Null = null
SPECIFICATION IdealFairSpec
INVARIANTS IdealTypeOK PrintsInOrder
PROPERTY ConsumersFinish
CHECK_DEADLOCK FALSE
