CONSTANTS
  Streams = {"suc", "times5", "times7", "merge", "cons"}
  Role <- RoleOf
  ProdList <- MainList
  Multiplier <- Factor
  Connections <- Edges
  Values <- Nat
  BUFFER_SIZE = 3
  ITEMS = 10
  Null = null
  SpuriousWakeups = FALSE
  Nobody = nobody
SPECIFICATION Spec
INVARIANTS PrintsInOrder
CHECK_DEADLOCK FALSE
