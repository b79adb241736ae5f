CONSTANTS
  Streams = {"suc", "cons1", "cons2", "cons3"}
  Role <- RoleOf
  ProdList <- OneToMany
  Multiplier <- Factor
  Connections <- Edges
  Values <- Nat
  BUFFER_SIZE = 5
  ITEMS = 10
  Null = null
  SpuriousWakeups = FALSE
  Nobody = nobody
SPECIFICATION FairSpec
PROPERTY ConsumersFinish
CHECK_DEADLOCK FALSE
