CONSTANTS
  Streams = {"suc5", "suc7", "merge", "cons"}
  Role <- RoleOf
  ProdList <- MergePart
  Multiplier <- Factor
  Connections <- Edges
  Values <- Numbers
  BUFFER_SIZE = 2
  ITEMS = 2
  Null = null
  SpuriousWakeups = TRUE
  Nobody = nobody
SPECIFICATION FairSpec
INVARIANTS PrintsInOrder UnreadIsTheBacklog PutNeverWaitsTwice
PROPERTY FifoPerStream ImplementsIdeal ImplementsIdealFairness
CHECK_DEADLOCK FALSE
