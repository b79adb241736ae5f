CONSTANTS
  Streams = {"suc", "cons1", "cons2"}
  Producer = "suc"
  Connections <- Both
  Values <- Nat
  MaxPuts = 4
  BUFFER_SIZE = 3
  SpuriousWakeups = TRUE
  Nobody = nobody
  Null = null
SPECIFICATION Spec
INVARIANT OnlyFreshTokens
CHECK_DEADLOCK FALSE
