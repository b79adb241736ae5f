CONSTANTS
  Procs = {p, q}
  POOL_SIZE = 2
  Careful = TRUE
  PoolSizes <- Pools
  Requests <- Sizes
  Indexes <- Starts
SPECIFICATION Spec
INVARIANTS PageReadsBack
