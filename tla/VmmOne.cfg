CONSTANTS
  Procs = {p}
  POOL_SIZE = 3
  Careful = TRUE
  PoolSizes <- Pools
  Requests <- Sizes
  Indexes <- Starts
SPECIFICATION Spec
INVARIANTS TypeOK InsideThePool PagesIntact PageReadsBack
