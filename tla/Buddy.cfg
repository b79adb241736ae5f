CONSTANTS
  PoolSizes <- Pools
  Requests <- Sizes
  Indexes <- Places
SPECIFICATION BuddySpec
INVARIANTS BuddyTypeOK Coalesced TightFit OnlyPagesMatter
PROPERTIES IsAllocator NeverRefusesInVain
