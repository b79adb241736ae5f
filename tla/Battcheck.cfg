CONSTANTS
  DeviceList <- Walk
  Bif <- Info
  States <- Words
  Levels = {0, 1, 2}
SPECIFICATION Spec
INVARIANTS TypeOK NoUseAfterFree LowToldOnce PercentRounds
PROPERTY UnloadEnds
