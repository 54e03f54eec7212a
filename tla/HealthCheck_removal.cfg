CONSTANTS
  a = a
  b = b
  NoSTH = NoSTH
  NoState = NoState
  Leaf <- Leaves
  Log <- Log1
  Timestamp = {1}
  BadHeads <- NoHeads
  MaxBadEntries = 0
  SaveEvery = 2
  MaxClock = 1
  HealthCheckInterval = 1
SPECIFICATION HSpec
INVARIANT HealthCheckToleratesRemoval
