CONSTANTS
  a = a
  b = b
  x = x
  NoSTH = NoSTH
  NoState = NoState
  Leaf <- Leaves
  Log <- Log2
  Timestamp = {1}
  BadHeads <- NoHeads
  MaxBadEntries = 0
  SaveEvery = 2
  MaxClock = 1
SPECIFICATION FairSpec
INVARIANT LastSuccessSound
PROPERTIES EventuallyCaughtUp CancelStops
