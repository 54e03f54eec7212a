CONSTANTS
  a = a
  b = b
  x = x
  NoSTH = NoSTH
  NoState = NoState
  Leaf <- Leaves
  Log <- Log2
  Timestamp = {1}
  BadHeads <- NoHeads
  MaxBadEntries = 1
  SaveEvery = 2
  MaxClock = 0
SPECIFICATION FairSpec
PROPERTY RecoversFromWrongEntry
