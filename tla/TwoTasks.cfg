CONSTANTS
  a = a
  b = b
  NoSTH = NoSTH
  NoState = NoState
  Leaf <- Leaves
  Log <- Log2
  Timestamp = {1}
  BadHeads <- NoHeads
  MaxBadEntries = 0
  SaveEvery = 2
  MaxClock = 0
SPECIFICATION TwoFairSpec
CHECK_DEADLOCK FALSE
INVARIANT FilesSurviveOverlap
PROPERTY LateSaveIsMadeGood
