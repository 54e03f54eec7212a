CONSTANTS
  l1 = l1
  l2 = l2
  u = u
  NoToken = NoToken
  NoList = NoList
  LogID <- TwoLogs
  Lists <- SmallLists
  HealthCheckInterval = 2
  ReloadIntervalMin = 1
  ReloadIntervalMax = 2
  MaxTime = 3
  MaxTasks = 3
SPECIFICATION FairSpec
CHECK_DEADLOCK FALSE
INVARIANTS OneTaskPerListedLog NoSilentlyDeadTask CleanExitOnlyOnSignal
PROPERTIES ShutdownCompletes NoStaleListUnnoticed
