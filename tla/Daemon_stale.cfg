CONSTANTS
  l1 = l1
  l2 = l2
  u = u
  NoToken = NoToken
  NoList = NoList
  LogID <- TwoLogs
  Lists <- SmallLists
  HealthCheckInterval = 2
  ReloadIntervalMin = 1
  ReloadIntervalMax = 2
  MaxTime = 4
  MaxTasks = 4
SPECIFICATION Spec
CHECK_DEADLOCK FALSE
PROPERTY NoFalseStaleAlarm
