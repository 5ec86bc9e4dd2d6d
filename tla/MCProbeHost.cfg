SPECIFICATION MCSpec
CONSTANTS
  \* Reports
  Group = {"default"}
  Receiver = {r1, r2}
  DataCap = 1
  QueueCap = 2
  MaxReports = 3
  MaxGens = 2
  MaxFaults = 1
  \* Heartbeat
  Kinds = {"storage", "spider", "tdbctl"}
  MaxAttempts = 3
  \* ProcessGuard
  Proc = {p1, p2, p3, p4}
  Cmd = {c1, c2}
  Nobody = nobody
  MaxManual = 1
  MaxKills = 2
  \* ProbeYAML
  Item <- MCItem
  Account = {"mysql", "proxyAdmin", "redis"}
  MaxItems = 3
INVARIANTS
  CronKeepsOneGuard
PROPERTIES
  RowGoesBackOnlyAcross
  RowsStayLocal
  ClearedAsIfAbsent
  CronRestores
CHECK_DEADLOCK FALSE
