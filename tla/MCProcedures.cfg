SPECIFICATION MCSpec
CONSTANTS
  x1 = x1
  x2 = x2
  y1 = y1
  y2 = y2
  m1 = m1
  m2 = m2
  s1 = s1
  s2 = s2
  s3 = s3
  h1 = h1
  Attempt = {x1, x2}
  Nobody = nobody
  \* MasterSwitch
  Proxy = {y1, y2}
  Old = m
  New = s
  Scope = {"dbinstance", "cluster", "host"}
  \* SpiderSwitch
  Spider = {s1, s2, s3}
  SpiderSlave = {}
  First = s1
  Shard = {h1}
  MaxDead = 1
  SameHostUnits <- Units
  \* SlaveChecker
  K = 2
  Width = 64
  MasterBinlogSize = 5
  MaxBinlogSize = 4
  MaxTransaction = 2
  MaxFiles = 2
  Loops = 2
  AllowedSlow = 0
  MaxBehind = 1
  MaxFailures = 1
  \* ClusterReset
  Frontend = {f1, f2}
  Masters = {m1, m2}
  Slaves = {s1, s2}
  Follows <- MCFollows
  Ctl = {c1, c2}
  CtlMaster = c1
  ClbWanted = {f1}
  Blackhole = Blackhole
  None = None
  MaxRuns = 2
  MaxWrites = 1
  \* SwitchRecord
  Inst = {"i1", "i2", "i3"}
  HostOf <- MCHostOf
  ClusterOf <- MCClusterOf
  WithStandby = {"i1", "i2"}
  MaxWorkers = 1
INVARIANTS
  OneWritable
  CheckStillHolds
  OnePrimary
  DetachedBeforeRouted
  RunningIsConsistent
  DoneMeansReset
  ReportedAsItWas
PROPERTIES
  FailoverNotUndone
  PassedIsInStep
SYMMETRY Symmetry
CHECK_DEADLOCK FALSE
