\* One server with two overlapping passes over a host with two instances;
\* two overlapping admin requests; two overlapping invocations of bwmgr.
SPECIFICATION MCSpec
CONSTANTS
  a1 = a1
  i1 = i1
  i2 = i2
  h1 = h1
  b1 = b1
  p1 = p1
  p2 = p2
  AM = {a1}
  Pass = {p1, p2}
  AMOf <- MCAMOf
  Inst = {i1, i2}
  Biz = {b1}
  BizOf <- MCBizOf
  HostOf <- MCHostOf
  ClusterOf <- MCClusterOf
  WindowDuration = 0
  InflightTTL = 2
  MaxRuns = 1
  None = None
  Request = {p1, p2}
  Content <- MCContent
  MaxIds = 2
  Failed <- MCFailed
  Tool = {p1, p2}
  File <- MCFile
  MaxTries = 2
  MaxRows = 2
  MaxLate = 1
INVARIANTS
  OverlapExplained
  HostScopeIsWhole
  OwnStrategiesFirst
PROPERTIES
  DeletedForGood
  ImportedIsStored
SYMMETRY PassSymmetry
