\* A second run of DoSwitch is counted.
SPECIFICATION MCSpec
CONSTANTS
  a1 = a1
  i1 = i1
  i2 = i2
  h1 = h1
  b1 = b1
  p1 = p1
  p2 = p2
  AM = {a1}
  Pass = {p1, p2}
  AMOf <- MCAMOf
  Inst = {i1, i2}
  Biz = {b1}
  BizOf <- MCBizOf
  HostOf <- MCHostOf
  ClusterOf <- MCClusterOf
  WindowDuration = 0
  InflightTTL = 2
  MaxRuns = 2
  None = None
  Request = {p1, p2}
  Content <- MCContent
  MaxIds = 2
  Failed <- MCFailed
  Tool = {p1, p2}
  File <- MCFile
  MaxTries = 2
  MaxRows = 2
  MaxLate = 1
INVARIANTS
  NoDuplicateSwitch
SYMMETRY PassSymmetry
