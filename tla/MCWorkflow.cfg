\* Two instances of one business and one of another, two overlapping jobs;
\* two servers with a pass each.
SPECIFICATION MCSpec
CONSTANTS
  i1 = i1
  i2 = i2
  i3 = i3
  b1 = b1
  b2 = b2
  h1 = h1
  h2 = h2
  c1 = c1
  a1 = a1
  a2 = a2
  p1 = p1
  p2 = p2
  Inst = {i1, i2, i3}
  Biz = {b1, b2}
  BizOf <- MCBizOf
  WindowDuration = 1
  InflightTTL = 2
  Job = {j1, j2}
  MaxLag = 1
  None = None
  AM = {a1, a2}
  Pass = {p1, p2}
  AMOf <- MCAMOf
  HostOf <- MCHostOf
  ClusterOf <- MCClusterOf
  MaxRuns = 1
INVARIANTS
  MarkHasJob
  ExclusiveUnlessOverrun
  SwitchedByOneServer
PROPERTIES
  ImplementsLifecycle
  QueuedIsHandled
