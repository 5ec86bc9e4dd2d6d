\* The lock: two servers that keep their leases, with two passes and one; a
\* third that may lose its own, with two passes.  The loops: two businesses
\* and a single slot, room for one event.
SPECIFICATION MCSpec
CONSTANTS
  a1 = a1
  a2 = a2
  a3 = a3
  p1 = p1
  p2 = p2
  p3 = p3
  b1 = b1
  b2 = b2
  \* LockTracker
  AM = {a1, a2, a3}
  Steady = {a1, a2}
  Pass = {p1, p2, p3, p4, p5}
  AMOf <- MCAMOf
  Biz = {b1}
  Session = {s1, s2, s3}
  None = None
  \* ServiceClose
  ScanSlots = 1
  PopSlots = 1
  Capacity = 1
INVARIANTS
  SteadyExclusion
PROPERTIES
  LockNotLeaked
  CloseReturns
  EveryBizGetsItsPass
CHECK_DEADLOCK FALSE
