\* Two servers; the first keeps its lease and its watch while it runs.
CONSTANTS
  a1 = a1
  a2 = a2
  b1 = b1
  b2 = b2
  b3 = b3
  AM = {a1, a2}
  Biz = {b1, b2, b3}
  Points <- MCPoints
  At <- MCAt
  Solid = {a1}
  MaxEvents = 1
SPECIFICATION FairSpec
INVARIANTS
  RingCurrent
PROPERTY
  SolidCatchUp
\* All servers may be dead.
CHECK_DEADLOCK FALSE
