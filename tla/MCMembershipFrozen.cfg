\* Two servers; the watch of the second may break, and the first, which the
\* business belongs to, may die.
CONSTANTS
  a1 = a1
  a2 = a2
  b1 = b1
  b2 = b2
  b3 = b3
  AM = {a1, a2}
  Biz = {b3}
  Points <- MCPoints
  At <- MCAt
  Solid = {a1}
  MaxEvents = 1
SPECIFICATION FairSpec
PROPERTY
  EveryBusinessWatched
\* All servers may be dead.
CHECK_DEADLOCK FALSE
