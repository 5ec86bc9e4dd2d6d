CONSTANTS
  a1 = a1
  a2 = a2
  i1 = i1
  i2 = i2
  i3 = i3
  h1 = h1
  h2 = h2
  Server = {a1, a2}
  Scanner = {a1}
  Inst = {i1, i2}
  HostOf <- MCHostOf
  BucketOf <- MCBucketOf
  Buckets = 2
  Skipped = {}
  White = {i1, i2}
  BatchCount = 1
  Offset = 3
  Nobody = nobody
  MaxChanges = 2
SPECIFICATION Spec
INVARIANTS
  MissedOnlyByTie
PROPERTIES
  ListedIsKept
  RemovedFades
  DeadIsReported
