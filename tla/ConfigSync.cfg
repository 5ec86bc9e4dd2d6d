SPECIFICATION Spec
CONSTANTS
  Params = {a1, a2}
  Detected = a1
  Ports = {none, p1}
  NoPorts = none
  Gen = {g1}
  Syncer = Syncer
  MaxVersion = 2
  MaxOps = 2
  Missing = Missing
  Broken = Broken
  None = None
INVARIANTS NoEditReverted SameSourceUnlessHealing ReloadPromised
CHECK_DEADLOCK FALSE
PROPERTY SyncSettles
