SPECIFICATION Spec
CONSTANTS
  Harvest = {h1, h2}
  Reporter = {r1}
  NoReporter = NoReporter
  Client = {c1, c2}
  Admin = {a1, a2}
  Broken = Broken
  Plugin = {p1, p2}
  Instance = {i1, i2}
  Nil = Nil
  MaxWrites = 2
INVARIANTS PostsAreCurrent
CHECK_DEADLOCK FALSE
PROPERTY ReloadTaken
