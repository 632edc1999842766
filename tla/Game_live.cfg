SPECIFICATION FairSpec
CONSTANTS
  a = a
  b = b
  c = c
  d = d
  Proc = {p1, p2}
  Key = {a, b, c, d}
  EmptyKey = e
  None = None
  Clipped = {352}
  LongAgo = 0
  MAX_PLANES = 1
  PLANES_PER_PAGE = 10
  Roll <- Many
  TimeSteps = {30}
  Commands = {"descend"}
  MaxTime = 60
  MaxCommands = 1
  MaxQuits = 0
PROPERTY OverdueIsRecorded
INVARIANTS TrafficCap NothingCountedTwice
