SPECIFICATION Spec
CONSTANTS
  a = a
  b = b
  c = c
  d = d
  Proc = {p1}
  Key = {a, b, c, d}
  EmptyKey = e
  None = None
  Clipped = {352}
  LongAgo = 0
  MAX_PLANES = 1
  PLANES_PER_PAGE = 10
  Roll <- OneSlow
  TimeSteps = {150}
  Commands = {"descend"}
  MaxTime = 150
  MaxCommands = 2
  MaxQuits = 0
PROPERTY DownIsFinal
