SPECIFICATION Spec
CONSTANTS
  a = a
  b = b
  c = c
  d = d
  Proc = {p1}
  Key = {a, b, c, d}
  EmptyKey = e
  None = None
  Clipped = {352}
  LongAgo = 0
  MAX_PLANES = 3
  PLANES_PER_PAGE = 2
  Roll <- Few
  TimeSteps = {21}
  Commands = {"descend", "climb"}
  MaxTime = 63
  MaxCommands = 4
  MaxQuits = 1
INVARIANTS TypeOK FlightEnvelope    DownWereDescending 
