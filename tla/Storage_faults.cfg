SPECIFICATION Spec
CONSTANTS
  Proc = {p1, p2}
  Key = {a, b}
  EmptyKey = e
  Val = {v, w}
  None = None
  NoData = NoData
  Zeros = Zeros
  MaxCalls = 3
  MaxFaults = 2
SYMMETRY ProcSymmetry
INVARIANTS TypeOK     DamageNeedsFault
