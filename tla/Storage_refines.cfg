SPECIFICATION FairSpec
CONSTANTS
  Proc = {p1, p2}
  Key = {a, b}
  EmptyKey = e
  Val = {v, w}
  None = None
  NoData = NoData
  Zeros = Zeros
  MaxCalls = 2
  MaxFaults = 0
PROPERTIES ImplementsTable EveryCallReturns
