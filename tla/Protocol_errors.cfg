SPECIFICATION Spec
CONSTANTS
  None = None
  Scrap = Scrap
  MaxList = 2
  ScanFails = TRUE
  MaxCalls = 2
  MaxResizes = 0
  MaxCrashes = 0
  MaxReplays = 0
INVARIANT ErrorsAreReported
CHECK_DEADLOCK FALSE
