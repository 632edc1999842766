SPECIFICATION FairSpec
CONSTANTS
  None = None
  Scrap = Scrap
  MaxList = 2
  ScanFails = TRUE
  MaxCalls = 3
  MaxResizes = 2
  MaxCrashes = 1
  MaxReplays = 1
INVARIANTS TypeOK  OnlyTheLastIsRepeated
PROPERTIES ImplementsCalls CallsEnd
CHECK_DEADLOCK FALSE
