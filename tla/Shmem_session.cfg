SPECIFICATION FairSpec
CONSTANTS
  ZONE_SIZE = 2
  Byte <- Bytes
  HDR = 1
  MSG = 3
  MaxCalls = 2
  MaxFaults = 2
  MaxSessions = 2
INVARIANTS TypeOK  NothingIsLeftBehind OwnAnswer
PROPERTIES BytesComeInOrder CallsEnd
CHECK_DEADLOCK FALSE
