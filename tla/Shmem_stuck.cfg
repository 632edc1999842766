SPECIFICATION Spec
CONSTANTS
  ZONE_SIZE = 2
  Byte <- Bytes
  HDR = 1
  MSG = 3
  MaxCalls = 1
  MaxFaults = 0
  MaxSessions = 1
INVARIANT NeverBothStuck
CHECK_DEADLOCK FALSE
