SPECIFICATION FairSpec
CONSTANTS
  MaxProc = 4
  Client = {c1, c2, c3}
  None = None
  MaxFaults = 1
INVARIANTS TypeOK  OnlyRivalsBreak
PROPERTY AskersAreServed
CHECK_DEADLOCK FALSE
