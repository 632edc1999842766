SPECIFICATION FairSpec
CONSTANTS
  Pid = {m, p1, p2, p3}
  Main = m
  Client = {c1, c2, c3, c4}
  None = None
  MAX_CLIENTS = 3
  MaxFaults = 2
  MaxInterrupts = 1
  MaxSpins = 2
INVARIANTS TypeOK OneServerPerClient SharesAreConserved  ZombiesAreNoticed
PROPERTY WaitingAreAccepted
CHECK_DEADLOCK FALSE
