SPECIFICATION Spec
CONSTANTS
  Pid = {m, p1, p2, p3}
  Main = m
  Client = {c1, c2, c3, c4}
  None = None
  MAX_CLIENTS = 3
  MaxFaults = 1
  MaxInterrupts = 0
  MaxSpins = 2
INVARIANT ServerOutlivesClients
CHECK_DEADLOCK FALSE
