SPECIFICATION MCSpec
CONSTANTS
  Users = {c1, c2, c3}
  Master = 1
  MaxClients = 2
  Backlog = 1
  MaxIn = 2
  Cap = 1
  NClients = 3
  MaxProc = 3
  RcvBuf = 1
INVARIANTS SlotTable SockSafe EchoServersSafe OobSafe
PROPERTIES LostAndHeard AllGetOn
CHECK_DEADLOCK FALSE
