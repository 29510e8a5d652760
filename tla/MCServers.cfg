SPECIFICATION MCSpec
CONSTANTS
  MaxConn = 3
  NChildren = 2
  MAXNCLI = 2
  NAddrs = 2
  MaxRestarts = 1
  NIfs = 2
  MaxAddrs = 2
  First = 2
  More = 1
  MaxChanges = 2
  Room = 2
  MaxOwn = 2
  MaxNews = 2
INVARIANTS PoolSafe OpenersSafe
PROPERTIES Isolation KernelRight PoolServes
CHECK_DEADLOCK FALSE
