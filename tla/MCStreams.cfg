SPECIFICATION MCSpec
CONSTANTS
  MaxConn = 3
  Slots = 2
  MaxLines = 2
  Halves = {2}
  MaxDgrams = 2
  OutCap = 1
  MaxTyped = 4
  UpCap = 1
  DownCap = 1
  Buf = 2
  OutBuf = 2
  MaxFiles = 3
  MaxConns = 2
  MaxAddrs = 2
  Bits = 3
  MaxWords = 4
  MaxIov = 4
  MaxBytes = 3
INVARIANTS LoopRight AddressesRight ConversionsRight ClientsRight
PROPERTIES GetThrough
CHECK_DEADLOCK FALSE
