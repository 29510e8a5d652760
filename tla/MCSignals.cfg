SPECIFICATION MCSpec
CONSTANTS
  MaxLines = 3
  MaxRexmt = 1
  RxtMin = 2
  RxtMax = 4
  Unit = 64
  Lifetime = 4
  MaxWaits = 2
  Hosts = 2
  QSIZE = 2
  RcvBuf = 2
  MaxDg = 5
  MaxProbes = 3
  MaxAge = 2
  Clients = {c1, c2, c3}
  MaxProcs = 1
  MaxReq = 3
PROPERTIES EchoesInOrder TimerCoversSample WaitEnds DrivenRight GivesUpRightly FilesRight
CHECK_DEADLOCK FALSE
