SPECIFICATION MCSpec
CONSTANTS
  NSend = 6
  NStop = 4
  RcvBuf = 2
  Reorder = FALSE
  MaxClients = 3
  Slots = 2
  Ports = 3
  MaxTyped = 1
  MxDupCk = 2
  Count = 2
  MaxSent = 4
  MaxTwice = 1
  MaxTtl = 3
  NProbes = 1
  Hops = 2
  MaxForeign = 1
  MaxQueries = 3
  FirstWait = 1
  MaxOthers = 1
  MaxLines = 2
  MaxOdd = 1
  Strms = 2
  Lines = 1
INVARIANTS CounterOneAhead LossFormula DaemonRight PingRight TraceRight DgEchoRight SctpRight
PROPERTIES ComesToAnEnd 
CHECK_DEADLOCK FALSE
