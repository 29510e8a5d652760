SPECIFICATION MCSpec
CONSTANTS
  Timeout = 3
  MaxReads = 2
  MaxInbox = 1
  MaxSend = 3
  MaxThreads = 3
  Colors = 2
  Width = 2
  Height = 5
INVARIANTS NeverReceives IdleBudget BounceSafe InReach
PROPERTIES DeafForever GetsThere
CHECK_DEADLOCK FALSE
