SPECIFICATION MCSpec
CONSTANTS
  Timeout = 1
  MaxReads = 0
  MaxInbox = 0
  MaxSend = 0
  MaxThreads = 2
  Colors = 2
  Width = 1
  Height = 1
INVARIANTS DifferentFaces
CHECK_DEADLOCK FALSE
