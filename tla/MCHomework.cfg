SPECIFICATION MCSpec
CONSTANTS
  Clients = {c1, c2, c3}
  Units = 2
  MaxMsg = 2
  MaxFds = 2
  AnswerSize = 3
  ReadSize = 2
  UpCap = 2
  DownCap = 3
  MaxCmd = 4
  DateClients = {c1, c2}
  SendOnce = {c1}
  MaxCopies = 2
INVARIANT AnswersKnown
PROPERTIES EchoIsChannel ReadsEnd
CHECK_DEADLOCK FALSE
