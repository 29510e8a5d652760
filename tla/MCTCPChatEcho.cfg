SPECIFICATION Spec
CONSTANTS
  Users = {c1, c2}
  Master = 3
  MaxClients = 4
  Backlog = 1
PROPERTIES EchoBack
CHECK_DEADLOCK FALSE
