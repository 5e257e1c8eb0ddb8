\* A service is told of 0 bytes by a peer that is there.
CONSTANTS
  Server = srv
  Clients = {c1, c2}
  NoSock = NoSock
  Limits <- AllLimits
  MaxOnce = 2
  MaxClient = 2
  Backlog = 1
SPECIFICATION Spec
CHECK_DEADLOCK FALSE
INVARIANTS GoneMeansClosed
