\* The event loop with two clients, without and with room for what one epoll_wait() reports.
CONSTANTS
  Server = srv
  Clients = {c1, c2}
  NoSock = NoSock
  Limits <- AllLimits
  MaxOnce = 2
  MaxClient = 2
  Backlog = 1
SPECIFICATION FairSpec
\* Where cp_rmqueue() follows a NULL pointer the process is gone.
CHECK_DEADLOCK FALSE
INVARIANTS TypeOK NoDangling CountsTell NotTwice FlagsTell GoneFromQueueIsClosed
PROPERTIES BytesAreRead ClosedAreEnded
