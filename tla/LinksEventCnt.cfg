\* The connecting side alone: two services and room for two events.
CONSTANTS
  FdLimit = 1
  BufSize = 1
  MaxUnread = 1
  NBlocks = 1
  BlockSize = 1
  Width = 2
  Looks <- SomeLooks
  MaxFaults = 0
  MaxNaks = 1
  MaxLine = 7
  MaxOwed = 1
  MaxWaiting = 1
  DrainMin = 1
  Services = {s1, s2}
  NFds = 2
  MaxEvent = 1
  Parts = {"cpsock"}
SPECIFICATION Spec
CHECK_DEADLOCK FALSE
INVARIANT EventCountTells
