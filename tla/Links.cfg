\* The converter with a buffer a peer can overrun; a file of three blocks with
\* two faults, whose numbers wrap and whose bytes may look like commands; a port
\* with room for two late answers; three services with descriptors for two and
\* events for two.
CONSTANTS
  FdLimit = 2
  BufSize = 1
  MaxUnread = 2
  NBlocks = 3
  BlockSize = 2
  Width = 3
  Looks <- SomeLooks
  MaxFaults = 2
  MaxNaks = 2
  MaxLine = 7
  MaxOwed = 2
  MaxWaiting = 4
  DrainMin = 2
  Services = {s1, s2, s3}
  NFds = 2
  MaxEvent = 1
  Parts = {"converterd", "xmodem", "atcmd", "cpsock"}
SPECIFICATION FairSpec
\* The bootloader goes on to what it has received.
CHECK_DEADLOCK FALSE
INVARIANTS TypeOK ConnectedIsWatched ImageIsFile AnswerIsOwn ClientsWhole
PROPERTIES PeerIsHeard Reconnects TransferEnds
