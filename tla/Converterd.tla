----------------------------- MODULE Converterd -----------------------------
(***************************************************************************)
(* The serial to network converter (converterd/cvd_main.c, cp_socket.c):   *)
(* one thread that opens the serial port and connects the socket when they *)
(* are not, waits on an edge-triggered epoll for both, and reads once for  *)
(* each event what one of them has, to write it to the other, until the    *)
(* handler of a SIGPIPE has it stop (cp_proc.c).  SIGINT and SIGTERM,      *)
(* which have it stop as well, do not come.                                *)
(***************************************************************************)
EXTENDS Integers, FiniteSets

CONSTANTS
  FdLimit,     (* the sockets a process may leak                           *)
  BufSize,     (* sizeof(buf), in pieces of data                           *)
  MaxUnread    (* a bound on the pieces that wait in a file descriptor     *)

ASSUME ConverterdAssumption ==
  {FdLimit, BufSize, MaxUnread} \subseteq Nat \ {0}

VARIABLES
  vpc,         (* where the main loop is                                   *)
  events,      (* evts[]: the descriptors still to serve                   *)
  com,         (* the serial port: "closed", "watched", or open and "lost" *)
               (* to epoll with fd -1                                      *)
  sstatus,     (* sock.status                                              *)
  watched,     (* whether epoll watches sock.fd                            *)
  leaked,      (* the sockets that nobody closes any more                  *)
  stop,        (* g_cp_signal.stop                                         *)
  (* the kernel and the peer *)
  conn,        (* the connection of sock.fd                                *)
  unread,      (* the pieces that wait in "com" and "sock"                 *)
  eof,         (* whether the peer has closed                              *)
  reset,       (* whether it has reset the connection besides              *)
  edge,        (* the descriptors with an edge epoll has not told yet      *)
  up,          (* whether the server can be reached                        *)
  (* what a behaviour assumes *)
  polite,      (* the peer waits until what it did was noticed, and sends  *)
               (* no more than the buffer holds                            *)
  ctlfails     (* epoll_ctl() may fail                                     *)

sockvars == <<sstatus, watched, leaked, conn>>
kernelvars == <<unread, eof, edge, up>>
cvars == <<vpc, events, com, sockvars, kernelvars, stop, reset, polite, ctlfails>>

Assumed == UNCHANGED <<polite, ctlfails>>
Rest == UNCHANGED <<stop, reset>> /\ Assumed

ConverterdInit ==
  /\ vpc = "comport" /\ events = {}
  /\ com = "closed"
  /\ sstatus = "INIT" /\ watched = FALSE /\ leaked = 0
  /\ conn = "none" /\ stop = FALSE /\ reset = FALSE
  /\ unread = [d \in {"com", "sock"} |-> 0] /\ eof = FALSE /\ edge = {}
  /\ up \in BOOLEAN /\ polite \in BOOLEAN /\ ctlfails \in BOOLEAN

-----------------------------------------------------------------------------
(* The line and the network                                                *)

ServerTurns ==
  /\ up' = ~up
  /\ UNCHANGED <<vpc, events, com, sockvars, unread, eof, edge>> /\ Rest

(* A connection in progress comes to its end.                              *)
Handshake ==
  /\ conn = "syn"
  /\ conn' = IF up THEN "made" ELSE "refused"
  /\ UNCHANGED <<vpc, events, com, sstatus, watched, leaked, kernelvars>> /\ Rest

Heard == unread["sock"] = 0 /\ "sock" \notin edge \cup events /\ ~eof

PeerSends(n) ==
  /\ conn = "made" /\ ~eof /\ (polite => watched /\ Heard /\ n <= BufSize)
  /\ unread["sock"] + n <= MaxUnread
  /\ unread' = [unread EXCEPT !["sock"] = @ + n]
  /\ edge' = edge \cup {"sock"}
  /\ UNCHANGED <<vpc, events, com, sockvars, eof, up>> /\ Rest

PeerCloses ==
  /\ conn = "made" /\ ~eof /\ (polite => watched /\ Heard)
  /\ eof' = TRUE /\ edge' = edge \cup {"sock"}
  /\ UNCHANGED <<vpc, events, com, sockvars, unread, up>> /\ Rest

(* At once, or in answer to what is written after it has closed.           *)
PeerResets ==
  /\ conn = "made" /\ sstatus = "CONNECTED" /\ ~reset
  /\ polite => watched /\ (Heard \/ eof)
  /\ reset' = TRUE /\ eof' = TRUE /\ edge' = edge \cup {"sock"}
  /\ UNCHANGED <<vpc, events, com, sockvars, unread, up, stop>> /\ Assumed

(* Before the connection is used: connect() has yet to tell of it.         *)
PeerDrops ==
  /\ conn = "made" /\ sstatus = "CONNECTING" /\ ~polite
  /\ conn' = "refused" /\ eof' = FALSE /\ edge' = edge \ {"sock"}
  /\ unread' = [unread EXCEPT !["sock"] = 0]
  /\ UNCHANGED <<vpc, events, com, sstatus, watched, leaked, up>> /\ Rest

ComportBytes ==
  /\ com # "closed" /\ unread["com"] < MaxUnread
  /\ unread' = [unread EXCEPT !["com"] = @ + 1]
  /\ edge' = edge \cup {"com"}
  /\ UNCHANGED <<vpc, events, com, sockvars, eof, up>> /\ Rest

-----------------------------------------------------------------------------
(* The top of the loop: epoll_add_comport()                                *)

ComportOpen ==
  /\ vpc = "comport" /\ com = "closed"
  /\ \/ com' = "watched"
     \/ com' = "lost" /\ ctlfails
  /\ vpc' = "socket"
  /\ UNCHANGED <<events, sockvars, kernelvars>> /\ Rest

ComportNotNow ==
  /\ vpc = "comport"
  /\ vpc' = "socket"
  /\ UNCHANGED <<events, com, sockvars, kernelvars>> /\ Rest

-----------------------------------------------------------------------------
(* epoll_add_socket() and cp_sock_connect()                                *)

(* epoll_ctl() for a socket that is connected now; a socket epoll does not *)
(* take stays connected.                                                   *)
Watch == watched' = TRUE \/ (watched' = FALSE /\ ctlfails)

(* An edge for what the peer did before epoll watched.                     *)
WatchEdge == edge' = IF watched' /\ (unread["sock"] > 0 \/ eof) THEN edge \cup {"sock"} ELSE edge

AlreadyConnected ==
  /\ vpc = "socket" /\ sstatus = "CONNECTED"
  /\ vpc' = "wait"
  /\ UNCHANGED <<events, com, sockvars, kernelvars>> /\ Rest

Fresh == vpc = "socket" /\ sstatus \in {"INIT", "DISCONNECT"}

(* No address, no socket for any of them, or the first address is refused, *)
(* after which the others are not tried.                                   *)
ConnectRefused ==
  /\ Fresh /\ (~up \/ leaked = FdLimit)
  /\ sstatus' = "DISCONNECT" /\ vpc' = "wait"
  /\ UNCHANGED <<events, com, watched, leaked, conn, kernelvars>> /\ Rest

ConnectAtOnce ==
  /\ Fresh /\ leaked < FdLimit /\ up
  /\ sstatus' = "CONNECTED" /\ vpc' = "wait"
  /\ conn' = "made"
  /\ Watch /\ WatchEdge
  /\ UNCHANGED <<events, com, leaked, unread, eof, up>> /\ Rest

(* EINPROGRESS, and on to the second connect() of the same call.           *)
ConnectBegins ==
  /\ Fresh /\ leaked < FdLimit
  /\ sstatus' = "CONNECTING"
  /\ conn' = "syn"
  /\ UNCHANGED <<vpc, events, com, watched, leaked, kernelvars>> /\ Rest

Retrying == vpc = "socket" /\ sstatus = "CONNECTING"

ConnectInProgress ==
  /\ Retrying /\ conn = "syn"
  /\ vpc' = "wait"
  /\ UNCHANGED <<events, com, sockvars, kernelvars>> /\ Rest

ConnectMade ==
  /\ Retrying /\ conn = "made"
  /\ sstatus' = "CONNECTED" /\ vpc' = "wait"
  /\ Watch /\ WatchEdge
  /\ UNCHANGED <<events, com, leaked, conn, unread, eof, up>> /\ Rest

(* A mutant of ConnectLate: the status is left as it was.                  *)
ConnectLate_Stays ==
  /\ Retrying /\ conn = "refused"
  /\ vpc' = "wait"
  /\ UNCHANGED <<events, com, sockvars, kernelvars>> /\ Rest

(* The connection has failed after all: the socket is not closed, and the  *)
(* other addresses are not tried.                                          *)
ConnectLate ==
  /\ Retrying /\ conn = "refused"
  /\ sstatus' = "DISCONNECT" /\ vpc' = "wait"
  /\ leaked' = leaked + 1 /\ conn' = "none"
  /\ UNCHANGED <<events, com, watched, kernelvars>> /\ Rest

-----------------------------------------------------------------------------
Readable(d) ==
  IF d = "com" THEN com = "watched" /\ unread["com"] > 0
               ELSE watched /\ (unread["sock"] > 0 \/ eof)

(* epoll_wait(): an edge is told once, if there still is something to read.*)
EpollWait ==
  /\ vpc = "wait"
  /\ events' = {d \in edge : Readable(d)}
  /\ edge' = {}
  /\ vpc' = IF events' = {} THEN "comport" ELSE "events"
  /\ UNCHANGED <<com, sockvars, unread, eof, up>> /\ Rest

Served(d) ==
  /\ vpc = "events" /\ d \in events
  /\ events' = events \ {d}

(* The end of the turn, where stop is looked at.                           *)
Turn == vpc' = IF events' # {} THEN "events" ELSE IF stop' THEN "ended" ELSE "comport"

Read(d) == unread' = [unread EXCEPT ![d] = IF @ > BufSize THEN @ - BufSize ELSE 0]

(* What the serial port has goes to the socket, if it is connected.  A     *)
(* write to a connection that was reset fails, mostly with a SIGPIPE.      *)
ComportRead ==
  /\ Served("com")
  /\ Read("com")
  /\ stop' \in {stop, stop \/ (sstatus = "CONNECTED" /\ reset)}
  /\ Turn
  /\ UNCHANGED <<com, sockvars, eof, edge, up, reset>> /\ Assumed

SocketRead ==
  /\ Served("sock") /\ unread["sock"] > 0
  /\ Read("sock")
  /\ UNCHANGED <<com, sockvars, eof, edge, up>> /\ Rest
  /\ Turn

(* A mutant of SocketClosed: the status is left as it was.                 *)
SocketClosed_KeepsStatus ==
  /\ Served("sock") /\ unread["sock"] = 0 /\ eof
  /\ watched' = FALSE
  /\ conn' = "none" /\ eof' = FALSE /\ reset' = FALSE /\ edge' = edge \ {"sock"}
  /\ UNCHANGED <<com, sstatus, leaked, unread, up, stop>> /\ Assumed
  /\ Turn

(* A mutant of SocketClosed: the end of the stream is no reason to close.  *)
SocketClosed_Ignored ==
  /\ Served("sock") /\ unread["sock"] = 0 /\ eof
  /\ UNCHANGED <<com, sockvars, unread, eof, edge, up>> /\ Rest
  /\ Turn

(* read() gives 0 or fails: epoll_del_fd() and cp_sock_close().            *)
SocketClosed ==
  /\ Served("sock") /\ unread["sock"] = 0 /\ eof
  /\ watched' = FALSE
  /\ sstatus' = "INIT"
  /\ conn' = "none" /\ eof' = FALSE /\ reset' = FALSE /\ edge' = edge \ {"sock"}
  /\ UNCHANGED <<com, leaked, unread, up, stop>> /\ Assumed
  /\ Turn

-----------------------------------------------------------------------------
Network ==
  \/ ServerTurns \/ Handshake \/ PeerCloses \/ PeerResets \/ PeerDrops \/ ComportBytes
  \/ \E n \in 1 .. MaxUnread : PeerSends(n)

Connect ==
  \/ AlreadyConnected \/ ConnectRefused \/ ConnectAtOnce
  \/ ConnectBegins \/ ConnectInProgress \/ ConnectMade \/ ConnectLate

MainLoop ==
  \/ ComportOpen \/ ComportNotNow \/ Connect
  \/ EpollWait \/ ComportRead \/ SocketRead \/ SocketClosed

ConverterdNext == Network \/ MainLoop

ConverterdSpec == ConverterdInit /\ [][ConverterdNext]_cvars

-----------------------------------------------------------------------------
(* Every variable of the converter keeps its type.                         *)
ConverterdTypeOK ==
  /\ vpc \in {"comport", "socket", "wait", "events", "ended"}
  /\ events \subseteq {"com", "sock"} /\ edge \subseteq {"com", "sock"}
  /\ com \in {"closed", "watched", "lost"}
  /\ sstatus \in {"INIT", "CONNECTING", "CONNECTED", "DISCONNECT"}
  /\ watched \in BOOLEAN /\ eof \in BOOLEAN /\ reset \in BOOLEAN
  /\ stop \in BOOLEAN /\ up \in BOOLEAN
  /\ polite \in BOOLEAN /\ ctlfails \in BOOLEAN
  /\ leaked \in 0 .. FdLimit
  /\ conn \in {"none", "syn", "made", "refused"}
  /\ unread \in [{"com", "sock"} -> 0 .. MaxUnread]

(* sock.status, sock.fd and epoll agree: epoll watches the socket only     *)
(* while it is CONNECTED, so that no event finds another descriptor in its *)
(* place, and while it is CONNECTED epoll watches it and its connection is *)
(* there, unless epoll_ctl() failed.                                       *)
ConnectedIsWatched ==
  /\ watched => sstatus = "CONNECTED"
  /\ sstatus = "CONNECTED" => conn = "made" /\ (watched \/ ctlfails)
  /\ sstatus = "CONNECTING" => conn \in {"syn", "made", "refused"}

(* What a peer sends, and that it has closed, reaches the loop in spite of *)
(* the single read() per edge, if the peer sends no more than the buffer   *)
(* holds and waits for each thing to be noticed before it does the next,   *)
(* and a write to it has not stopped the program.                          *)
PeerIsHeard ==
  (polite /\ watched /\ (unread["sock"] > 0 \/ eof))
    ~> ((unread["sock"] = 0 /\ ~eof) \/ vpc = "ended")

(* A connection at both ends, not one only sock.status still knows of.     *)
Linked == sstatus = "CONNECTED" /\ conn = "made" /\ ~eof

(* With a server that can be reached for good the converter has a living   *)
(* connection again and again, however often and at whatever moment the    *)
(* peer ends it.  It needs that peer to be polite and epoll to take the    *)
(* socket: a close that comes with data beyond the buffer, or that nobody  *)
(* watches for, leaves a CONNECTED that is over.  And it lasts until the   *)
(* sockets of late failures exhaust the process or a SIGPIPE stops it.     *)
Reconnects ==
  (polite /\ ~ctlfails /\ <>[]up) => []<>(Linked \/ leaked = FdLimit \/ vpc = "ended")
=============================================================================
