---------------------------- MODULE Links_proofs ----------------------------
(***************************************************************************)
(* What holds of the converter, of the AT commands and of the services     *)
(* that connect for every value of their constants, and, with what         *)
(* Xmodem_proofs shows, of the four programs of MCLinks together.          *)
(***************************************************************************)
EXTENDS MCLinks, Xmodem_proofs, FiniteSetTheorems

-----------------------------------------------------------------------------
(* The converter's invariant is inductive as it stands: a connection is    *)
(* begun from INIT or DISCONNECT only, where epoll watches nothing, and    *)
(* CONNECTED is left only by the step that takes the socket out of epoll.  *)

(* Every step of the converter, its line and its network keeps status and  *)
(* epoll together.                                                         *)
LEMMA ConnectedIsWatchedStep ==
  ConnectedIsWatched /\ [ConverterdNext]_cvars => ConnectedIsWatched'
<1> SUFFICES ASSUME ConnectedIsWatched, [ConverterdNext]_cvars
             PROVE  ConnectedIsWatched'
  OBVIOUS
<1> USE DEF ConnectedIsWatched, Rest, Assumed
<1>1. CASE UNCHANGED cvars
  BY <1>1 DEF cvars, sockvars
<1>2. CASE Network
  <2>1. CASE ServerTurns
    BY <2>1 DEF ServerTurns, sockvars
  <2>2. CASE Handshake
    BY <2>2 DEF Handshake
  <2>3. CASE PeerCloses
    BY <2>3 DEF PeerCloses, sockvars
  <2>4. CASE ComportBytes
    BY <2>4 DEF ComportBytes, sockvars
  <2>5. ASSUME NEW n \in 1 .. MaxUnread, PeerSends(n)
        PROVE  ConnectedIsWatched'
    BY <2>5 DEF PeerSends, sockvars
  <2>6. CASE PeerResets
    BY <2>6 DEF PeerResets, sockvars
  <2>7. CASE PeerDrops
    BY <2>7 DEF PeerDrops
  <2> QED
    BY <1>2, <2>1, <2>2, <2>3, <2>4, <2>5, <2>6, <2>7 DEF Network
<1>3. CASE ComportOpen \/ ComportNotNow
  BY <1>3 DEF ComportOpen, ComportNotNow, sockvars
<1>4. CASE Connect
  <2>1. CASE AlreadyConnected \/ ConnectInProgress
    BY <2>1 DEF AlreadyConnected, ConnectInProgress, sockvars
  <2>2. CASE ConnectRefused
    BY <2>2 DEF ConnectRefused, Fresh
  <2>3. CASE ConnectAtOnce
    BY <2>3 DEF ConnectAtOnce, Watch
  <2>4. CASE ConnectBegins
    BY <2>4 DEF ConnectBegins, Fresh
  <2>5. CASE ConnectMade
    BY <2>5 DEF ConnectMade, Watch
  <2>6. CASE ConnectLate
    BY <2>6 DEF ConnectLate, Retrying
  <2> QED
    BY <1>4, <2>1, <2>2, <2>3, <2>4, <2>5, <2>6 DEF Connect
<1>5. CASE EpollWait \/ ComportRead \/ SocketRead
  BY <1>5 DEF EpollWait, ComportRead, SocketRead, sockvars
<1>6. CASE SocketClosed
  BY <1>6 DEF SocketClosed
<1> QED
  BY <1>1, <1>2, <1>3, <1>4, <1>5, <1>6 DEF ConverterdNext, MainLoop

(* sock.status and epoll agree, whatever the network, the peer and the     *)
(* serial port do (main() and cp_sock_connect()).                          *)
THEOREM StatusTruthful == ConverterdSpec => []ConnectedIsWatched
<1>1. ConverterdInit => ConnectedIsWatched
  BY DEF ConverterdInit, ConnectedIsWatched
<1> QED
  BY <1>1, ConnectedIsWatchedStep, PTL DEF ConverterdSpec

(* A socket is leaked when a connection in progress fails, so there is     *)
(* room for it in the count as long as there is one.                       *)
LeakFits == sstatus = "CONNECTING" => leaked < FdLimit

ConverterdInv == ConverterdTypeOK /\ LeakFits

(* What the network and the serial port do keeps the converter's types.    *)
LEMMA NetworkTypes == ConverterdInv /\ Network => ConverterdInv'
<1> SUFFICES ASSUME ConverterdInv, Network
             PROVE  ConverterdInv'
  OBVIOUS
<1> USE ConverterdAssumption DEF ConverterdInv, ConverterdTypeOK, LeakFits, Rest, Assumed, sockvars
<1>1. CASE ServerTurns
  BY <1>1 DEF ServerTurns
<1>2. CASE Handshake
  BY <1>2 DEF Handshake, kernelvars
<1>3. CASE PeerCloses
  BY <1>3 DEF PeerCloses
<1>4. CASE ComportBytes
  <2>1. unread["com"] + 1 \in 0 .. MaxUnread
    BY <1>4 DEF ComportBytes
  <2> QED
    BY <1>4, <2>1 DEF ComportBytes
<1>5. ASSUME NEW n \in 1 .. MaxUnread, PeerSends(n)
      PROVE  ConverterdInv'
  <2>1. unread["sock"] + n \in 0 .. MaxUnread
    BY <1>5 DEF PeerSends
  <2> QED
    BY <1>5, <2>1 DEF PeerSends
<1>6. CASE PeerResets
  BY <1>6 DEF PeerResets
<1>7. CASE PeerDrops
  <2>1. [unread EXCEPT !["sock"] = 0] \in [{"com", "sock"} -> 0 .. MaxUnread]
    BY <1>7 DEF PeerDrops
  <2> QED
    BY <1>7, <2>1 DEF PeerDrops
<1> QED
  BY <1>1, <1>2, <1>3, <1>4, <1>5, <1>6, <1>7 DEF Network

(* What is read is never more than there was.                              *)
LEMMA ReadTypes ==
  ASSUME ConverterdTypeOK, NEW d \in {"com", "sock"}, Read(d)
  PROVE  unread' \in [{"com", "sock"} -> 0 .. MaxUnread]
<1> DEFINE left == IF unread[d] > BufSize THEN unread[d] - BufSize ELSE 0
<1>1. left \in 0 .. MaxUnread
  BY ConverterdAssumption DEF ConverterdTypeOK
<1>2. unread' = [unread EXCEPT ![d] = left]
  BY DEF Read
<1> HIDE DEF left
<1> QED
  BY <1>1, <1>2 DEF ConverterdTypeOK

(* The main loop keeps them, too.                                          *)
LEMMA MainLoopTypes == ConverterdInv /\ MainLoop => ConverterdInv'
<1> SUFFICES ASSUME ConverterdInv, MainLoop
             PROVE  ConverterdInv'
  OBVIOUS
<1> USE ConverterdAssumption
    DEF ConverterdInv, ConverterdTypeOK, LeakFits, Rest, Assumed, sockvars, kernelvars
<1>1. CASE ComportOpen \/ ComportNotNow \/ AlreadyConnected \/ ConnectInProgress
  <2>1. vpc' \in {"socket", "wait"} /\ com' \in {com, "watched", "lost"}
    BY <1>1 DEF ComportOpen, ComportNotNow, AlreadyConnected, ConnectInProgress
  <2>2. UNCHANGED <<events, sockvars, kernelvars, stop, reset, polite, ctlfails>>
    BY <1>1 DEF ComportOpen, ComportNotNow, AlreadyConnected, ConnectInProgress
  <2> QED
    BY <2>1, <2>2
<1>2. CASE ConnectRefused
  BY <1>2 DEF ConnectRefused
<1>3. CASE ConnectAtOnce
  BY <1>3 DEF ConnectAtOnce, Watch, WatchEdge
<1>4. CASE ConnectBegins
  BY <1>4 DEF ConnectBegins
<1>5. CASE ConnectMade
  BY <1>5 DEF ConnectMade, Watch, WatchEdge
<1>6. CASE ConnectLate
  BY <1>6 DEF ConnectLate, Retrying
<1>7. CASE EpollWait
  <2>1. events' \subseteq {"com", "sock"} /\ edge' \subseteq {"com", "sock"}
    BY <1>7 DEF EpollWait
  <2>2. vpc' \in {"comport", "events"}
    BY <1>7 DEF EpollWait
  <2>3. UNCHANGED <<com, sockvars, unread, eof, up, stop, reset, polite, ctlfails>>
    BY <1>7 DEF EpollWait
  <2> QED
    BY <2>1, <2>2, <2>3
<1>8. CASE ComportRead
  <2>1. unread' \in [{"com", "sock"} -> 0 .. MaxUnread]
    BY <1>8, ReadTypes DEF ComportRead
  <2>2. stop' \in BOOLEAN /\ vpc' \in {"comport", "events", "ended"}
    BY <1>8 DEF ComportRead, Turn
  <2> QED
    BY <1>8, <2>1, <2>2 DEF ComportRead, Served
<1>9. CASE SocketRead
  BY <1>9, ReadTypes DEF SocketRead, Served, Turn
<1>10. CASE SocketClosed
  BY <1>10 DEF SocketClosed, Served, Turn
<1> QED
  BY <1>1, <1>2, <1>3, <1>4, <1>5, <1>6, <1>7, <1>8, <1>9, <1>10 DEF MainLoop, Connect

(* The converter never leaks more sockets than a process may have, and     *)
(* keeps every other variable in its type.                                 *)
LEMMA ConverterdTypes == ConverterdSpec => []ConverterdTypeOK
<1>1. ConverterdInit => ConverterdInv
  <2> SUFFICES ASSUME ConverterdInit
               PROVE  ConverterdInv
    OBVIOUS
  <2> USE DEF ConverterdInit
  <2>1. 0 \in 0 .. MaxUnread /\ 0 \in 0 .. FdLimit
    BY ConverterdAssumption
  <2>2. unread \in [{"com", "sock"} -> 0 .. MaxUnread]
    BY <2>1
  <2> QED
    BY <2>1, <2>2 DEF ConverterdInv, ConverterdTypeOK, LeakFits
<1>2. ConverterdInv /\ UNCHANGED cvars => ConverterdInv'
  BY DEF ConverterdInv, ConverterdTypeOK, LeakFits, cvars, sockvars, kernelvars
<1>3. ConverterdInv /\ [ConverterdNext]_cvars => ConverterdInv'
  BY <1>2, NetworkTypes, MainLoopTypes DEF ConverterdNext
<1>4. ConverterdInv => ConverterdTypeOK
  BY DEF ConverterdInv
<1>5. ConverterdSpec => []ConverterdInv
  BY <1>1, <1>3, PTL DEF ConverterdSpec
<1> QED
  BY <1>4, <1>5, PTL

-----------------------------------------------------------------------------
(* What epoll tells.  An edge that was told stays true until it is served: *)
(* nothing but its own read() takes away what there is to read.            *)

EventsFind ==
  /\ events # {} => vpc = "events"
  /\ \A d \in events : Readable(d)

(* What the peer sent to a socket that is watched has an edge or an event, *)
(* as long as the peer is polite; it all fits the buffer of one read().    *)
NoEdgeLost ==
  polite /\ watched /\ (unread["sock"] > 0 \/ eof) => "sock" \in edge \cup events

PoliteFits ==
  polite => /\ unread["sock"] <= BufSize
            /\ eof => unread["sock"] = 0
            /\ unread["sock"] > 0 \/ eof => watched

Heeded == EventsFind /\ NoEdgeLost /\ PoliteFits

(* Nothing that happens outside makes an event void or an edge go.         *)
LEMMA NetworkHeeded == ConverterdTypeOK /\ ConnectedIsWatched /\ Heeded /\ Network => Heeded'
<1> SUFFICES ASSUME ConverterdTypeOK, ConnectedIsWatched, Heeded, Network
             PROVE  Heeded'
  OBVIOUS
<1> USE ConverterdAssumption
    DEF ConverterdTypeOK, Heeded, EventsFind, NoEdgeLost, PoliteFits, Readable, Rest, Assumed, sockvars
<1>1. CASE ServerTurns
  BY <1>1 DEF ServerTurns
<1>2. CASE Handshake
  BY <1>2 DEF Handshake, kernelvars
<1>3. CASE PeerCloses
  BY <1>3 DEF PeerCloses, Heard
<1>4. CASE ComportBytes
  BY <1>4 DEF ComportBytes
<1>5. ASSUME NEW n \in 1 .. MaxUnread, PeerSends(n)
      PROVE  Heeded'
  BY <1>5 DEF PeerSends, Heard
<1>6. CASE PeerResets
  BY <1>6 DEF PeerResets, Heard
<1>7. CASE PeerDrops
  <2>1. ~watched /\ ~polite
    BY <1>7 DEF PeerDrops, ConnectedIsWatched
  <2>2. "sock" \notin events
    BY <2>1
  <2> QED
    BY <1>7, <2>1, <2>2 DEF PeerDrops
<1> QED
  BY <1>1, <1>2, <1>3, <1>4, <1>5, <1>6, <1>7 DEF Network

(* The loop forgets an edge only for an event, and an event only to read.  *)
LEMMA MainLoopHeeded ==
  ConverterdTypeOK /\ ConnectedIsWatched /\ Heeded /\ MainLoop => Heeded'
<1> SUFFICES ASSUME ConverterdTypeOK, ConnectedIsWatched, Heeded, MainLoop
             PROVE  Heeded'
  OBVIOUS
<1> USE ConverterdAssumption
    DEF ConverterdTypeOK, Heeded, EventsFind, NoEdgeLost, PoliteFits, Readable, Rest, Assumed,
        sockvars, kernelvars
<1>1. CASE ComportOpen \/ ComportNotNow
  BY <1>1 DEF ComportOpen, ComportNotNow
<1>2. CASE AlreadyConnected \/ ConnectInProgress \/ ConnectRefused
  BY <1>2 DEF AlreadyConnected, ConnectInProgress, ConnectRefused, Fresh, Retrying
<1>3. CASE ConnectAtOnce
  BY <1>3 DEF ConnectAtOnce, Fresh, Watch, WatchEdge, ConnectedIsWatched
<1>4. CASE ConnectBegins \/ ConnectLate
  BY <1>4 DEF ConnectBegins, ConnectLate, Fresh, Retrying
<1>5. CASE ConnectMade
  BY <1>5 DEF ConnectMade, Retrying, Watch, WatchEdge, ConnectedIsWatched
<1>6. CASE EpollWait
  BY <1>6 DEF EpollWait
<1>7. CASE ComportRead
  BY <1>7 DEF ComportRead, Served, Read, Turn
<1>8. CASE SocketRead
  <2>1. /\ unread'["com"] = unread["com"]
        /\ unread'["sock"] = IF unread["sock"] > BufSize THEN unread["sock"] - BufSize ELSE 0
    BY <1>8 DEF SocketRead, Read
  <2>2. unread'["sock"] <= unread["sock"] /\ (polite => unread'["sock"] = 0)
    <3>1. unread["sock"] \in Nat /\ BufSize \in Nat
      OBVIOUS
    <3> QED
      BY <2>1, <3>1
  <2>3. /\ events' = events \ {"sock"} /\ vpc = "events"
        /\ events' # {} => vpc' = "events"
        /\ unread["sock"] > 0
        /\ UNCHANGED <<com, watched, eof, edge, polite>>
    BY <1>8 DEF SocketRead, Served, Turn
  <2>4. EventsFind'
    <3>1. \A d \in events' : d = "com"
      BY <2>3
    <3> QED
      BY <2>1, <2>3, <3>1
  <2>5. PoliteFits'
    BY <2>2, <2>3
  <2>6. NoEdgeLost'
    BY <2>2, <2>3
  <2> QED
    BY <2>4, <2>5, <2>6
<1>9. CASE SocketClosed
  <2>1. /\ events' = events \ {"sock"} /\ vpc = "events"
        /\ events' # {} => vpc' = "events"
        /\ watched' = FALSE /\ eof' = FALSE /\ unread["sock"] = 0
        /\ UNCHANGED <<com, unread, polite>>
    BY <1>9 DEF SocketClosed, Served, Turn
  <2>2. \A d \in events' : d = "com"
    BY <2>1
  <2>3. EventsFind'
    BY <2>1, <2>2
  <2>4. NoEdgeLost' /\ PoliteFits'
    BY <2>1
  <2> QED
    BY <2>3, <2>4
<1> QED
  BY <1>1, <1>2, <1>3, <1>4, <1>5, <1>6, <1>7, <1>8, <1>9 DEF MainLoop, Connect

(* The two belong together in every behaviour.                             *)
LEMMA ConverterdHeeds == ConverterdSpec => []Heeded
<1>1. ConverterdInit => Heeded
  BY ConverterdAssumption DEF ConverterdInit, Heeded, EventsFind, NoEdgeLost, PoliteFits
<1>2. Heeded /\ UNCHANGED cvars => Heeded'
  BY DEF Heeded, EventsFind, NoEdgeLost, PoliteFits, Readable, cvars, sockvars, kernelvars
<1>3. ConverterdTypeOK /\ ConnectedIsWatched /\ Heeded /\ [ConverterdNext]_cvars => Heeded'
  BY <1>2, NetworkHeeded, MainLoopHeeded DEF ConverterdNext
<1> QED
  BY <1>1, <1>3, ConverterdTypes, StatusTruthful, PTL DEF ConverterdSpec

(* The read() of the loop for an event finds data, or the peer's end of    *)
(* the stream, on a descriptor epoll still watches: it never blocks the    *)
(* loop, and never takes a socket that is open for one that has closed.    *)
THEOREM EventsRight == ConverterdSpec => []EventsFind
<1>1. Heeded => EventsFind
  BY DEF Heeded
<1> QED
  BY <1>1, ConverterdHeeds, PTL

(* No edge of a polite peer is lost on the way from connect() over         *)
(* epoll_ctl() and epoll_wait() to the read(): the safety half of          *)
(* PeerIsHeard.                                                            *)
THEOREM PeerHasEdge == ConverterdSpec => []NoEdgeLost
<1>1. Heeded => NoEdgeLost
  BY DEF Heeded
<1> QED
  BY <1>1, ConverterdHeeds, PTL

-----------------------------------------------------------------------------
(* The types of the channel; a command that has begun can be sent.         *)
AtInv ==
  /\ AtTypeOK
  /\ tpc = "drain" => Len(owed) < MaxOwed

(* Every step of send_atcmd() and of the modem keeps the types.            *)
LEMMA AtInvStep == AtInv /\ [AtNext]_atvars => AtInv'
<1> SUFFICES ASSUME AtInv, [AtNext]_atvars
             PROVE  AtInv'
  OBVIOUS
<1> DEFINE S == {"own", "old"}
<1> USE AtAssumption DEF AtInv, AtTypeOK
<1>0. /\ port \in Seq(S) /\ owed \in Seq(S) /\ Len(port) \in Nat /\ Len(owed) \in Nat
      /\ drained \in Nat
  BY LenProperties
<1>1. CASE UNCHANGED atvars
  BY <1>1 DEF atvars
<1>2. CASE AtCall
  <2>1. /\ port' \in Seq(S) /\ Len(port') = Len(port)
        /\ owed' \in Seq(S) /\ Len(owed') = Len(owed)
    BY <1>0, <1>2 DEF AtCall, Aged
  <2>2. crowded' \in BOOLEAN /\ drained' \in 0 .. DrainMin
    BY <1>2 DEF AtCall
  <2> QED
    BY <1>0, <1>2, <2>1, <2>2 DEF AtCall
<1>3. CASE Throw
  <2>1. port' \in Seq(S) /\ Len(port') = Len(port) - 1 /\ Len(port') \in Nat
    BY <1>0, <1>3, HeadTailProperties, LenProperties DEF Throw
  <2>2. drained' \in 0 .. DrainMin
    BY <1>0, <1>3 DEF Throw
  <2> QED
    BY <1>0, <1>3, <2>1, <2>2 DEF Throw
<1>4. CASE Send
  <2>1. owed' \in Seq(S) /\ Len(owed') <= MaxOwed
    <3>1. owed' = owed \/ owed' = Append(owed, "own")
      BY <1>4 DEF Send, Sent
    <3>2. /\ Append(owed, "own") \in Seq(S)
          /\ Len(Append(owed, "own")) = Len(owed) + 1
      BY <1>0, AppendProperties
    <3>3. Len(owed) < MaxOwed
      BY <1>4 DEF Send
    <3> QED
      BY <1>0, <3>1, <3>2, <3>3
  <2>2. tpc' \in {"idle", "read"} /\ retval' \in {"failed", retval}
        /\ UNCHANGED <<drained, port, crowded>>
    BY <1>4 DEF Send, Sent
  <2> QED
    BY <1>0, <2>1, <2>2
<1>5. CASE ModemAnswers
  <2>1. /\ owed' \in Seq(S) /\ Head(owed) \in S
        /\ Len(owed') = Len(owed) \/ Len(owed') = Len(owed) - 1
    <3>1. owed' = owed \/ owed' = Tail(owed)
      BY <1>5 DEF ModemAnswers
    <3>2. /\ Head(owed) \in S /\ Tail(owed) \in Seq(S)
          /\ Len(Tail(owed)) = Len(owed) - 1
      BY ONLY <1>0, <1>5, HeadTailProperties DEF ModemAnswers
    <3> QED
      BY ONLY <1>0, <3>1, <3>2
  <2>2. port' \in Seq(S) /\ Len(port') = Len(port) + 1
    BY <1>0, <1>5, <2>1, AppendProperties DEF ModemAnswers
  <2>3. Len(port') <= MaxWaiting
    BY <1>0, <1>5, <2>2 DEF ModemAnswers
  <2> QED
    BY <1>0, <1>5, <2>1, <2>2, <2>3 DEF ModemAnswers
<1>6. CASE ReadByte
  <2>1. port' \in Seq(S) /\ Len(port') = Len(port) - 1 /\ Head(port) \in S
    BY <1>0, <1>6, HeadTailProperties DEF ReadByte
  <2> QED
    BY <1>0, <1>6, <2>1 DEF ReadByte
<1>7. CASE Timeout
  BY <1>0, <1>7 DEF Timeout
<1> QED
  BY <1>1, <1>2, <1>3, <1>4, <1>5, <1>6, <1>7 DEF AtNext

(* What is owed and waits stays within the bounds, and every variable of   *)
(* the channel in its type.                                                *)
LEMMA AtTypes == AtSpec => []AtTypeOK
<1>1. AtInit => AtInv
  <2> SUFFICES ASSUME AtInit
               PROVE  AtTypeOK /\ tpc # "drain"
    BY DEF AtInv
  <2>1. MaxOwed \in Nat /\ MaxWaiting \in Nat /\ DrainMin \in Nat
    BY AtAssumption
  <2>2. Len(port) = 0 /\ Len(owed) = 0
    BY DEF AtInit
  <2>3. port \in Seq({"own", "old"}) /\ owed \in Seq({"own", "old"})
    BY DEF AtInit
  <2>4. drained \in 0 .. DrainMin /\ Len(port) <= MaxWaiting /\ Len(owed) <= MaxOwed
    BY <2>1, <2>2 DEF AtInit
  <2>5. crowded \in BOOLEAN /\ tpc = "idle" /\ retval = "none"
    BY DEF AtInit
  <2> QED
    BY <2>3, <2>4, <2>5 DEF AtTypeOK
<1>2. AtInv => AtTypeOK
  BY DEF AtInv
<1> QED
  BY <1>1, <1>2, AtInvStep, PTL DEF AtSpec

(* Why an answer is the call's own: what waited as it began, no more than  *)
(* it has time for, is gone when it sends, and after that there is nothing *)
(* but what answers it.                                                    *)

Cleared ==
  /\ tpc = "drain" => owed = <<>> /\ Len(port) + drained <= DrainMin
  /\ tpc = "read" => port \in Seq({"own"}) /\ owed \in Seq({"own"})
  /\ retval # "old"

ClearedUnlessCrowded == ~crowded => Cleared

(* Every step of send_atcmd() and of the modem keeps it so.                *)
LEMMA ClearedStep ==
  AtTypeOK /\ ClearedUnlessCrowded /\ [AtNext]_atvars => ClearedUnlessCrowded'
<1> SUFFICES ASSUME AtTypeOK, ClearedUnlessCrowded, [AtNext]_atvars, ~crowded'
             PROVE  Cleared'
  BY DEF ClearedUnlessCrowded
<1> USE AtAssumption
<1>0. /\ Len(port) \in Nat /\ drained \in 0 .. DrainMin
      /\ port \in Seq({"own", "old"}) /\ owed \in Seq({"own", "old"})
  BY LenProperties DEF AtTypeOK
<1>1. CASE UNCHANGED atvars
  BY <1>1 DEF atvars, ClearedUnlessCrowded, Cleared
<1>2. CASE AtCall
  <2>1. owed = <<>> /\ ~(Len(port) > DrainMin) /\ drained' = 0 /\ tpc' = "drain" /\ retval' = "none"
    BY <1>2 DEF AtCall
  <2>2. Len(port') = Len(port)
    BY <1>0, <1>2 DEF AtCall, Aged
  <2>3. owed' = <<>>
    BY <1>2, <2>1 DEF AtCall, Aged
  <2> QED
    BY <1>0, <2>1, <2>2, <2>3 DEF Cleared
<1>3. CASE Throw
  <2>1. ~crowded /\ Cleared /\ tpc = "drain" /\ tpc' = tpc /\ retval' = retval /\ owed' = owed
    BY <1>3 DEF Throw, ClearedUnlessCrowded
  <2>2. Len(port') = Len(port) - 1
    BY <1>0, <1>3, HeadTailProperties DEF Throw
  <2>3. drained' <= drained + 1 /\ drained' \in Nat
    BY <1>0, <1>3 DEF Throw
  <2>4. Len(port) + drained <= DrainMin
    BY <2>1 DEF Cleared
  <2>5. Len(port') + drained' <= DrainMin
    BY <1>0, <2>2, <2>3, <2>4
  <2> QED
    BY <2>1, <2>5 DEF Cleared
<1>4. CASE Send
  <2>1. Cleared /\ tpc = "drain" /\ port' = port
    BY <1>4 DEF Send, ClearedUnlessCrowded
  <2>2. port = <<>>
    <3>1. CASE drained = DrainMin
      <4>1. Len(port) = 0
        BY <1>0, <2>1, <3>1 DEF Cleared
      <4> QED
        BY <1>0, <4>1, EmptySeq
    <3> QED
      BY <1>4, <3>1 DEF Send
  <2>3. tpc' \in {"idle", "read"} /\ retval' \in {"failed", retval}
        /\ owed' \in {owed, Append(owed, "own")}
    BY <1>4 DEF Send, Sent
  <2>4. owed = <<>>
    BY <2>1 DEF Cleared
  <2>5. owed' \in Seq({"own"})
    <3>1. <<>> \in Seq({"own"}) /\ Append(<<>>, "own") \in Seq({"own"})
      BY AppendProperties
    <3> QED
      BY <2>3, <2>4, <3>1
  <2>6. port' \in Seq({"own"})
    BY <2>1, <2>2
  <2> QED
    BY <2>1, <2>3, <2>5, <2>6 DEF Cleared
<1>5. CASE ModemAnswers
  <2>1. Cleared /\ owed # <<>> /\ tpc' = tpc /\ retval' = retval
    BY <1>5 DEF ModemAnswers, ClearedUnlessCrowded
  <2>2. tpc # "drain"
    BY <2>1 DEF Cleared
  <2>3. ASSUME tpc = "read"
        PROVE  port' \in Seq({"own"}) /\ owed' \in Seq({"own"})
    <3>1. port \in Seq({"own"}) /\ owed \in Seq({"own"})
      BY <2>1, <2>3 DEF Cleared
    <3>2. Head(owed) \in {"own"} /\ Tail(owed) \in Seq({"own"})
      BY <2>1, <3>1, HeadTailProperties
    <3>3. Append(port, Head(owed)) \in Seq({"own"})
      BY <3>1, <3>2, AppendProperties
    <3> QED
      BY <1>5, <3>1, <3>2, <3>3 DEF ModemAnswers
  <2> QED
    BY <2>1, <2>2, <2>3 DEF Cleared
<1>6. CASE ReadByte
  <2>1. Cleared /\ tpc = "read" /\ port # <<>> /\ owed' = owed /\ port' = Tail(port)
    BY <1>6 DEF ReadByte, ClearedUnlessCrowded
  <2>2. port \in Seq({"own"}) /\ owed \in Seq({"own"})
    BY <2>1 DEF Cleared
  <2>3. Head(port) = "own" /\ Tail(port) \in Seq({"own"})
    BY <2>1, <2>2, HeadTailProperties
  <2>4. tpc' \in {"idle", "read"} /\ retval' \in {"own", retval}
    BY <1>6, <2>1, <2>3 DEF ReadByte
  <2> QED
    BY <2>1, <2>2, <2>3, <2>4 DEF Cleared
<1>7. CASE Timeout
  BY <1>7 DEF Timeout, Cleared
<1> QED
  BY <1>1, <1>2, <1>3, <1>4, <1>5, <1>6, <1>7 DEF AtNext

(* send_atcmd() answers with the reply to an earlier command only if that  *)
(* was still to come, or waited with more bytes than there is time for, as *)
(* the call began.                                                         *)
THEOREM OwnAnswer == AtSpec => []AnswerIsOwn
<1>1. AtInit => ClearedUnlessCrowded
  BY AtAssumption DEF AtInit, ClearedUnlessCrowded, Cleared
<1>2. ClearedUnlessCrowded => AnswerIsOwn
  BY DEF ClearedUnlessCrowded, Cleared, AnswerIsOwn
<1> QED
  BY <1>1, <1>2, ClearedStep, AtTypes, PTL DEF AtSpec

-----------------------------------------------------------------------------
(* What is true of the sockets in the middle of a call, too: only the one  *)
(* the call is about may lack its place in epoll or its descriptor, and    *)
(* the number it keeps of a descriptor that is closed is nobody else's.    *)

Watched(c) == fd[c] \in opened /\ status[c] \in {"CONNECTING", "CONNECTED"}

Settled ==
  /\ client_list = alive /\ tasked \subseteq alive /\ epolled \subseteq alive
  /\ \A c \in alive : (kpc = "idle" \/ c # caller) => c \in epolled /\ Watched(c)
  /\ \A c \in Services \ alive : fd[c] = 0 /\ status[c] = "INIT"
  /\ \A n \in opened : \E c \in alive : fd[c] = n
  /\ \A c, d \in alive : fd[c] = fd[d] /\ fd[c] # 0 => c = d

(* What is known of the socket of the call at each place.                  *)
AtCaller ==
  /\ kpc # "idle" => caller \in alive
  /\ kpc = "create" => status[caller] = "INIT" /\ fd[caller] = 0 /\ caller \notin epolled
  /\ kpc = "connecting" => Watched(caller) /\ status[caller] = "CONNECTING"
  /\ kpc = "failed" /\ rv = "ok" => caller \notin epolled
  /\ kpc = "add" /\ caller \in epolled => fd[caller] \in opened
  /\ kpc = "add" /\ fd[caller] \in opened => Watched(caller)

(* event_cnt may be too high, never too low.                               *)
Covered == Cardinality(epolled) <= event_cnt

SockInv == CpSockTypeOK /\ Settled /\ AtCaller /\ Covered

(* The start has no sockets.                                               *)
LEMMA SockInit == CpSockInit => SockInv
BY CpSockAssumption, FS_EmptySet DEF CpSockInit, SockInv, CpSockTypeOK, Settled, AtCaller, Covered

(* The count of a socket that leaves epoll is at least one.                *)
LEMMA CountLeft ==
  ASSUME CpSockTypeOK, Covered, NEW c \in epolled
  PROVE  /\ event_cnt - 1 \in 0 .. MaxEvent + 1
         /\ Cardinality(epolled \ {c}) <= event_cnt - 1
         /\ Cardinality(epolled \ {c}) <= event_cnt
<1>1. IsFiniteSet(epolled)
  BY CpSockAssumption, FS_Subset DEF CpSockTypeOK
<1>2. Cardinality(epolled) \in Nat /\ Cardinality(epolled \ {c}) = Cardinality(epolled) - 1
  BY <1>1, FS_CardinalityType, FS_RemoveElement
<1>3. Cardinality(epolled \ {c}) \in Nat
  BY <1>1, FS_RemoveElement, FS_CardinalityType
<1> QED
  BY <1>2, <1>3, CpSockAssumption DEF CpSockTypeOK, Covered

(* What freeing a socket leaves of the others: their descriptors are not   *)
(* the one that is closed.                                                 *)
LEMMA TermStep ==
  ASSUME SockInv, NEW c \in Services, Term(c), c \in alive,
         client_list' = client_list \ {c}, tasked' = tasked \ {c},
         kpc = "idle" \/ c = caller, kpc' = "idle",
         event_cnt' \in 0 .. MaxEvent + 1, Covered', UNCHANGED <<caller, rv>>
  PROVE  SockInv'
<1> USE DEF SockInv, Term
<1>1. CpSockTypeOK'
  BY DEF CpSockTypeOK
<1>2. \A d \in alive' : d \in epolled' /\ Watched(d)'
  BY DEF Settled, Watched, CpSockTypeOK, Fds
<1>3. Settled'
  BY <1>2 DEF Settled, CpSockTypeOK, Fds
<1> QED
  BY <1>1, <1>3 DEF AtCaller

(* Every step of a call, of a service and of the kernel keeps the          *)
(* invariant.                                                              *)
LEMMA SockStep == SockInv /\ [CpSockNext]_kvars => SockInv'
<1> SUFFICES ASSUME SockInv, [CpSockNext]_kvars
             PROVE  SockInv'
  OBVIOUS
<1> USE CpSockAssumption DEF callvars, sockets
<1>1. CASE UNCHANGED kvars
  BY <1>1 DEF kvars, SockInv, CpSockTypeOK, Settled, AtCaller, Watched, Covered
<1>2. ASSUME NEW c \in Services, ConnectRegist(c)
      PROVE  SockInv'
  <2> USE <1>2 DEF SockInv, ConnectRegist
  <2>1. CpSockTypeOK'
    BY DEF CpSockTypeOK
  <2>2. Settled'
    BY DEF Settled, Watched, CpSockTypeOK
  <2>3. AtCaller'
    BY DEF AtCaller, Settled, Watched, CpSockTypeOK
  <2> QED
    BY <2>1, <2>2, <2>3 DEF Covered
<1>3. CASE CreateFails
  BY <1>3 DEF CreateFails, SockInv, CpSockTypeOK, Settled, AtCaller, Watched, Covered
<1>4. ASSUME NEW how \in {"made", "pending"}, NEW next \in {"failed", "connecting"},
             Create(how, next)
      PROVE  SockInv'
  <2> USE <1>4 DEF SockInv, Create
  <2>1. PICK n \in Fds \ opened : /\ opened' = opened \cup {n}
                                 /\ fd' = [fd EXCEPT ![caller] = n]
    BY DEF Create
  <2>2. CpSockTypeOK'
    BY <2>1 DEF CpSockTypeOK
  <2>3. \A c \in alive' : c # caller => c \in epolled' /\ Watched(c)' /\ fd'[c] # n
    BY <2>1 DEF Settled, Watched, CpSockTypeOK
  <2>4. \A m \in opened' : \E c \in alive' : fd'[c] = m
    <3>1. caller \in alive /\ fd'[caller] = n /\ fd[caller] = 0
      BY <2>1 DEF AtCaller, CpSockTypeOK
    <3>2. \A m \in opened : m # 0 /\ m # n
      BY <2>1 DEF CpSockTypeOK, Fds
    <3> QED
      BY <2>1, <3>1, <3>2 DEF Settled, CpSockTypeOK
  <2>5. Settled'
    BY <2>1, <2>3, <2>4 DEF Settled, AtCaller, CpSockTypeOK
  <2>6. AtCaller'
    BY <2>1 DEF AtCaller, Settled, Watched, CpSockTypeOK
  <2> QED
    BY <2>2, <2>5, <2>6 DEF Covered
<1>5. CASE StillPending
  BY <1>5 DEF StillPending, SockInv, CpSockTypeOK, Settled, AtCaller, Watched, Covered
<1>6. CASE ConnectedNow
  BY <1>6 DEF ConnectedNow, SockInv, CpSockTypeOK, Settled, AtCaller, Watched, Covered
<1>7. CASE RefusedLate
  BY <1>7 DEF RefusedLate, SockInv, CpSockTypeOK, Settled, AtCaller, Watched, Covered
<1>8. CASE Failed
  <2> USE <1>8 DEF SockInv, Failed
  <2>1. CpSockTypeOK'
    BY DEF CpSockTypeOK
  <2>2. \A c \in alive' : c # caller => c \in epolled' /\ Watched(c)'
    BY DEF Settled, Watched, AtCaller, CpSockTypeOK, Fds
  <2>3. Settled'
    BY <2>2 DEF Settled, AtCaller, CpSockTypeOK
  <2>4. AtCaller'
    BY DEF AtCaller, CpSockTypeOK, Settled, Watched
  <2> QED
    BY <2>1, <2>3, <2>4 DEF Covered
<1>9. CASE AddAlready \/ AddFails
  BY <1>9 DEF AddAlready, AddFails, SockInv, CpSockTypeOK, Settled, AtCaller, Watched, Covered
<1>10. CASE AddDone
  <2>1. Covered'
    <3>1. IsFiniteSet(epolled)
      BY CpSockAssumption, FS_Subset DEF SockInv, CpSockTypeOK
    <3>2. Cardinality(epolled') = Cardinality(epolled) + 1
      BY <1>10, <3>1, FS_AddElement DEF AddDone
    <3> QED
      BY <1>10, <3>1, <3>2, FS_CardinalityType DEF AddDone, SockInv, Covered, CpSockTypeOK
  <2> QED
    BY <1>10, <2>1 DEF AddDone, SockInv, CpSockTypeOK, Settled, AtCaller, Watched
<1>11. CASE DelRegist
  <2>1. caller \in alive /\ Term(caller) /\ event_cnt' = event_cnt
    BY <1>11 DEF DelRegist, SockInv, AtCaller
  <2>2. Covered'
    <3>1. CASE caller \in epolled
      BY <2>1, <3>1, CountLeft DEF Term, SockInv, Covered, CpSockTypeOK
    <3>2. CASE caller \notin epolled
      <4>1. epolled' = epolled
        BY <2>1, <3>2 DEF Term
      <4> QED
        BY <4>1, <2>1 DEF SockInv, Covered
    <3> QED
      BY <3>1, <3>2
  <2> QED
    BY <1>11, <2>1, <2>2, TermStep DEF DelRegist, SockInv, CpSockTypeOK
<1>12. ASSUME NEW c \in Services, DestroySock(c)
       PROVE  SockInv'
  <2>1. event_cnt' \in 0 .. MaxEvent + 1 /\ Covered'
    <3>1. CASE c \in epolled
      BY <1>12, <3>1, CountLeft DEF DestroySock, Term, SockInv, Covered
    <3>2. CASE c \notin epolled
      <4>1. epolled' = epolled /\ event_cnt' = event_cnt
        BY <1>12, <3>2 DEF DestroySock, Term
      <4> QED
        BY <4>1 DEF SockInv, Covered, CpSockTypeOK
    <3> QED
      BY <3>1, <3>2
  <2> QED
    BY <1>12, <2>1, TermStep DEF DestroySock, SockInv
<1>13. ASSUME NEW c \in Services, DetectTimeout(c) \/ AttemptEnds(c)
       PROVE  SockInv'
  BY <1>13 DEF DetectTimeout, AttemptEnds, SockInv, CpSockTypeOK, Settled, AtCaller, Watched, Covered
<1> QED
  BY <1>1, <1>2, <1>3, <1>4, <1>5, <1>6, <1>7, <1>8, <1>9, <1>10, <1>11, <1>12, <1>13
  DEF CpSockNext, ConnectsAtOnce, ConnectStarts

(* Between two calls of cp_sock_connect_regist() the client list, epoll,   *)
(* the task array and the open descriptors agree on the sockets there are, *)
(* whichever way earlier calls failed.                                     *)
THEOREM ClientsAgree == CpSockSpec => []ClientsWhole
<1>1. SockInv => ClientsWhole
  <2> SUFFICES ASSUME SockInv, kpc = "idle"
               PROVE  /\ client_list = alive /\ epolled = alive /\ tasked \subseteq alive
                      /\ opened = {fd[c] : c \in alive}
                      /\ \A c, d \in alive : fd[c] = fd[d] => c = d
                      /\ \A c \in alive : status[c] \in {"CONNECTING", "CONNECTED"}
    BY DEF ClientsWhole
  <2>1. /\ \A c \in alive : c \in epolled /\ fd[c] \in opened /\ status[c] \in {"CONNECTING", "CONNECTED"}
        /\ client_list = alive /\ tasked \subseteq alive /\ epolled \subseteq alive
        /\ \A n \in opened : \E c \in alive : fd[c] = n
        /\ \A c, d \in alive : fd[c] = fd[d] /\ fd[c] # 0 => c = d
    BY DEF SockInv, Settled, Watched
  <2>2. 0 \notin opened
    BY DEF SockInv, CpSockTypeOK, Fds
  <2>3. opened = {fd[c] : c \in alive}
    BY <2>1
  <2>4. \A c, d \in alive : fd[c] = fd[d] => c = d
    BY <2>1, <2>2
  <2> QED
    BY <2>1, <2>3, <2>4
<1> QED
  BY <1>1, SockInit, SockStep, PTL DEF CpSockSpec

(* event_cnt is never below the number of sockets in epoll, though the     *)
(* failures of cp_sock_connect_regist() leave it above: what they cost is  *)
(* room, and cp_add_epoll_event() never lets more than max_event + 1 in.   *)
THEOREM CountNeverLow == CpSockSpec => [](Covered /\ Cardinality(epolled) <= MaxEvent + 1)
<1>1. SockInv => Covered /\ Cardinality(epolled) <= MaxEvent + 1
  <2> SUFFICES ASSUME SockInv
               PROVE  Covered /\ Cardinality(epolled) <= MaxEvent + 1
    OBVIOUS
  <2>1. Cardinality(epolled) \in Nat
    BY CpSockAssumption, FS_Subset, FS_CardinalityType DEF SockInv, CpSockTypeOK
  <2> QED
    BY <2>1, CpSockAssumption DEF SockInv, CpSockTypeOK, Covered
<1> QED
  BY <1>1, SockInit, SockStep, PTL DEF CpSockSpec

(* Not even in the middle of a call do two sockets have the same           *)
(* descriptor, so that no close() of one, and none of the second close()s  *)
(* after the label "failed", takes away the descriptor of another.         *)
OwnDescriptors == \A c, d \in alive : fd[c] = fd[d] /\ fd[c] # 0 => c = d

THEOREM DescriptorsOwn == CpSockSpec => []OwnDescriptors
<1>1. SockInv => OwnDescriptors
  BY DEF SockInv, Settled, OwnDescriptors
<1> QED
  BY <1>1, SockInit, SockStep, PTL DEF CpSockSpec

-----------------------------------------------------------------------------
(* The four programs together.                                             *)

(* A behaviour of MCLinks is one of each of the four, three of which do    *)
(* nothing: what is shown of each of them holds of it.                     *)
THEOREM EachProgram == Spec => ConverterdSpec /\ XmodemSpec /\ AtSpec /\ CpSockSpec
<1>1. Init => ConverterdInit /\ XmodemInit /\ AtInit /\ CpSockInit
  BY DEF Init
<1>2. [Next]_vars => /\ [ConverterdNext]_cvars /\ [XmodemNext]_xvars
                     /\ [AtNext]_atvars /\ [CpSockNext]_kvars
  BY DEF Next, vars, OfConverterd, OfXmodem, OfAtChannel, OfCpSock
<1> QED
  BY <1>1, <1>2, PTL DEF Spec, ConverterdSpec, XmodemSpec, AtSpec, CpSockSpec

(* Every variable of the converter, the bootloader's transfer, the AT      *)
(* commands and the services that connect stays in its type: no counter or *)
(* queue of theirs goes past its end.                                      *)
THEOREM LinksTypes == Spec => []TypeOK
<1>1. CpSockSpec => []CpSockTypeOK
  <2>1. SockInv => CpSockTypeOK
    BY DEF SockInv
  <2> QED
    BY <2>1, SockInit, SockStep, PTL DEF CpSockSpec
<1>2. ConverterdTypeOK /\ XmodemTypeOK /\ AtTypeOK /\ CpSockTypeOK => TypeOK
  BY DEF TypeOK
<1> QED
  BY <1>1, <1>2, EachProgram, ConverterdTypes, XmodemTypes, AtTypes, PTL
=============================================================================
