------------------------------- MODULE CpFds -------------------------------
(***************************************************************************)
(* The event loop of cp_library: a CP_FDS with one server socket, as       *)
(* test/test_sock_server.c and test/swe_tpdud.c drive it,                  *)
(*                                                                         *)
(*     cp_fds_detect_event(); cp_fds_proc_event(); cp_sock_detect_timeout()*)
(*                                                                         *)
(* on one thread.  A socket is known to four containers: epoll, the event  *)
(* queue, the task array and a registry list, and has a flag for each.     *)
(* Peers and the kernel move at any time; the sockets' service functions   *)
(* do what the two programs' service functions do with the interface.      *)
(* An uplink of swe_tpdud.c, once it is connected, is served, timed out    *)
(* and ended like an accepted socket: Clients stand for both (how sockets  *)
(* connect is in CpSock).                                                  *)
(***************************************************************************)
EXTENDS Integers, FiniteSets, SequencesExt

CONSTANTS
  Server,      (* the CP_SOCK that listens                                 *)
  Clients,     (* the addresses at which malloc() can put accepted CP_SOCKs*)
  NoSock,      (* a NULL CP_SOCK pointer                                   *)
  Limits,      (* the values of max_event that are looked at               *)
  MaxOnce,     (* CP_MAX_EVENT_ONCE, what one epoll_wait() reports at most *)
  MaxClient,   (* max_client of the server                                 *)
  Backlog      (* a bound on connections waiting to be accepted            *)

ASSUME SocksAssumption ==
  Server \notin Clients /\ NoSock \notin Clients \cup {Server} /\ IsFiniteSet(Clients)
ASSUME LimitsAssumption ==
  /\ Limits \subseteq Nat \ {0} /\ MaxOnce \in Nat \ {0}
  /\ MaxClient \in Nat \ {0} /\ Backlog \in Nat \ {0}

Socks == Clients \cup {Server}

(* FLAG_SOCK_...                                                           *)
Flags == {"EPOLLED", "REGISTRY", "INQUEUE", "TASKED"}

VARIABLES
  (* CP_FDS *)
  max_event, event_cnt,
  epoll,       (* the sockets epfd watches                                 *)
  queue,       (* event_queue                                              *)
  data, items, (* task_array                                               *)
  (* CP_SOCK *)
  live,        (* the sockets that are allocated                           *)
  flag, event, index,
  accept_list, accept_cnt,
  full,        (* the sockets whose rbuf has no room left                  *)
  (* where the thread is *)
  pc,
  todo,        (* sockets still to visit: evts[], or an accept_list        *)
  i,           (* the task loop's index                                    *)
  cur, cb,     (* the socket whose callback runs, and how far it is        *)
  (* the kernel *)
  conns,       (* connections to accept                                    *)
  pending,     (* whether a socket has bytes to read                       *)
  closed       (* whether its peer has closed                              *)

fdsvars == <<max_event, event_cnt, epoll>>
arrvars == <<data, items, index>>
regvars == <<live, accept_list, accept_cnt>>
loop == <<pc, todo, i>>
call == <<cur, cb>>
kernel == <<conns, pending, closed, full>>
vars == <<fdsvars, queue, arrvars, flag, event, regvars, loop, call, kernel>>

Slots == 0 .. (max_event - 1)

(* cp_fds_init() and cp_sock_server_regist().                              *)
Init ==
  /\ max_event \in Limits
  /\ event_cnt = 1 /\ epoll = {Server}
  /\ queue = <<>>
  /\ data = [k \in Slots |-> NoSock] /\ items = 0
  /\ live = {Server}
  /\ flag = [s \in Socks |-> IF s = Server THEN {"EPOLLED", "REGISTRY"} ELSE {}]
  /\ event = [s \in Socks |-> "none"]
  /\ index = [s \in Socks |-> -1]
  /\ accept_list = {} /\ accept_cnt = 0
  /\ pc = "wait" /\ todo = {} /\ i = 0
  /\ cur = NoSock /\ cb = "none"
  /\ full = {}
  /\ conns = 0
  /\ pending = [c \in Clients |-> FALSE] /\ closed = [c \in Clients |-> FALSE]

-----------------------------------------------------------------------------
(* The containers                                                          *)

(* cp_array_add() takes the lowest free slot; cp_fds_add_sock_task()       *)
(* ignores a socket that has one already.                                  *)
FirstNull(k) == data[k] = NoSock /\ \A j \in Slots : j < k => data[j] # NoSock

AddTask(s) ==
  IF "TASKED" \in flag[s] \/ items >= max_event
    THEN UNCHANGED <<arrvars, flag>>
    ELSE \E k \in Slots :
           /\ FirstNull(k)
           /\ data' = [data EXCEPT ![k] = s]
           /\ items' = items + 1
           /\ index' = [index EXCEPT ![s] = k]
           /\ flag' = [flag EXCEPT ![s] = @ \cup {"TASKED"}]

(* cp_array_rm_byindex() on the slot the socket remembers, if it has one.  *)
DelTask(s) ==
  /\ data' = [k \in Slots |-> IF "TASKED" \in flag[s] /\ k = index[s] THEN NoSock ELSE data[k]]
  /\ items' = IF "TASKED" \in flag[s] /\ data[index[s]] # NoSock THEN items - 1 ELSE items
  /\ index' = [index EXCEPT ![s] = -1]

(* cp_rmqueue() on a queue that has the socket.                            *)
Unqueue(s) ==
  \E n \in DOMAIN queue :
    /\ queue[n] = s /\ \A m \in 1 .. (n - 1) : queue[m] # s
    /\ queue' = RemoveAt(queue, n)

InQueue(s) == \E n \in DOMAIN queue : queue[n] = s

(* cp_rmqueue() walks past the last node if the queue has other sockets    *)
(* only.                                                                   *)
RunsOff(s) == "INQUEUE" \in flag[s] /\ queue # <<>> /\ ~InQueue(s)

(* A mutant of Enqueue: sockets of the task list are queued as well.       *)
Enqueue_Tasked(s) ==
  IF "INQUEUE" \in flag[s]
    THEN UNCHANGED <<flag, queue>>
    ELSE /\ flag' = [flag EXCEPT ![s] = @ \cup {"INQUEUE"}]
         /\ queue' = IF Len(queue) = max_event THEN queue ELSE Append(queue, s)

(* cp_fds_sock_enqueue(): the flag is set before cp_enqueue() has said     *)
(* whether there was room.                                                 *)
Enqueue(s) ==
  IF flag[s] \cap {"INQUEUE", "TASKED"} # {}
    THEN UNCHANGED <<flag, queue>>
    ELSE /\ flag' = [flag EXCEPT ![s] = @ \cup {"INQUEUE"}]
         /\ queue' = IF Len(queue) = max_event THEN queue ELSE Append(queue, s)

-----------------------------------------------------------------------------
(* cp_fds_detect_event()                                                   *)

LoopAt(l) == pc = l /\ cur = NoSock

(* What a level-triggered epoll_wait() reports: a connection to accept,    *)
(* bytes to read, or the end of the peer's stream.                         *)
Ready == {s \in epoll : IF s = Server THEN conns > 0 ELSE pending[s] \/ closed[s]}

(* More than MaxOnce are left for the next turn, all but MaxOnce of them.  *)
Detect ==
  /\ LoopAt("wait")
  /\ \E evts \in SUBSET Ready :
       /\ evts = Ready \/ Cardinality(evts) = MaxOnce
       /\ Cardinality(evts) <= MaxOnce
       /\ todo' = evts
  /\ pc' = "evts"
  /\ UNCHANGED <<fdsvars, queue, arrvars, flag, event, regvars, i, call, kernel>>

DetectOne(s) ==
  /\ LoopAt("evts") /\ s \in todo
  /\ todo' = todo \ {s}
  /\ event' = [event EXCEPT ![s] = "in"]
  /\ Enqueue(s)
  /\ UNCHANGED <<fdsvars, arrvars, regvars, pc, i, call, kernel>>

Detected ==
  /\ LoopAt("evts") /\ todo = {}
  /\ pc' = "tasks" /\ i' = 0
  /\ UNCHANGED <<fdsvars, queue, arrvars, flag, event, regvars, todo, call, kernel>>

-----------------------------------------------------------------------------
(* cp_fds_proc_event(): the task array first, then the event queue until   *)
(* it is empty.                                                            *)

NextTask(k) == k >= i /\ data[k] # NoSock /\ \A j \in i .. (k - 1) : data[j] = NoSock

TaskCall ==
  /\ LoopAt("tasks")
  /\ \E k \in Slots : NextTask(k) /\ cur' = data[k] /\ i' = k + 1
  /\ cb' = "called"
  /\ UNCHANGED <<fdsvars, queue, arrvars, flag, event, regvars, pc, todo, kernel>>

TasksDone ==
  /\ LoopAt("tasks") /\ \A k \in Slots : ~NextTask(k)
  /\ pc' = "queue"
  /\ UNCHANGED <<fdsvars, queue, arrvars, flag, event, regvars, todo, i, call, kernel>>

(* A mutant of QueueCall: the flag stays when the socket leaves the queue. *)
QueueCall_KeepsFlag ==
  /\ LoopAt("queue") /\ queue # <<>>
  /\ queue' = Tail(queue)
  /\ cur' = Head(queue) /\ cb' = "called"
  /\ UNCHANGED <<fdsvars, arrvars, flag, event, regvars, loop, kernel>>

QueueCall ==
  /\ LoopAt("queue") /\ queue # <<>>
  /\ queue' = Tail(queue)
  /\ flag' = [flag EXCEPT ![Head(queue)] = @ \ {"INQUEUE"}]
  /\ cur' = Head(queue) /\ cb' = "called"
  /\ UNCHANGED <<fdsvars, arrvars, event, regvars, loop, kernel>>

QueueDone ==
  /\ LoopAt("queue") /\ queue = <<>>
  /\ pc' = "timeouts" /\ todo' = accept_list
  /\ UNCHANGED <<fdsvars, queue, arrvars, flag, event, regvars, i, call, kernel>>

-----------------------------------------------------------------------------
(* cp_sock_detect_timeout(): any accepted socket may have been idle, or    *)
(* without a message, for too long.                                        *)

TimeoutOne(s) ==
  /\ LoopAt("timeouts") /\ s \in todo
  /\ todo' = todo \ {s}
  /\ \/ UNCHANGED <<event, arrvars, flag>>
     \/ event' = [event EXCEPT ![s] = "timeout"] /\ AddTask(s)
  /\ UNCHANGED <<fdsvars, queue, regvars, pc, i, call, kernel>>

TimeoutsDone ==
  /\ LoopAt("timeouts") /\ todo = {}
  /\ pc' = "wait"
  /\ UNCHANGED <<fdsvars, queue, arrvars, flag, event, regvars, todo, i, call, kernel>>

-----------------------------------------------------------------------------
(* cp_sock_accept_regist(), the callback of the server                     *)

Return == cur' = NoSock /\ cb' = "none"

(* No more clients are allowed, accept() or an allocation fails: nothing   *)
(* is left of the attempt.                                                 *)
AcceptFails ==
  /\ cur = Server
  /\ Return
  /\ UNCHANGED <<fdsvars, queue, arrvars, flag, event, regvars, loop, kernel>>

(* A mutant of AcceptNoRoom: the client stays registered.                  *)
AcceptNoRoom_Registers ==
  /\ cur = Server /\ accept_cnt < MaxClient /\ conns > 0
  /\ event_cnt > max_event
  /\ conns' = conns - 1
  /\ accept_cnt' = accept_cnt + 1
  /\ Return
  /\ UNCHANGED <<fdsvars, queue, arrvars, flag, event, live, accept_list, loop, pending, closed, full>>

(* cp_add_epoll_event() has no room: the new socket is unregistered,       *)
(* closed and freed again.                                                 *)
AcceptNoRoom ==
  /\ cur = Server /\ accept_cnt < MaxClient /\ conns > 0
  /\ event_cnt > max_event
  /\ conns' = conns - 1
  /\ Return
  /\ UNCHANGED <<fdsvars, queue, arrvars, flag, event, regvars, loop, pending, closed, full>>

(* A mutant of AcceptNew: epoll is given sockets without a limit.          *)
AcceptNew_NoLimit(c) ==
  /\ cur = Server /\ accept_cnt < MaxClient /\ conns > 0
  /\ c \notin live
  /\ conns' = conns - 1
  /\ live' = live \cup {c}
  /\ accept_list' = accept_list \cup {c} /\ accept_cnt' = accept_cnt + 1
  /\ epoll' = epoll \cup {c} /\ event_cnt' = event_cnt + 1
  /\ flag' = [flag EXCEPT ![c] = {"REGISTRY", "EPOLLED"}]
  /\ event' = [event EXCEPT ![c] = "in"]
  /\ Return
  /\ UNCHANGED <<max_event, queue, arrvars, loop, pending, closed, full>>

(* cp_add_epoll_event() asks epoll for EPOLLIN in the event of the socket. *)
AcceptNew(c) ==
  /\ cur = Server /\ accept_cnt < MaxClient /\ conns > 0
  /\ event_cnt <= max_event
  /\ c \notin live
  /\ conns' = conns - 1
  /\ live' = live \cup {c}
  /\ accept_list' = accept_list \cup {c} /\ accept_cnt' = accept_cnt + 1
  /\ epoll' = epoll \cup {c} /\ event_cnt' = event_cnt + 1
  /\ flag' = [flag EXCEPT ![c] = {"REGISTRY", "EPOLLED"}]
  /\ event' = [event EXCEPT ![c] = "in"]
  /\ Return
  /\ UNCHANGED <<max_event, queue, arrvars, loop, pending, closed, full>>

-----------------------------------------------------------------------------
(* The service functions, the callbacks of the clients                     *)

(* cp_sock_recv() returned the bytes that fit; what does not fit counts as *)
(* sent later.                                                             *)
CbRecv ==
  /\ cur \in Clients /\ cb = "called" /\ event[cur] = "in" /\ pending[cur]
  /\ cur \notin full
  /\ pending' = [pending EXCEPT ![cur] = FALSE]
  /\ full' \in {full, full \cup {cur}}
  /\ cb' = "received"
  /\ UNCHANGED <<fdsvars, queue, arrvars, flag, event, regvars, loop, cur, conns, closed>>

(* A mutant of Destroy: the socket stays in the queue.                     *)
Destroy_Queued(s) ==
  /\ DelTask(s) /\ event' = [event EXCEPT ![s] = "none"]
  /\ epoll' = epoll \ {s}
  /\ event_cnt' = IF "EPOLLED" \in flag[s] THEN event_cnt - 1 ELSE event_cnt
  /\ accept_list' = accept_list \ {s}
  /\ accept_cnt' = IF "REGISTRY" \in flag[s] THEN accept_cnt - 1 ELSE accept_cnt
  /\ live' = live \ {s}
  /\ flag' = [flag EXCEPT ![s] = {}]
  /\ pending' = [pending EXCEPT ![s] = FALSE] /\ closed' = [closed EXCEPT ![s] = FALSE]
  /\ full' = full \ {s}
  /\ UNCHANGED <<max_event, pc, queue, todo, i, conns>>

(* cp_fds_destroy_sock(): out of the array, the queue, epoll and the       *)
(* registry, closed and freed.                                             *)
Destroy(s) ==
  IF RunsOff(s)
    THEN pc' = "crashed" /\ UNCHANGED <<fdsvars, queue, arrvars, flag, event, regvars, todo, i, kernel>>
    ELSE
      /\ DelTask(s) /\ event' = [event EXCEPT ![s] = "none"]
      /\ IF "INQUEUE" \in flag[s] /\ InQueue(s) THEN Unqueue(s) ELSE UNCHANGED queue
      /\ epoll' = epoll \ {s}
      /\ event_cnt' = IF "EPOLLED" \in flag[s] THEN event_cnt - 1 ELSE event_cnt
      /\ accept_list' = accept_list \ {s}
      /\ accept_cnt' = IF "REGISTRY" \in flag[s] THEN accept_cnt - 1 ELSE accept_cnt
      /\ live' = live \ {s}
      /\ flag' = [flag EXCEPT ![s] = {}]
      /\ pending' = [pending EXCEPT ![s] = FALSE] /\ closed' = [closed EXCEPT ![s] = FALSE]
      /\ full' = full \ {s}
      /\ UNCHANGED <<max_event, pc, todo, i, conns>>

(* cp_sock_recv() returns 0 at the end of the stream, but also where there *)
(* is nothing to read (EAGAIN) and where rbuf has no room.                 *)
ReceivesNone ==
  cur \in Clients /\ cb = "called" /\ event[cur] = "in" /\ (~pending[cur] \/ cur \in full)

(* The service takes every 0 for a disconnect.                             *)
CbGone ==
  /\ ReceivesNone
  /\ Destroy(cur) /\ Return

(* The service has dealt with the event.                                   *)
Serving == cur \in Clients /\ pc # "crashed" /\ (cb = "received" \/ event[cur] # "in")

(* It ends another connection, as stop_tpdu_service() does with the other  *)
(* side of a tunnel, or its own.                                           *)
CbEndOther(c) ==
  /\ Serving /\ c \in live \ {cur, Server}
  /\ Destroy(c)
  /\ UNCHANGED call

CbEnd ==
  /\ Serving
  /\ Destroy(cur) /\ Return

(* It waits for something else and wants to be called in every turn; the   *)
(* event it has dealt with is cleared.                                     *)
CbWait ==
  /\ Serving
  /\ AddTask(cur)
  /\ event' = [event EXCEPT ![cur] = "none"]
  /\ Return
  /\ UNCHANGED <<fdsvars, queue, regvars, loop, kernel>>

(* cp_string_move() of rbuf, as far as the other side has room for it.     *)
MoveOn == full' \in {full, full \ {cur}}

(* It returns, as proc_uplink_event() does after a timeout has put its     *)
(* socket into the task array: it stays there, and so does the event.      *)
CbStay ==
  /\ Serving
  /\ MoveOn
  /\ Return
  /\ UNCHANGED <<fdsvars, queue, arrvars, flag, event, regvars, loop, conns, pending, closed>>

(* It is done: cp_fds_del_sock_task().                                     *)
CbLeave ==
  /\ Serving
  /\ DelTask(cur)
  /\ event' = IF "TASKED" \in flag[cur] THEN [event EXCEPT ![cur] = "none"] ELSE event
  /\ flag' = [flag EXCEPT ![cur] = @ \ {"TASKED"}]
  /\ MoveOn
  /\ Return
  /\ UNCHANGED <<fdsvars, queue, regvars, loop, conns, pending, closed>>

-----------------------------------------------------------------------------
(* The kernel and the peers                                                *)

PeerConnects ==
  /\ conns < Backlog
  /\ conns' = conns + 1
  /\ UNCHANGED <<fdsvars, queue, arrvars, flag, event, regvars, loop, call, pending, closed, full>>

PeerSends(c) ==
  /\ c \in live /\ ~closed[c] /\ ~pending[c]
  /\ pending' = [pending EXCEPT ![c] = TRUE]
  /\ UNCHANGED <<fdsvars, queue, arrvars, flag, event, regvars, loop, call, conns, closed, full>>

PeerCloses(c) ==
  /\ c \in live /\ ~closed[c]
  /\ closed' = [closed EXCEPT ![c] = TRUE]
  /\ UNCHANGED <<fdsvars, queue, arrvars, flag, event, regvars, loop, call, conns, pending, full>>

-----------------------------------------------------------------------------
LoopNext ==
  \/ Detect \/ Detected \/ \E s \in Socks : DetectOne(s)
  \/ TaskCall \/ TasksDone \/ QueueCall \/ QueueDone
  \/ TimeoutsDone \/ \E s \in Clients : TimeoutOne(s)
  \/ AcceptFails \/ AcceptNoRoom \/ \E c \in Clients : AcceptNew(c)
  \/ CbRecv \/ CbGone \/ CbEnd \/ CbWait \/ CbStay \/ CbLeave
  \/ \E c \in Clients : CbEndOther(c)

KernelNext ==
  \/ PeerConnects
  \/ \E c \in Clients : PeerSends(c) \/ PeerCloses(c)

Next == LoopNext \/ KernelNext

Spec == Init /\ [][Next]_vars

(* The loop of main() goes on.  Nothing is assumed of the peers; of        *)
(* epoll_wait() what its manual page says, that successive calls go round  *)
(* the ready sockets when there are more than one call reports.            *)
FairSpec ==
  /\ Spec /\ WF_vars(LoopNext)
  /\ \A c \in Clients : SF_vars(Detect /\ c \in todo')

-----------------------------------------------------------------------------
(* Every variable has its type; cp_add_epoll_event() lets max_event + 1    *)
(* sockets in.                                                             *)
TypeOK ==
  /\ max_event \in Limits
  /\ event_cnt \in 0 .. (max_event + 1) /\ epoll \subseteq Socks
  /\ queue \in Seq(Socks) /\ Len(queue) <= max_event
  /\ data \in [Slots -> Socks \cup {NoSock}] /\ items \in 0 .. max_event
  /\ live \subseteq Socks
  /\ flag \in [Socks -> SUBSET Flags]
  /\ event \in [Socks -> {"none", "in", "timeout"}]
  /\ index \in [Socks -> Slots \cup {-1}]
  /\ accept_list \subseteq Clients /\ accept_cnt \in 0 .. MaxClient
  /\ full \subseteq Clients
  /\ pc \in {"wait", "evts", "tasks", "queue", "timeouts", "crashed"}
  /\ todo \subseteq Socks /\ i \in 0 .. max_event
  /\ cur \in Socks \cup {NoSock} /\ cb \in {"none", "called", "received"}
  /\ conns \in 0 .. Backlog
  /\ pending \in [Clients -> BOOLEAN] /\ closed \in [Clients -> BOOLEAN]

(* cp_fds_destroy_sock(): the four containers and the thread itself know   *)
(* no socket that has been freed, whoever freed it and whenever -- from    *)
(* the socket's own callback, from another's, out of the middle of the     *)
(* queue or behind the task loop's index.                                  *)
NoDangling ==
  /\ \A n \in DOMAIN queue : queue[n] \in live
  /\ \A k \in Slots : data[k] \in live \cup {NoSock}
  /\ epoll \cup accept_list \cup todo \subseteq live
  /\ cur \in live \cup {NoSock} \/ pc = "crashed"

(* The counters that decide whether there is room, in cp_add_epoll_event(),*)
(* cp_array_add() and cp_sock_accept_regist(), are the sizes of what they  *)
(* count, over every failed accept and every destroyed socket.             *)
CountsTell ==
  /\ event_cnt = Cardinality(epoll)
  /\ items = Cardinality({k \in Slots : data[k] # NoSock})
  /\ accept_cnt = Cardinality(accept_list)

(* cp_fds_proc_event() serves the task array and then the queue: a socket  *)
(* that is in both would be called twice for one event.                    *)
NotTwice ==
  /\ \A n \in DOMAIN queue : "TASKED" \notin flag[queue[n]]
  /\ \A m, n \in DOMAIN queue : m # n => queue[m] # queue[n]

(* The queue has places for all that one epoll_wait() can report: with the *)
(* 128 of CP_MAX_EVENT_ONCE and the default max_event of 1024 it always    *)
(* has, however many sockets there are, for a turn leaves the queue empty. *)
Fits == MaxOnce <= max_event

(* With that room, each flag says what its container does, and the         *)
(* index of a task is its slot: what enqueue, rmqueue, add, del and        *)
(* destroy decide by flag, they decide rightly.                            *)
FlagsTell ==
  Fits =>
    /\ \A s \in Socks :
         /\ "INQUEUE" \in flag[s] <=> InQueue(s)
         /\ "EPOLLED" \in flag[s] <=> s \in epoll
         /\ "TASKED" \in flag[s] <=> \E k \in Slots : data[k] = s
         /\ "TASKED" \in flag[s] => data[index[s]] = s
    /\ pc # "crashed"

(* The services' "remote socket disconnect, remove it now" on a receive of *)
(* 0 bytes.  It does not hold.                                             *)
GoneMeansClosed == ReceivesNone => closed[cur]

(* What does: the event queue delivers no socket with an event of before,  *)
(* be it of bytes that were read, of a socket that was freed at the same   *)
(* address, or the EPOLLIN that cp_add_epoll_event() asks for.  Apart from *)
(* a full buffer only the task array ends connections that are alive.      *)
GoneFromQueueIsClosed ==
  ReceivesNone => closed[cur] \/ cur \in full \/ "TASKED" \in flag[cur]

(* With that room, what a peer sends is read or its connection is ended,   *)
(* and a connection that is closed is ended, whatever other sockets are    *)
(* doing.                                                                  *)
BytesAreRead == \A c \in Clients : (Fits /\ pending[c]) ~> ~pending[c]
ClosedAreEnded == \A c \in Clients : (Fits /\ closed[c]) ~> ~closed[c]
=============================================================================
