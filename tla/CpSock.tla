------------------------------- MODULE CpSock -------------------------------
(***************************************************************************)
(* The connecting side of the event loop: services that call               *)
(* cp_sock_connect_regist() (cp_library/cp_network.c, cp_sock.c, cp_fds.c) *)
(* until their socket is connected, and cp_fds_destroy_sock() when they    *)
(* end.  One thread makes all the calls, the kernel goes on meanwhile.     *)
(* A service has one socket at a time, by whose name the socket goes.      *)
(***************************************************************************)
EXTENDS Naturals, FiniteSets

CONSTANTS
  Services,    (* the services that connect                                *)
  NFds,        (* the descriptors the process may open                     *)
  MaxEvent     (* fds->max_event                                           *)

ASSUME CpSockAssumption ==
  IsFiniteSet(Services) /\ NFds \in Nat \ {0} /\ MaxEvent \in Nat

VARIABLES
  kpc,         (* where cp_sock_connect_regist() is, "idle" between calls  *)
  caller,      (* the service whose call it is                             *)
  rv,          (* what cp_sock_connect() will return: "ok" for 0, or "bad" *)
  alive,       (* the sockets that are allocated                           *)
  status,      (* sock->status                                             *)
  fd,          (* sock->fd, 0 for -1                                       *)
  client_list, (* the sockets in fds->client_list                          *)
  epolled,     (* the sockets with FLAG_SOCK_EPOLLED                       *)
  tasked,      (* the sockets in the task array                            *)
  event_cnt,   (* fds->event_cnt                                           *)
  opened,      (* the descriptors that are open                            *)
  attempt      (* how far the kernel is with the connection of a socket    *)

callvars == <<kpc, caller, rv>>
sockets == <<alive, status, fd, client_list, epolled, tasked>>
kvars == <<callvars, sockets, event_cnt, opened, attempt>>

Fds == 1 .. NFds

CpSockInit ==
  /\ kpc = "idle" /\ caller \in Services /\ rv = "ok"
  /\ alive = {} /\ client_list = {} /\ epolled = {} /\ tasked = {}
  /\ status = [c \in Services |-> "INIT"] /\ fd = [c \in Services |-> 0]
  /\ event_cnt = 0 /\ opened = {}
  /\ attempt = [c \in Services |-> "none"]

-----------------------------------------------------------------------------
(* cp_sock_connect_regist()                                                *)

(* The service has no socket yet, or its connection is in progress.        *)
ConnectRegist(c) ==
  /\ kpc = "idle" /\ ~(c \in alive /\ status[c] = "CONNECTED")
  /\ alive' = alive \cup {c} /\ client_list' = client_list \cup {c}
  /\ kpc' = IF status[c] = "CONNECTING" THEN "connecting" ELSE "create"
  /\ caller' = c /\ rv' = "ok"
  /\ UNCHANGED <<status, fd, epolled, tasked, event_cnt, opened, attempt>>

(* No address, socket() or bind() fails for every one, or connect() is     *)
(* refused for the first that gets so far; what was opened is closed.      *)
CreateFails ==
  /\ kpc = "create"
  /\ rv' = "bad" /\ kpc' = "failed"
  /\ UNCHANGED <<caller, sockets, event_cnt, opened, attempt>>

(* socket() and a connect() that goes on to label "next".                  *)
Create(how, next) ==
  /\ kpc = "create"
  /\ \E n \in Fds \ opened :
       /\ opened' = opened \cup {n}
       /\ fd' = [fd EXCEPT ![caller] = n]
  /\ status' = [status EXCEPT ![caller] = "CONNECTING"]
  /\ attempt' = [attempt EXCEPT ![caller] = how]
  /\ kpc' = next
  /\ UNCHANGED <<caller, rv, alive, client_list, epolled, tasked, event_cnt>>

(* connect() succeeds at once: status is not CONNECTED, so the code falls  *)
(* through the label "connected" to "failed".                              *)
ConnectsAtOnce == Create("made", "failed")

ConnectStarts == Create("pending", "connecting")

(* A call while the connection is in progress: EALREADY.                   *)
StillPending ==
  /\ kpc = "connecting" /\ attempt[caller] = "pending"
  /\ kpc' = "add"
  /\ UNCHANGED <<caller, rv, sockets, event_cnt, opened, attempt>>

ConnectedNow ==
  /\ kpc = "connecting" /\ attempt[caller] = "made"
  /\ status' = [status EXCEPT ![caller] = "CONNECTED"]
  /\ kpc' = "add"
  /\ UNCHANGED <<caller, rv, alive, fd, client_list, epolled, tasked>>
  /\ UNCHANGED <<event_cnt, opened, attempt>>

RefusedLate ==
  /\ kpc = "connecting" /\ attempt[caller] = "refused"
  /\ status' = [status EXCEPT ![caller] = "DISCONNECT"]
  /\ rv' = "bad" /\ kpc' = "failed"
  /\ UNCHANGED <<caller, alive, fd, client_list, epolled, tasked>>
  /\ UNCHANGED <<event_cnt, opened, attempt>>

(* The label "failed": close() leaves sock->fd as it is, rv decides what   *)
(* the caller does with the socket.                                        *)
Failed ==
  /\ kpc = "failed"
  /\ opened' = opened \ {fd[caller]}
  /\ kpc' = IF rv = "ok" THEN "add" ELSE "del_regist"
  /\ UNCHANGED <<caller, rv, sockets, event_cnt, attempt>>

-----------------------------------------------------------------------------
(* cp_add_epoll_event()                                                    *)

AddAlready ==
  /\ kpc = "add" /\ caller \in epolled
  /\ kpc' = "idle"
  /\ UNCHANGED <<caller, rv, sockets, event_cnt, opened, attempt>>

AddDone ==
  /\ kpc = "add" /\ caller \notin epolled
  /\ event_cnt <= MaxEvent /\ fd[caller] \in opened
  /\ epolled' = epolled \cup {caller} /\ event_cnt' = event_cnt + 1
  /\ kpc' = "idle"
  /\ UNCHANGED <<caller, rv, alive, status, fd, client_list, tasked>>
  /\ UNCHANGED <<opened, attempt>>

(* No space, a descriptor that is closed, or an epoll_ctl() that fails.    *)
AddFails ==
  /\ kpc = "add" /\ caller \notin epolled
  /\ kpc' = "del_regist"
  /\ UNCHANGED <<caller, rv, sockets, event_cnt, opened, attempt>>

-----------------------------------------------------------------------------
(* cp_sock_term() closes the descriptor and frees the socket, its flag     *)
(* and its status with it.                                                 *)
Term(c) ==
  /\ opened' = opened \ {fd[c]}
  /\ fd' = [fd EXCEPT ![c] = 0]
  /\ status' = [status EXCEPT ![c] = "INIT"]
  /\ attempt' = [attempt EXCEPT ![c] = "none"]
  /\ alive' = alive \ {c} /\ epolled' = epolled \ {c}

(* A mutant of DelRegist: the socket stays in the task array.              *)
DelRegist_KeepsTask ==
  /\ kpc = "del_regist"
  /\ client_list' = client_list \ {caller}
  /\ Term(caller)
  /\ kpc' = "idle"
  /\ UNCHANGED <<caller, rv, tasked, event_cnt>>

(* The label "del_regist": registry and task array are left, and the       *)
(* socket is freed; nobody calls cp_del_epoll_event().                     *)
DelRegist ==
  /\ kpc = "del_regist"
  /\ client_list' = client_list \ {caller} /\ tasked' = tasked \ {caller}
  /\ Term(caller)
  /\ kpc' = "idle"
  /\ UNCHANGED <<caller, rv, event_cnt>>

(* cp_fds_destroy_sock(), when the peer has closed or the service ends.    *)
DestroySock(c) ==
  /\ kpc = "idle" /\ c \in alive
  /\ client_list' = client_list \ {c} /\ tasked' = tasked \ {c}
  /\ event_cnt' = IF c \in epolled THEN event_cnt - 1 ELSE event_cnt
  /\ Term(c)
  /\ UNCHANGED callvars

(* cp_sock_detect_timeout() and a socket that has been idle, connected or  *)
(* still connecting.                                                       *)
DetectTimeout(c) ==
  /\ kpc = "idle" /\ c \in client_list
  /\ tasked' = tasked \cup {c}
  /\ UNCHANGED <<callvars, alive, status, fd, client_list, epolled>>
  /\ UNCHANGED <<event_cnt, opened, attempt>>

(* The kernel: the server answers, or the attempt comes to nothing.        *)
AttemptEnds(c) ==
  /\ attempt[c] = "pending"
  /\ attempt' \in {[attempt EXCEPT ![c] = end] : end \in {"made", "refused"}}
  /\ UNCHANGED <<callvars, sockets, event_cnt, opened>>

CpSockNext ==
  \/ \E c \in Services :
       ConnectRegist(c) \/ DestroySock(c) \/ DetectTimeout(c) \/ AttemptEnds(c)
  \/ CreateFails \/ ConnectsAtOnce \/ ConnectStarts
  \/ StillPending \/ ConnectedNow \/ RefusedLate \/ Failed
  \/ AddAlready \/ AddDone \/ AddFails \/ DelRegist

CpSockSpec == CpSockInit /\ [][CpSockNext]_kvars

-----------------------------------------------------------------------------
(* Every variable of the connecting side keeps its type.                   *)
CpSockTypeOK ==
  /\ kpc \in {"idle", "create", "connecting", "failed", "add", "del_regist"}
  /\ caller \in Services /\ rv \in {"ok", "bad"}
  /\ alive \subseteq Services /\ client_list \subseteq Services
  /\ epolled \subseteq Services /\ tasked \subseteq Services
  /\ status \in [Services -> {"INIT", "CONNECTING", "CONNECTED", "DISCONNECT"}]
  /\ fd \in [Services -> Fds \cup {0}]
  /\ event_cnt \in 0 .. MaxEvent + 1 /\ opened \subseteq Fds
  /\ attempt \in [Services -> {"none", "pending", "made", "refused"}]

(* Whichever way connect calls fail, between two calls of                  *)
(* cp_sock_connect_regist() the sockets of client_list are those that are  *)
(* allocated and watched by epoll, no other is in the task array, and each *)
(* has a descriptor of its own; no other descriptor is open.               *)
ClientsWhole ==
  kpc = "idle" =>
    /\ client_list = alive /\ epolled = alive /\ tasked \subseteq alive
    /\ opened = {fd[c] : c \in alive}
    /\ \A c, d \in alive : fd[c] = fd[d] => c = d
    /\ \A c \in alive : status[c] \in {"CONNECTING", "CONNECTED"}

(* cp_fds.h says of event_cnt "current socket regist in epoll".  It does   *)
(* not: cp_sock_connect_regist() frees a socket whose connection fails     *)
(* late without cp_del_epoll_event().                                      *)
EventCountTells == kpc = "idle" => event_cnt = Cardinality(epolled)
=============================================================================
