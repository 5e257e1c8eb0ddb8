---------------------------- MODULE CpFds_proofs ----------------------------
(***************************************************************************)
(* Proofs about the event loop, for any clients and any limits.            *)
(***************************************************************************)
EXTENDS CpFds, FiniteSetTheorems, SequenceTheorems, TLAPS

-----------------------------------------------------------------------------
(* The inductive invariant, one part per container and one for the thread. *)

(* The task array: an entry is a socket that has the flag and knows its    *)
(* slot, and the other way round.                                          *)
ArrayInv ==
  /\ data \in [Slots -> Socks \cup {NoSock}] /\ index \in [Socks -> Slots \cup {-1}]
  /\ items = Cardinality({k \in Slots : data[k] # NoSock}) /\ items <= max_event
  /\ \A s \in Socks : "TASKED" \in flag[s] => index[s] \in Slots /\ data[index[s]] = s
  /\ \A k \in Slots :
       data[k] # NoSock => "TASKED" \in flag[data[k]] /\ index[data[k]] = k

(* The event queue: a member has the flag -- the converse is what may fail *)
(* when the queue is full -- and is there once.                            *)
QueueInv ==
  /\ queue \in Seq(Socks) /\ Len(queue) <= max_event
  /\ \A n \in 1 .. Len(queue) : "INQUEUE" \in flag[queue[n]]
  /\ \A m, n \in 1 .. Len(queue) : queue[m] = queue[n] => m = n

EpollInv ==
  /\ epoll \subseteq Socks
  /\ event_cnt = Cardinality(epoll) /\ event_cnt <= max_event + 1
  /\ \A s \in Socks : "EPOLLED" \in flag[s] <=> s \in epoll

RegistryInv ==
  /\ accept_list \subseteq Clients
  /\ accept_cnt = Cardinality(accept_list) /\ accept_cnt <= MaxClient
  /\ \A c \in Clients : "REGISTRY" \in flag[c] <=> c \in accept_list

(* What is in a container is allocated, and nothing is in queue and array. *)
LiveInv ==
  /\ live \subseteq Socks
  /\ \A n \in 1 .. Len(queue) : queue[n] \in live /\ "TASKED" \notin flag[queue[n]]
  /\ \A k \in Slots : data[k] \in live \cup {NoSock}
  /\ epoll \cup accept_list \subseteq live

Containers ==
  /\ max_event \in Limits
  /\ flag \in [Socks -> SUBSET Flags]
  /\ ArrayInv /\ QueueInv /\ EpollInv /\ RegistryInv /\ LiveInv

(* The thread: a callback runs in the two loops of cp_fds_proc_event()     *)
(* only, for a socket that is not queued; nobody is left to visit in       *)
(* those two, and the queue is empty outside of them but while it is       *)
(* filled.                                                                 *)
Thread ==
  /\ event \in [Socks -> {"none", "in", "timeout"}]
  /\ pc \in {"wait", "evts", "tasks", "queue", "timeouts", "crashed"}
  /\ i \in 0 .. max_event /\ todo \subseteq live
  /\ cur \in live \cup {NoSock} /\ cb \in {"none", "called", "received"}
  /\ cur # NoSock => pc \in {"tasks", "queue", "crashed"}
  /\ cur # NoSock => \A n \in 1 .. Len(queue) : queue[n] # cur
  /\ pc \in {"tasks", "queue", "crashed"} => todo = {}
  /\ pc = "timeouts" => todo \subseteq Clients
  /\ pc \in {"wait", "timeouts"} => queue = <<>>

Kernel ==
  /\ conns \in 0 .. Backlog
  /\ pending \in [Clients -> BOOLEAN] /\ closed \in [Clients -> BOOLEAN]
  /\ full \subseteq Clients

IInv == Containers /\ Thread /\ Kernel

(* What a turn has queued and has still to queue is what one epoll_wait()  *)
(* reported; where the queue has places for that, a socket with its flag   *)
(* is queued.                                                              *)
AheadInv == pc = "evts" => Len(queue) + Cardinality(todo) <= MaxOnce

Queued == \A s \in Socks : "INQUEUE" \in flag[s] => InQueue(s)

RoomInv == AheadInv /\ (Fits => pc # "crashed" /\ Queued)

(* A client that is about to be told of bytes has bytes, or a peer that    *)
(* has closed: while it is in the list of epoll_wait(), while it waits in  *)
(* the queue, and when it is called from there.                            *)
Told(c) == pending[c] \/ closed[c]

ToldInv ==
  \A c \in Clients :
    /\ pc = "evts" /\ c \in todo => Told(c)
    /\ InQueue(c) /\ pc # "crashed" => Told(c)
    /\ event[c] = "in" /\ cur = c /\ cb = "called" => Told(c) \/ "TASKED" \in flag[c]

-----------------------------------------------------------------------------
(* Facts about the operators.                                              *)

LEMMA FiniteParts ==
  ASSUME max_event \in Limits
  PROVE  /\ IsFiniteSet(Socks) /\ Cardinality(Socks) \in Nat
         /\ max_event \in Nat /\ max_event > 0
         /\ \A A \in SUBSET Socks : IsFiniteSet(A) /\ Cardinality(A) \in Nat
         /\ \A A \in SUBSET Slots : IsFiniteSet(A) /\ Cardinality(A) \in Nat
<1>1. IsFiniteSet(Socks)
  BY SocksAssumption, FS_AddElement DEF Socks
<1>2. max_event \in Nat /\ max_event > 0
  BY LimitsAssumption
<1>3. IsFiniteSet(Slots)
  BY <1>2, FS_Interval DEF Slots
<1>4. QED
  BY <1>1, <1>2, <1>3, FS_Subset, FS_CardinalityType

(* RemoveAt() drops one element and keeps the order of the others.         *)
LEMMA RemoveAtProperties ==
  ASSUME NEW S, NEW q \in Seq(S), NEW n \in 1 .. Len(q)
  PROVE  /\ RemoveAt(q, n) \in Seq(S)
         /\ Len(RemoveAt(q, n)) = Len(q) - 1
         /\ \A m \in 1 .. (Len(q) - 1) :
              RemoveAt(q, n)[m] = IF m < n THEN q[m] ELSE q[m + 1]
<1> DEFINE a == SubSeq(q, 1, n - 1)
<1> DEFINE b == SubSeq(q, n + 1, Len(q))
<1>1. Len(q) \in Nat /\ \A m \in 1 .. Len(q) : q[m] \in S
  BY LenProperties, ElementOfSeq
<1>2. a \in Seq(S) /\ Len(a) = n - 1 /\ \A m \in 1 .. (n - 1) : a[m] = q[m]
  <2>1. \A m \in 1 .. (n - 1) : q[m] \in S
    BY <1>1
  <2>2. 1 \in Int /\ n - 1 \in Int
    BY <1>1
  <2>3. /\ a \in Seq(S)
        /\ Len(a) = IF 1 <= n - 1 THEN (n - 1) - 1 + 1 ELSE 0
        /\ \A m \in 1 .. (n - 1) - 1 + 1 : a[m] = q[1 + m - 1]
    BY <2>1, <2>2, SubSeqProperties
  <2>4. QED
    BY <1>1, <2>3
<1>3. b \in Seq(S) /\ Len(b) = Len(q) - n
      /\ \A m \in 1 .. (Len(q) - n) : b[m] = q[n + m]
  <2>1. \A m \in (n + 1) .. Len(q) : q[m] \in S
    BY <1>1
  <2>2. n + 1 \in Int /\ Len(q) \in Int
    BY <1>1
  <2>3. /\ b \in Seq(S)
        /\ Len(b) = IF n + 1 <= Len(q) THEN Len(q) - (n + 1) + 1 ELSE 0
        /\ \A m \in 1 .. Len(q) - (n + 1) + 1 : b[m] = q[(n + 1) + m - 1]
    BY <2>1, <2>2, SubSeqProperties
  <2>4. QED
    BY <1>1, <2>3
<1>4. /\ a \o b \in Seq(S) /\ Len(a \o b) = Len(a) + Len(b)
      /\ \A m \in 1 .. Len(a) + Len(b) : (a \o b)[m] = IF m <= Len(a) THEN a[m] ELSE b[m - Len(a)]
  <2> HIDE DEF a, b
  <2> QED BY <1>2, <1>3, ConcatProperties
<1>5. RemoveAt(q, n) = a \o b
  BY DEF RemoveAt
<1>6. QED
  <2> HIDE DEF a, b
  <2>1. Len(a) + Len(b) = Len(q) - 1
    BY <1>1, <1>2, <1>3
  <2>2. ASSUME NEW m \in 1 .. (Len(q) - 1)
        PROVE  (a \o b)[m] = IF m < n THEN q[m] ELSE q[m + 1]
    <3>1. m \in 1 .. Len(a) + Len(b)
      BY <2>1
    <3>2. CASE m < n
      BY <3>1, <3>2, <1>1, <1>2, <1>4
    <3>3. CASE ~(m < n)
      <4>1. m - Len(a) \in 1 .. (Len(q) - n) /\ ~(m <= Len(a)) /\ n + (m - Len(a)) = m + 1
        BY <3>3, <1>1, <1>2
      <4>2. (a \o b)[m] = b[m - Len(a)]
        BY <4>1, <3>1, <1>4
      <4>3. b[m - Len(a)] = q[n + (m - Len(a))]
        BY <4>1, <1>3
      <4>4. QED
        BY <4>1, <4>2, <4>3, <3>3
    <3>4. QED
      BY <3>2, <3>3
  <2>3. QED
    BY <2>1, <2>2, <1>4, <1>5

-----------------------------------------------------------------------------
(* What the operations do to the containers.                               *)

(* A step that leaves containers and flags alone.                          *)
LEMMA QuietStep ==
  ASSUME Containers, UNCHANGED <<fdsvars, queue, arrvars, flag, regvars>>
  PROVE  Containers'
  BY DEF Containers, ArrayInv, QueueInv, EpollInv, RegistryInv, LiveInv, fdsvars,
         arrvars, regvars, Slots

(* cp_fds_sock_enqueue() of a socket that is allocated.                    *)
LEMMA EnqueueStep ==
  ASSUME Containers, NEW s \in Socks, s \in live, Enqueue(s),
         UNCHANGED <<fdsvars, arrvars, regvars>>
  PROVE  /\ Containers'
         /\ \A n \in 1 .. Len(queue') : queue'[n] = s \/ (n \in 1 .. Len(queue) /\ queue'[n] = queue[n])
<1> USE DEF Containers, ArrayInv, QueueInv, EpollInv, RegistryInv, LiveInv, fdsvars,
            arrvars, regvars, Slots
<1>0. Len(queue) \in Nat /\ max_event \in Nat
  BY LenProperties, FiniteParts
<1>1. CASE flag[s] \cap {"INQUEUE", "TASKED"} # {}
  BY <1>0, <1>1, ElementOfSeq DEF Enqueue
<1>2. CASE flag[s] \cap {"INQUEUE", "TASKED"} = {}
  <2>1. flag' = [flag EXCEPT ![s] = @ \cup {"INQUEUE"}]
    BY <1>2 DEF Enqueue
  <2>2. /\ flag' \in [Socks -> SUBSET Flags]
        /\ \A t \in Socks : /\ "TASKED" \in flag'[t] <=> "TASKED" \in flag[t]
                            /\ "EPOLLED" \in flag'[t] <=> "EPOLLED" \in flag[t]
                            /\ "REGISTRY" \in flag'[t] <=> "REGISTRY" \in flag[t]
                            /\ "INQUEUE" \in flag[t] => "INQUEUE" \in flag'[t]
        /\ "INQUEUE" \in flag'[s] /\ "TASKED" \notin flag'[s]
    BY <2>1, <1>2 DEF Flags
  <2>3. \A n \in 1 .. Len(queue) : queue[n] \in Socks /\ queue[n] # s
    BY <1>0, <1>2, ElementOfSeq
  <2>4. CASE Len(queue) = max_event
    BY <1>0, <1>2, <2>2, <2>3, <2>4 DEF Enqueue, Socks
  <2>5. CASE Len(queue) # max_event
    <3>1. queue' = Append(queue, s)
      BY <1>2, <2>5 DEF Enqueue
    <3>2. /\ queue' \in Seq(Socks) /\ Len(queue') = Len(queue) + 1
          /\ \A n \in 1 .. Len(queue) : queue'[n] = queue[n]
          /\ queue'[Len(queue) + 1] = s
      BY <3>1, AppendProperties
    <3>3. /\ Len(queue') <= max_event
          /\ \A n \in 1 .. Len(queue') :
               \/ n \in 1 .. Len(queue) /\ queue'[n] = queue[n] /\ queue'[n] # s
               \/ n = Len(queue) + 1 /\ queue'[n] = s
      BY <1>0, <2>3, <2>5, <3>2
    <3>4. QueueInv'
      <4>1. \A n \in 1 .. Len(queue') : "INQUEUE" \in flag'[queue'[n]]
        BY <2>2, <2>3, <3>3
      <4>2. \A m, n \in 1 .. Len(queue') : queue'[m] = queue'[n] => m = n
        BY <3>3
      <4>3. QED
        BY <3>2, <3>3, <4>1, <4>2
    <3>5. LiveInv'
      <4>1. \A n \in 1 .. Len(queue') : queue'[n] \in live /\ "TASKED" \notin flag'[queue'[n]]
        BY <2>2, <2>3, <3>3
      <4>2. QED
        BY <4>1
    <3>6. ArrayInv' /\ EpollInv' /\ RegistryInv'
      BY <2>2 DEF Socks
    <3>7. Containers'
      BY <2>2, <3>4, <3>5, <3>6
    <3>8. ASSUME NEW n \in 1 .. Len(queue')
          PROVE  queue'[n] = s \/ (n \in 1 .. Len(queue) /\ queue'[n] = queue[n])
      <4> HIDE DEF Containers, ArrayInv, QueueInv, EpollInv, RegistryInv, LiveInv
      <4> QED BY <3>3
    <3>9. QED
      <4> HIDE DEF Containers
      <4> QED BY <3>7, <3>8
  <2>6. QED
    BY <2>4, <2>5
<1>3. QED
  BY <1>1, <1>2

(* cp_fds_sock_dequeue().                                                  *)
LEMMA DequeueStep ==
  ASSUME Containers, queue # <<>>, queue' = Tail(queue),
         flag' = [flag EXCEPT ![Head(queue)] = @ \ {"INQUEUE"}],
         UNCHANGED <<fdsvars, arrvars, regvars>>
  PROVE  /\ Containers' /\ Head(queue) \in live
         /\ \A n \in 1 .. Len(queue') : queue'[n] # Head(queue)
<1> USE DEF Containers, ArrayInv, QueueInv, EpollInv, RegistryInv, LiveInv, fdsvars,
            arrvars, regvars, Slots
<1>1. Len(queue) \in Nat \ {0} /\ max_event \in Nat
  BY EmptySeq, FiniteParts
<1>2. /\ queue' \in Seq(Socks) /\ Len(queue') = Len(queue) - 1
      /\ \A n \in 1 .. (Len(queue) - 1) : queue'[n] = queue[n + 1]
      /\ Head(queue) = queue[1] /\ Head(queue) \in Socks
  BY HeadTailProperties
<1>3. \A n \in 1 .. Len(queue') : queue'[n] # Head(queue) /\ queue'[n] \in Socks
  BY <1>1, <1>2, ElementOfSeq
<1>4. /\ flag' \in [Socks -> SUBSET Flags]
      /\ \A t \in Socks : /\ "TASKED" \in flag'[t] <=> "TASKED" \in flag[t]
                          /\ "EPOLLED" \in flag'[t] <=> "EPOLLED" \in flag[t]
                          /\ "REGISTRY" \in flag'[t] <=> "REGISTRY" \in flag[t]
                          /\ t # Head(queue) => flag'[t] = flag[t]
  BY <1>2 DEF Flags
<1>5. QueueInv'
  BY <1>1, <1>2, <1>3, <1>4
<1>6. LiveInv'
  BY <1>1, <1>2, <1>3, <1>4
<1>7. Head(queue) \in live
  BY <1>1, <1>2
<1>8. QED
  BY <1>3, <1>4, <1>5, <1>6, <1>7 DEF Socks

(* cp_fds_add_sock_task() of a socket that is not queued.                  *)
LEMMA AddTaskStep ==
  ASSUME Containers, NEW s \in Socks, s \in live, AddTask(s),
         \A n \in 1 .. Len(queue) : queue[n] # s,
         UNCHANGED <<fdsvars, queue, regvars>>
  PROVE  Containers'
<1> USE DEF Containers, ArrayInv, QueueInv, EpollInv, RegistryInv, LiveInv, fdsvars,
            arrvars, regvars, Slots
<1>1. CASE "TASKED" \in flag[s] \/ items >= max_event
  <2>1. UNCHANGED <<arrvars, flag>>
    BY <1>1 DEF AddTask
  <2>2. QED
    <3> HIDE DEF Containers, fdsvars, arrvars, regvars
    <3> QED BY <2>1, QuietStep
<1>2. CASE ~("TASKED" \in flag[s] \/ items >= max_event)
  <2>1. PICK k \in Slots :
          /\ data[k] = NoSock
          /\ data' = [data EXCEPT ![k] = s] /\ items' = items + 1
          /\ index' = [index EXCEPT ![s] = k]
          /\ flag' = [flag EXCEPT ![s] = @ \cup {"TASKED"}]
    BY <1>2 DEF AddTask, FirstNull
  <2>2. /\ flag' \in [Socks -> SUBSET Flags]
        /\ \A t \in Socks : /\ "INQUEUE" \in flag'[t] <=> "INQUEUE" \in flag[t]
                            /\ "EPOLLED" \in flag'[t] <=> "EPOLLED" \in flag[t]
                            /\ "REGISTRY" \in flag'[t] <=> "REGISTRY" \in flag[t]
                            /\ t # s => flag'[t] = flag[t]
        /\ "TASKED" \in flag'[s]
    BY <2>1 DEF Flags
  <2>3. max_event \in Nat
    BY FiniteParts
  <2>4. items' = Cardinality({j \in Slots : data'[j] # NoSock})
    <3> DEFINE used == {j \in Slots : data[j] # NoSock}
    <3>1. {j \in Slots : data'[j] # NoSock} = used \cup {k}
      BY <2>1, SocksAssumption DEF Socks
    <3>2. IsFiniteSet(used) /\ Cardinality(used) \in Nat /\ k \notin used
      BY <2>1, FiniteParts
    <3>3. Cardinality(used \cup {k}) = Cardinality(used) + 1
      <4> HIDE DEF used
      <4> QED BY <3>2, FS_AddElement
    <3>4. items = Cardinality(used)
      OBVIOUS
    <3>5. items' = items + 1 /\ Slots' = Slots
      BY <2>1
    <3>6. QED
      BY ONLY <3>1, <3>3, <3>4, <3>5 DEF used
  <2>5. items' <= max_event
    <3>1. items \in Nat
      BY FiniteParts
    <3>2. QED
      BY <1>2, <2>1, <2>3, <3>1
  <2>6. ArrayInv'
    <3>1. /\ data' \in [Slots -> Socks \cup {NoSock}] /\ index' \in [Socks -> Slots \cup {-1}]
          /\ \A t \in Socks : t # s => index'[t] = index[t]
          /\ index'[s] = k /\ data'[k] = s
          /\ \A j \in Slots : j # k => data'[j] = data[j]
      BY <2>1
    <3>2. \A j \in Slots : data[j] # s
      BY <1>2, SocksAssumption DEF Socks
    <3>3. \A t \in Socks : "TASKED" \in flag'[t] => index'[t] \in Slots /\ data'[index'[t]] = t
      BY <2>1, <2>2, <3>1, SocksAssumption DEF Socks
    <3>4. \A j \in Slots : data'[j] # NoSock => "TASKED" \in flag'[data'[j]] /\ index'[data'[j]] = j
      BY <2>2, <3>1, <3>2
    <3>5. QED
      BY <2>4, <2>5, <3>1, <3>3, <3>4
  <2>7. \A n \in 1 .. Len(queue) : queue[n] \in Socks
    BY ElementOfSeq
  <2>8. QueueInv'
    BY <2>2, <2>7
  <2>9. LiveInv'
    BY <2>1, <2>2, <2>7
  <2>10. EpollInv' /\ RegistryInv'
    BY <2>2 DEF Socks
  <2>11. QED
    BY <2>2, <2>6, <2>8, <2>9, <2>10
<1>3. QED
  BY <1>1, <1>2

(* An accepted socket that is registered and given to epoll.               *)
LEMMA AcceptStep ==
  ASSUME Containers, NEW c \in Clients, AcceptNew(c)
  PROVE  Containers'
<1> USE DEF Containers, ArrayInv, QueueInv, EpollInv, RegistryInv, LiveInv, AcceptNew,
            arrvars, Slots
<1>1. c \in Socks /\ c \notin epoll /\ c \notin accept_list
  BY DEF Socks
<1>2. \A n \in 1 .. Len(queue) : queue[n] # c /\ queue[n] \in Socks
  BY ElementOfSeq
<1>3. \A k \in Slots : data[k] # c
  BY SocksAssumption
<1>4. /\ flag' \in [Socks -> SUBSET Flags]
      /\ flag'[c] = {"REGISTRY", "EPOLLED"}
      /\ \A t \in Socks : t # c => flag'[t] = flag[t]
  BY <1>1 DEF Flags
<1>5. "TASKED" \notin flag[c]
  BY <1>1, <1>3
<1>6. ArrayInv'
  BY <1>3, <1>4, <1>5
<1>7. QueueInv'
  BY <1>2, <1>4
<1>8. EpollInv'
  <2>1. event_cnt' = Cardinality(epoll')
    BY <1>1, FiniteParts, FS_AddElement
  <2>2. event_cnt' <= max_event' + 1
    BY FiniteParts
  <2>3. QED
    BY <1>1, <1>4, <2>1, <2>2
<1>9. RegistryInv'
  <2>1. IsFiniteSet(accept_list) /\ Cardinality(accept_list) \in Nat
    BY FiniteParts DEF Socks
  <2>2. Cardinality(accept_list \cup {c}) = Cardinality(accept_list) + 1
    <3> HIDE DEF Containers, RegistryInv
    <3> QED BY <1>1, <2>1, FS_AddElement
  <2>3. accept_cnt' = Cardinality(accept_list') /\ accept_cnt' <= MaxClient
    BY <2>1, <2>2, LimitsAssumption
  <2>4. QED
    BY <1>4, <2>3 DEF Socks
<1>10. LiveInv'
  BY <1>1, <1>2, <1>4
<1>11. QED
  BY <1>4, <1>6, <1>7, <1>8, <1>9, <1>10

(* cp_fds_del_sock_task(): the socket's slot is freed, if it has one.      *)
LEMMA DelTaskStep ==
  ASSUME Containers, NEW s \in Socks, DelTask(s), max_event' = max_event,
         flag' \in [Socks -> SUBSET Flags], "TASKED" \notin flag'[s],
         \A t \in Socks \ {s} : flag'[t] = flag[t]
  PROVE  /\ ArrayInv'
         /\ \A k \in Slots : data'[k] = IF data[k] = s THEN NoSock ELSE data[k]
<1> USE DEF Containers, ArrayInv, Slots
<1> DEFINE used == {j \in Slots : data[j] # NoSock}
<1>1. s # NoSock /\ max_event \in Nat /\ -1 \notin Slots
  BY SocksAssumption, FiniteParts DEF Socks
<1>2. /\ data' \in [Slots -> Socks \cup {NoSock}]
      /\ \A k \in Slots : data'[k] = IF data[k] = s THEN NoSock ELSE data[k]
  BY <1>1 DEF DelTask
<1>3. /\ index' \in [Socks -> Slots \cup {-1}]
      /\ \A t \in Socks \ {s} : index'[t] = index[t]
  BY DEF DelTask
<1>4. items' = Cardinality({j \in Slots : data'[j] # NoSock}) /\ items' <= max_event
  <2>1. IsFiniteSet(used) /\ Cardinality(used) \in Nat /\ items = Cardinality(used)
    BY FiniteParts
  <2>2. CASE "TASKED" \in flag[s]
    <3>1. items' = items - 1 /\ index[s] \in used
      BY <1>1, <2>2 DEF DelTask
    <3>2. {j \in Slots : data'[j] # NoSock} = used \ {index[s]}
      BY <1>1, <1>2, <2>2
    <3>3. Cardinality(used \ {index[s]}) = Cardinality(used) - 1
      <4> HIDE DEF used, Containers, ArrayInv
      <4> QED BY <3>1, <2>1, FS_RemoveElement
    <3>4. items' = Cardinality({j \in Slots : data'[j] # NoSock})
      BY ONLY <2>1, <3>1, <3>2, <3>3
    <3>5. items' <= max_event
      BY <1>1, <2>1, <3>1
    <3>6. QED
      BY <3>4, <3>5
  <2>3. CASE "TASKED" \notin flag[s]
    <3>1. items' = items
      BY <2>3 DEF DelTask
    <3>2. {j \in Slots : data'[j] # NoSock} = used
      BY <1>2, <2>3
    <3>3. QED
      BY <2>1, <3>1, <3>2
  <2>4. QED
    BY <2>2, <2>3
<1>5. \A t \in Socks : "TASKED" \in flag'[t] => index'[t] \in Slots /\ data'[index'[t]] = t
  BY <1>2, <1>3
<1>6. \A k \in Slots : data'[k] # NoSock => "TASKED" \in flag'[data'[k]] /\ index'[data'[k]] = k
  <2> SUFFICES ASSUME NEW k \in Slots, data'[k] # NoSock
               PROVE  "TASKED" \in flag'[data'[k]] /\ index'[data'[k]] = k
    OBVIOUS
  <2>1. data'[k] = data[k] /\ data[k] \in Socks \ {s}
    BY <1>1, <1>2
  <2>2. QED
    BY <1>3, <2>1
<1>7. QED
  BY <1>2, <1>3, <1>4, <1>5, <1>6

(* A service function that is done, CbLeave: the flag goes with the slot.  *)
LEMMA LeaveStep ==
  ASSUME Containers, NEW s \in Socks, DelTask(s),
         flag' = [flag EXCEPT ![s] = @ \ {"TASKED"}],
         UNCHANGED <<fdsvars, queue, regvars>>
  PROVE  Containers'
<1> USE DEF fdsvars, regvars
<1>1. /\ flag' \in [Socks -> SUBSET Flags]
      /\ \A t \in Socks : /\ "TASKED" \in flag'[t] => "TASKED" \in flag[t]
                          /\ "INQUEUE" \in flag'[t] <=> "INQUEUE" \in flag[t]
                          /\ "EPOLLED" \in flag'[t] <=> "EPOLLED" \in flag[t]
                          /\ "REGISTRY" \in flag'[t] <=> "REGISTRY" \in flag[t]
      /\ "TASKED" \notin flag'[s]
      /\ \A t \in Socks \ {s} : flag'[t] = flag[t]
  BY DEF Containers, Flags
<1>2. /\ ArrayInv'
      /\ \A k \in Slots : data'[k] = IF data[k] = s THEN NoSock ELSE data[k]
  BY <1>1, DelTaskStep
<1>3. \A n \in 1 .. Len(queue) : queue[n] \in Socks
  BY ElementOfSeq DEF Containers, QueueInv
<1>4. QueueInv'
  BY <1>1, <1>3 DEF Containers, QueueInv
<1>5. EpollInv' /\ RegistryInv'
  BY <1>1 DEF Containers, EpollInv, RegistryInv, Socks
<1>6. LiveInv'
  BY <1>1, <1>2, <1>3 DEF Containers, LiveInv, Slots
<1>7. QED
  BY <1>1, <1>2, <1>4, <1>5, <1>6 DEF Containers

(* cp_fds_destroy_sock() takes a client out of every container ...         *)
LEMMA DestroyStep ==
  ASSUME Containers, NEW s \in Clients, Destroy(s), ~RunsOff(s)
  PROVE  /\ Containers' /\ live' = live \ {s}
         /\ \A n \in 1 .. Len(queue') : queue'[n] # s
         /\ \A n \in 1 .. Len(queue') : \E m \in 1 .. Len(queue) : queue'[n] = queue[m]
<1>1. /\ s \in Socks /\ s # Server
      /\ DelTask(s) /\ max_event' = max_event /\ live' = live \ {s}
      /\ epoll' = epoll \ {s} /\ accept_list' = accept_list \ {s}
      /\ flag' = [flag EXCEPT ![s] = {}]
      /\ event_cnt' = IF "EPOLLED" \in flag[s] THEN event_cnt - 1 ELSE event_cnt
      /\ accept_cnt' = IF "REGISTRY" \in flag[s] THEN accept_cnt - 1 ELSE accept_cnt
      /\ IF "INQUEUE" \in flag[s] /\ InQueue(s) THEN Unqueue(s) ELSE UNCHANGED queue
  BY SocksAssumption DEF Destroy, Socks
<1>2. /\ flag' \in [Socks -> SUBSET Flags] /\ flag'[s] = {}
      /\ \A t \in Socks \ {s} : flag'[t] = flag[t]
  BY <1>1 DEF Containers
<1>3. /\ ArrayInv'
      /\ \A k \in Slots : data'[k] = IF data[k] = s THEN NoSock ELSE data[k]
  BY <1>1, <1>2, DelTaskStep
<1>4. Len(queue) \in Nat /\ max_event \in Nat /\ \A n \in 1 .. Len(queue) : queue[n] \in Socks
  BY LenProperties, FiniteParts, ElementOfSeq DEF Containers, QueueInv
<1>5. /\ queue' \in Seq(Socks) /\ Len(queue') <= max_event
      /\ \A n \in 1 .. Len(queue') : queue'[n] # s
      /\ \A n \in 1 .. Len(queue') : \E m \in 1 .. Len(queue) : queue'[n] = queue[m]
      /\ \A m, n \in 1 .. Len(queue') : queue'[m] = queue'[n] => m = n
  <2>1. DOMAIN queue = 1 .. Len(queue)
    BY LenProperties DEF Containers, QueueInv
  <2>2. CASE "INQUEUE" \in flag[s] /\ InQueue(s)
    <3>1. PICK n \in 1 .. Len(queue) : queue[n] = s /\ queue' = RemoveAt(queue, n)
      BY <1>1, <2>1, <2>2 DEF Unqueue
    <3>2. /\ queue' \in Seq(Socks) /\ Len(queue') = Len(queue) - 1
          /\ \A m \in 1 .. (Len(queue) - 1) : queue'[m] = IF m < n THEN queue[m] ELSE queue[m + 1]
      BY <3>1, RemoveAtProperties DEF Containers, QueueInv
    <3>3. /\ Len(queue) <= max_event
          /\ \A j, k \in 1 .. Len(queue) : queue[j] = queue[k] => j = k
      BY DEF Containers, QueueInv
    <3>4. \A m \in 1 .. Len(queue') :
            \E j \in 1 .. Len(queue) : /\ queue'[m] = queue[j] /\ j # n
                                       /\ j = IF m < n THEN m ELSE m + 1
      BY <1>4, <3>2
    <3>5. Len(queue') <= max_event
      BY <1>4, <3>2, <3>3
    <3>6. \A m \in 1 .. Len(queue') : queue'[m] # s
      BY <3>1, <3>3, <3>4
    <3>7. \A j, k \in 1 .. Len(queue') : queue'[j] = queue'[k] => j = k
      <4> SUFFICES ASSUME NEW j \in 1 .. Len(queue'), NEW k \in 1 .. Len(queue'),
                          queue'[j] = queue'[k]
                   PROVE  j = k
        OBVIOUS
      <4>1. PICK a \in 1 .. Len(queue) : /\ queue'[j] = queue[a] /\ a # n
                                        /\ a = IF j < n THEN j ELSE j + 1
        BY <3>4
      <4>2. PICK b \in 1 .. Len(queue) : /\ queue'[k] = queue[b] /\ b # n
                                        /\ b = IF k < n THEN k ELSE k + 1
        BY <3>4
      <4>3. a = b
        BY <3>3, <4>1, <4>2
      <4>4. QED
        BY <1>4, <3>2, <4>1, <4>2, <4>3
    <3>8. QED
      BY <3>2, <3>4, <3>5, <3>6, <3>7
  <2>3. CASE ~("INQUEUE" \in flag[s] /\ InQueue(s))
    <3>1. queue' = queue
      BY <1>1, <2>3
    <3>2. \A n \in 1 .. Len(queue) : queue[n] # s
      BY <2>1, <2>3 DEF Containers, QueueInv, InQueue
    <3>3. QED
      BY <3>1, <3>2 DEF Containers, QueueInv
  <2>4. QED
    BY <2>2, <2>3
<1>6. QueueInv'
  <2>1. \A n \in 1 .. Len(queue') : "INQUEUE" \in flag'[queue'[n]]
    BY <1>2, <1>4, <1>5 DEF Containers, QueueInv
  <2>2. QED
    BY <1>1, <1>5, <2>1 DEF QueueInv
<1>7. EpollInv'
  <2>1. epoll \subseteq Socks /\ event_cnt = Cardinality(epoll) /\ event_cnt <= max_event + 1
        /\ \A t \in Socks : "EPOLLED" \in flag[t] <=> t \in epoll
    BY DEF Containers, EpollInv
  <2>2. IsFiniteSet(epoll) /\ Cardinality(epoll) \in Nat
    BY <2>1, FiniteParts DEF Containers
  <2>3. s \in epoll => Cardinality(epoll \ {s}) = Cardinality(epoll) - 1
    BY <2>2, FS_RemoveElement
  <2>4. s \notin epoll => epoll \ {s} = epoll
    OBVIOUS
  <2>5. event_cnt' = Cardinality(epoll') /\ event_cnt' <= max_event' + 1
    <3>1. CASE s \in epoll
      BY <1>1, <1>4, <2>1, <2>2, <2>3, <3>1
    <3>2. CASE s \notin epoll
      BY <1>1, <1>4, <2>1, <2>2, <2>4, <3>2
    <3>3. QED
      BY <3>1, <3>2
  <2>6. \A t \in Socks : "EPOLLED" \in flag'[t] <=> t \in epoll'
    BY <1>1, <1>2, <2>1
  <2>7. QED
    BY <1>1, <2>1, <2>5, <2>6 DEF EpollInv
<1>8. RegistryInv'
  <2>1. accept_list \subseteq Clients /\ accept_cnt = Cardinality(accept_list)
        /\ accept_cnt <= MaxClient /\ \A c \in Clients : "REGISTRY" \in flag[c] <=> c \in accept_list
    BY DEF Containers, RegistryInv
  <2>2. IsFiniteSet(accept_list) /\ Cardinality(accept_list) \in Nat /\ MaxClient \in Nat
    BY <2>1, FiniteParts, LimitsAssumption DEF Containers, Socks
  <2>3. s \in accept_list => Cardinality(accept_list \ {s}) = Cardinality(accept_list) - 1
    BY <2>2, FS_RemoveElement
  <2>4. s \notin accept_list => accept_list \ {s} = accept_list
    OBVIOUS
  <2>5. accept_cnt' = Cardinality(accept_list') /\ accept_cnt' <= MaxClient
    BY <1>1, <2>1, <2>2, <2>3, <2>4
  <2>6. \A c \in Clients : "REGISTRY" \in flag'[c] <=> c \in accept_list'
    BY <1>1, <1>2, <2>1 DEF Socks
  <2>7. QED
    BY <1>1, <2>1, <2>5, <2>6 DEF RegistryInv
<1>9. LiveInv'
  <2>1. \A n \in 1 .. Len(queue') : queue'[n] \in live' /\ "TASKED" \notin flag'[queue'[n]]
    BY <1>1, <1>2, <1>4, <1>5 DEF Containers, LiveInv
  <2>2. \A k \in Slots : data'[k] \in live' \cup {NoSock}
    BY <1>1, <1>3 DEF Containers, LiveInv
  <2>3. live' \subseteq Socks /\ epoll' \cup accept_list' \subseteq live'
    BY <1>1 DEF Containers, LiveInv
  <2>4. Slots' = Slots
    BY <1>1 DEF Slots
  <2>5. QED
    BY <2>1, <2>2, <2>3, <2>4 DEF LiveInv
<1>10. max_event' \in Limits
  BY <1>1 DEF Containers
<1>11. QED
  BY <1>1, <1>2, <1>3, <1>5, <1>6, <1>7, <1>8, <1>9, <1>10 DEF Containers

(* ... or runs off the end of the queue and changes nothing.               *)
LEMMA RunsOffStep ==
  ASSUME Containers, NEW s \in Clients, Destroy(s), RunsOff(s)
  PROVE  /\ Containers' /\ pc' = "crashed"
         /\ UNCHANGED <<fdsvars, queue, arrvars, flag, event, regvars, todo, i, kernel>>
<1>1. pc' = "crashed" /\ UNCHANGED <<fdsvars, queue, arrvars, flag, event, regvars, todo, i, kernel>>
  BY DEF Destroy
<1>2. UNCHANGED <<fdsvars, queue, arrvars, flag, regvars>>
  BY <1>1
<1>3. QED
  BY <1>1, <1>2, QuietStep

-----------------------------------------------------------------------------
(* The invariant is inductive.                                             *)

LEMMA InitIInv == Init => IInv
<1> SUFFICES ASSUME Init PROVE IInv
  OBVIOUS
<1> USE DEF Init
<1>1. max_event \in Nat /\ max_event > 0 /\ Server \in Socks /\ Server # NoSock
  BY LimitsAssumption, SocksAssumption DEF Socks
<1>2. flag \in [Socks -> SUBSET Flags] /\ \A c \in Clients : flag[c] = {}
  BY SocksAssumption DEF Flags, Socks
<1>3. ArrayInv
  <2>1. {k \in Slots : data[k] # NoSock} = {}
    OBVIOUS
  <2>2. items = Cardinality({k \in Slots : data[k] # NoSock})
    BY <2>1, FS_EmptySet
  <2>3. QED
    BY <1>1, <2>2 DEF ArrayInv
<1>4. QueueInv
  BY <1>1, EmptySeq DEF QueueInv
<1>5. EpollInv
  <2>1. event_cnt = Cardinality(epoll)
    BY FS_Singleton
  <2>2. QED
    BY <1>1, <2>1, SocksAssumption DEF EpollInv, Socks
<1>6. RegistryInv
  <2>1. accept_cnt = Cardinality(accept_list)
    BY FS_EmptySet
  <2>2. QED
    BY <1>2, <2>1, LimitsAssumption DEF RegistryInv
<1>7. LiveInv
  BY <1>1, EmptySeq DEF LiveInv
<1>8. Thread /\ Kernel
  BY <1>1, EmptySeq, LimitsAssumption DEF Thread, Kernel
<1>9. QED
  BY <1>2, <1>3, <1>4, <1>5, <1>6, <1>7, <1>8 DEF IInv, Containers

(* What the steps below need to know about a state.                        *)
LEMMA StateFacts ==
  ASSUME IInv
  PROVE  /\ max_event \in Nat /\ max_event > 0
         /\ live \subseteq Socks /\ todo \subseteq live /\ epoll \subseteq live
         /\ accept_list \subseteq live /\ accept_list \subseteq Clients
         /\ Server \in Socks /\ Clients \subseteq Socks
         /\ NoSock \notin Socks /\ Server \notin Clients
         /\ queue \in Seq(Socks) /\ Len(queue) \in Nat /\ DOMAIN queue = 1 .. Len(queue)
         /\ \A n \in 1 .. Len(queue) : queue[n] \in live
         /\ queue = <<>> <=> Len(queue) = 0
<1>1. queue \in Seq(Socks) /\ Len(queue) \in Nat /\ DOMAIN queue = 1 .. Len(queue)
      /\ (queue = <<>> <=> Len(queue) = 0)
  BY LenProperties, EmptySeq DEF IInv, Containers, QueueInv
<1>2. QED
  BY <1>1, FiniteParts, SocksAssumption
  DEF IInv, Containers, LiveInv, RegistryInv, Thread, Socks

(* The loop of cp_fds_detect_event() and of cp_fds_proc_event().           *)
LEMMA LoopSteps ==
  ASSUME IInv,
         \/ Detect \/ Detected \/ \E s \in Socks : DetectOne(s)
         \/ TaskCall \/ TasksDone \/ QueueCall \/ QueueDone
         \/ TimeoutsDone \/ \E s \in Clients : TimeoutOne(s)
  PROVE  IInv'
<1> USE StateFacts
<1>1. CASE Detect
  <2>1. Containers' BY <1>1, QuietStep DEF Detect, IInv
  <2>2. PICK evts \in SUBSET Ready : todo' = evts BY <1>1 DEF Detect
  <2>5. todo' \subseteq live BY <2>2 DEF Ready
  <2>6. Thread' BY <1>1, <2>5 DEF Detect, IInv, Thread, LoopAt, fdsvars, regvars, call
  <2>3. Kernel' BY <1>1 DEF Detect, IInv, Kernel, kernel
  <2>4. QED BY <2>1, <2>3, <2>6 DEF IInv
<1>2. CASE Detected
  <2>1. Containers' BY <1>2, QuietStep DEF Detected, IInv
  <2>2. Thread' BY <1>2 DEF Detected, IInv, Thread, LoopAt, fdsvars, regvars, call
  <2>3. Kernel' BY <1>2 DEF Detected, IInv, Kernel, kernel
  <2>4. QED BY <2>1, <2>2, <2>3 DEF IInv
<1>3. ASSUME NEW s \in Socks, DetectOne(s) PROVE IInv'
  <2>1. s \in live BY <1>3 DEF DetectOne
  <2>2. Containers' BY <1>3, <2>1, EnqueueStep DEF DetectOne, IInv
  <2>3. Thread' BY <1>3 DEF DetectOne, IInv, Thread, LoopAt, fdsvars, regvars, call
  <2>4. Kernel' BY <1>3 DEF DetectOne, IInv, Kernel, kernel
  <2>5. QED BY <2>2, <2>3, <2>4 DEF IInv
<1>4. CASE TaskCall
  <2>1. PICK k \in Slots : data[k] # NoSock /\ cur' = data[k] /\ i' = k + 1
    BY <1>4 DEF TaskCall, NextTask
  <2>2. cur' \in live /\ "TASKED" \in flag[cur']
    BY <2>1 DEF IInv, Containers, ArrayInv, LiveInv
  <2>3. \A n \in 1 .. Len(queue) : queue[n] # cur'
    BY <2>2 DEF IInv, Containers, LiveInv
  <2>4. i' \in 0 .. max_event BY <2>1 DEF Slots
  <2>5. Containers' BY <1>4, QuietStep DEF TaskCall, IInv
  <2>6. Thread' BY <1>4, <2>2, <2>3, <2>4 DEF TaskCall, IInv, Thread, LoopAt, fdsvars, regvars
  <2>7. Kernel' BY <1>4 DEF TaskCall, IInv, Kernel, kernel
  <2>8. QED BY <2>5, <2>6, <2>7 DEF IInv
<1>5. CASE TasksDone
  <2>1. Containers' BY <1>5, QuietStep DEF TasksDone, IInv
  <2>2. Thread' BY <1>5 DEF TasksDone, IInv, Thread, LoopAt, fdsvars, regvars, call
  <2>3. Kernel' BY <1>5 DEF TasksDone, IInv, Kernel, kernel
  <2>4. QED BY <2>1, <2>2, <2>3 DEF IInv
<1>6. CASE QueueCall
  <2>1. /\ Containers' /\ Head(queue) \in live
        /\ \A n \in 1 .. Len(queue') : queue'[n] # Head(queue)
    BY <1>6, DequeueStep DEF QueueCall, IInv
  <2>2. Thread' BY <1>6, <2>1 DEF QueueCall, IInv, Thread, LoopAt, fdsvars, regvars, loop
  <2>3. Kernel' BY <1>6 DEF QueueCall, IInv, Kernel, kernel
  <2>4. QED BY <2>1, <2>2, <2>3 DEF IInv
<1>7. CASE QueueDone
  <2>1. Containers' BY <1>7, QuietStep DEF QueueDone, IInv
  <2>2. Thread' BY <1>7 DEF QueueDone, IInv, Thread, LoopAt, fdsvars, regvars, call
  <2>3. Kernel' BY <1>7 DEF QueueDone, IInv, Kernel, kernel
  <2>4. QED BY <2>1, <2>2, <2>3 DEF IInv
<1>8. CASE TimeoutsDone
  <2>1. Containers' BY <1>8, QuietStep DEF TimeoutsDone, IInv
  <2>2. Thread' BY <1>8 DEF TimeoutsDone, IInv, Thread, LoopAt, fdsvars, regvars, call
  <2>3. Kernel' BY <1>8 DEF TimeoutsDone, IInv, Kernel, kernel
  <2>4. QED BY <2>1, <2>2, <2>3 DEF IInv
<1>9. ASSUME NEW s \in Clients, TimeoutOne(s) PROVE IInv'
  <2>1. s \in live /\ Len(queue) = 0
    BY <1>9 DEF TimeoutOne, LoopAt, IInv, Thread
  <2>2. Containers'
    <3>1. CASE UNCHANGED <<event, arrvars, flag>>
      BY <1>9, <3>1, QuietStep DEF TimeoutOne, IInv
    <3>2. CASE AddTask(s)
      <4>1. \A n \in 1 .. Len(queue) : queue[n] # s BY <2>1
      <4>2. UNCHANGED <<fdsvars, queue, regvars>> BY <1>9 DEF TimeoutOne
      <4>3. QED BY <2>1, <3>2, <4>1, <4>2, AddTaskStep DEF IInv
    <3>3. QED BY <1>9, <3>1, <3>2 DEF TimeoutOne
  <2>3. Thread' BY <1>9 DEF TimeoutOne, IInv, Thread, LoopAt, fdsvars, regvars, call
  <2>4. Kernel' BY <1>9 DEF TimeoutOne, IInv, Kernel, kernel
  <2>5. QED BY <2>2, <2>3, <2>4 DEF IInv
<1>10. QED
  BY <1>1, <1>2, <1>3, <1>4, <1>5, <1>6, <1>7, <1>8, <1>9

(* A callback that ends a connection, its own or another's.                *)
LEMMA EndSteps ==
  ASSUME IInv, NEW c \in Clients, Destroy(c),
         cur \in Clients, \/ c # cur /\ UNCHANGED call
                          \/ Return
  PROVE  IInv'
<1> USE StateFacts
<1>1. cur # NoSock /\ todo = {} /\ pc \in {"tasks", "queue", "crashed"}
      /\ \A n \in 1 .. Len(queue) : queue[n] # cur
  BY DEF IInv, Thread
<1>2. CASE RunsOff(c)
  <2>1. /\ Containers' /\ pc' = "crashed"
        /\ UNCHANGED <<fdsvars, queue, arrvars, flag, event, regvars, todo, i, kernel>>
    BY <1>2, RunsOffStep DEF IInv
  <2>2. Thread' BY <1>1, <2>1 DEF IInv, Thread, fdsvars, regvars, call, Return
  <2>3. Kernel' BY <2>1 DEF IInv, Kernel, kernel
  <2>4. QED BY <2>1, <2>2, <2>3 DEF IInv
<1>3. CASE ~RunsOff(c)
  <2>1. /\ Containers' /\ live' = live \ {c}
        /\ \A n \in 1 .. Len(queue') : \E m \in 1 .. Len(queue) : queue'[n] = queue[m]
    BY <1>3, DestroyStep DEF IInv
  <2>2. /\ event' = [event EXCEPT ![c] = "none"]
        /\ pending' = [pending EXCEPT ![c] = FALSE] /\ closed' = [closed EXCEPT ![c] = FALSE]
        /\ full' = full \ {c}
        /\ UNCHANGED <<max_event, pc, todo, i, conns>>
    BY <1>3 DEF Destroy
  <2>3. \A n \in 1 .. Len(queue') : queue'[n] # cur
    BY <1>1, <2>1
  <2>4. cur' \in live' \cup {NoSock} /\ (cur' = cur \/ cur' = NoSock) /\ cb' \in {"none", "called", "received"}
    BY <2>1 DEF call, Return, IInv, Thread
  <2>5. Thread' BY <1>1, <2>2, <2>3, <2>4 DEF IInv, Thread
  <2>6. Kernel' BY <2>2 DEF IInv, Kernel
  <2>7. QED BY <2>1, <2>5, <2>6 DEF IInv
<1>4. QED
  BY <1>2, <1>3

(* The callbacks: of the server, and of the clients.                       *)
LEMMA CallbackSteps ==
  ASSUME IInv,
         \/ AcceptFails \/ AcceptNoRoom \/ \E c \in Clients : AcceptNew(c)
         \/ CbRecv \/ CbGone \/ CbEnd \/ CbWait \/ CbStay \/ CbLeave
         \/ \E c \in Clients : CbEndOther(c)
  PROVE  IInv'
<1> USE StateFacts
<1>1. CASE AcceptFails
  <2>1. Containers' BY <1>1, QuietStep DEF AcceptFails, IInv
  <2>2. Thread' BY <1>1 DEF AcceptFails, IInv, Thread, Return, fdsvars, regvars, loop
  <2>3. Kernel' BY <1>1 DEF AcceptFails, IInv, Kernel, kernel
  <2>4. QED BY <2>1, <2>2, <2>3 DEF IInv
<1>2. CASE AcceptNoRoom
  <2>1. Containers' BY <1>2, QuietStep DEF AcceptNoRoom, IInv
  <2>2. Thread' BY <1>2 DEF AcceptNoRoom, IInv, Thread, Return, fdsvars, regvars, loop
  <2>3. Kernel' BY <1>2, LimitsAssumption DEF AcceptNoRoom, IInv, Kernel
  <2>4. QED BY <2>1, <2>2, <2>3 DEF IInv
<1>3. ASSUME NEW c \in Clients, AcceptNew(c) PROVE IInv'
  <2>1. Containers' BY <1>3, AcceptStep DEF IInv
  <2>2. Thread' BY <1>3 DEF AcceptNew, IInv, Thread, Return, loop
  <2>3. Kernel' BY <1>3, LimitsAssumption DEF AcceptNew, IInv, Kernel
  <2>4. QED BY <2>1, <2>2, <2>3 DEF IInv
<1>4. CASE CbRecv
  <2>1. Containers' BY <1>4, QuietStep DEF CbRecv, IInv
  <2>2. Thread' BY <1>4 DEF CbRecv, IInv, Thread, fdsvars, regvars, loop
  <2>3. Kernel' BY <1>4 DEF CbRecv, IInv, Kernel
  <2>4. QED BY <2>1, <2>2, <2>3 DEF IInv
<1>5. CASE CbGone
  BY <1>5, EndSteps DEF CbGone, ReceivesNone
<1>6. CASE CbEnd
  BY <1>6, EndSteps DEF CbEnd, Serving
<1>7. CASE CbWait
  <2>1. cur \in Clients /\ cur \in live /\ \A n \in 1 .. Len(queue) : queue[n] # cur
    BY <1>7 DEF CbWait, Serving, IInv, Thread
  <2>2. AddTask(cur) /\ UNCHANGED <<fdsvars, queue, regvars>>
    BY <1>7 DEF CbWait
  <2>3. Containers' BY <2>1, <2>2, AddTaskStep DEF IInv
  <2>4. Thread' BY <1>7 DEF CbWait, IInv, Thread, Return, fdsvars, regvars, loop
  <2>5. Kernel' BY <1>7 DEF CbWait, IInv, Kernel, kernel
  <2>6. QED BY <2>3, <2>4, <2>5 DEF IInv
<1>8. CASE CbLeave
  <2>1. cur \in Clients BY <1>8 DEF CbLeave, Serving
  <2>2. Containers' BY <1>8, <2>1, LeaveStep DEF CbLeave, IInv
  <2>3. event' \in [Socks -> {"none", "in", "timeout"}]
    BY <1>8 DEF CbLeave, IInv, Thread
  <2>4. Thread' BY <1>8, <2>3 DEF CbLeave, IInv, Thread, Return, fdsvars, regvars, loop
  <2>5. Kernel' BY <1>8 DEF CbLeave, MoveOn, IInv, Kernel
  <2>6. QED BY <2>2, <2>4, <2>5 DEF IInv
<1>9. ASSUME NEW c \in Clients, CbEndOther(c) PROVE IInv'
  BY <1>9, EndSteps DEF CbEndOther, Serving
<1>10. CASE CbStay
  <2>1. Containers' BY <1>10, QuietStep DEF CbStay, IInv
  <2>2. Thread' BY <1>10 DEF CbStay, IInv, Thread, Return, fdsvars, regvars, loop
  <2>3. Kernel' BY <1>10 DEF CbStay, MoveOn, IInv, Kernel
  <2>4. QED BY <2>1, <2>2, <2>3 DEF IInv
<1>11. QED
  BY <1>1, <1>2, <1>3, <1>4, <1>5, <1>6, <1>7, <1>8, <1>9, <1>10

LEMMA KernelSteps ==
  ASSUME IInv, KernelNext
  PROVE  IInv'
<1> USE StateFacts
<1>1. Containers'
  <2>1. UNCHANGED <<fdsvars, queue, arrvars, flag, regvars>>
    BY DEF KernelNext, PeerConnects, PeerSends, PeerCloses
  <2>2. QED BY <2>1, QuietStep DEF IInv
<1>2. Thread'
  BY DEF KernelNext, PeerConnects, PeerSends, PeerCloses, IInv, Thread,
         fdsvars, regvars, loop, call
<1>3. Kernel'
  <2>1. CASE PeerConnects
    BY <2>1, LimitsAssumption DEF PeerConnects, IInv, Kernel
  <2>2. ASSUME NEW c \in Clients, PeerSends(c) PROVE Kernel'
    BY <2>2 DEF PeerSends, IInv, Kernel
  <2>3. ASSUME NEW c \in Clients, PeerCloses(c) PROVE Kernel'
    BY <2>3 DEF PeerCloses, IInv, Kernel
  <2>4. QED
    BY <2>1, <2>2, <2>3 DEF KernelNext
<1>4. QED
  BY <1>1, <1>2, <1>3 DEF IInv

LEMMA StutterStep ==
  ASSUME IInv, UNCHANGED vars
  PROVE  IInv'
<1>1. Containers' BY QuietStep DEF IInv, vars
<1>2. Thread' BY DEF IInv, Thread, vars, fdsvars, regvars, loop, call
<1>3. Kernel' BY DEF IInv, Kernel, vars, kernel
<1>4. QED BY <1>1, <1>2, <1>3 DEF IInv

(* Over every order of events, calls, refused and failed accepts, ended    *)
(* connections and timeouts the containers agree.                          *)
THEOREM Invariance == Spec => []IInv
<1>1. IInv /\ [Next]_vars => IInv'
  <2> SUFFICES ASSUME IInv, [Next]_vars PROVE IInv'
    OBVIOUS
  <2>1. CASE LoopNext
    BY <2>1, LoopSteps, CallbackSteps DEF LoopNext
  <2>2. CASE KernelNext
    BY <2>2, KernelSteps
  <2>3. CASE UNCHANGED vars
    BY <2>3, StutterStep
  <2>4. QED
    BY <2>1, <2>2, <2>3 DEF Next
<1>2. QED
  BY InitIInv, <1>1, PTL DEF Spec

(* Every variable has its type, in every state.                            *)
THEOREM TypeCorrect == Spec => []TypeOK
<1>1. IInv => TypeOK
  <2> SUFFICES ASSUME IInv PROVE TypeOK
    OBVIOUS
  <2>1. items \in Nat /\ event_cnt \in Nat /\ accept_cnt \in Nat /\ MaxClient \in Nat
    BY FiniteParts, LimitsAssumption
    DEF IInv, Containers, ArrayInv, EpollInv, RegistryInv, Socks
  <2>2. QED
    BY <2>1, StateFacts
    DEF TypeOK, IInv, Containers, ArrayInv, QueueInv, EpollInv, RegistryInv, Thread, Kernel
<1>2. QED
  BY Invariance, <1>1, PTL

(* cp_fds_destroy_sock() leaves no container with a socket that is freed,  *)
(* from whichever callback it is called, for any number of sockets.        *)
THEOREM NoneDangles == Spec => []NoDangling
<1>1. IInv => NoDangling
  <2> SUFFICES ASSUME IInv PROVE NoDangling
    OBVIOUS
  <2>1. (\A k \in Slots : data[k] \in live \cup {NoSock}) /\ cur \in live \cup {NoSock}
    BY DEF IInv, Containers, LiveInv, Thread
  <2>2. QED
    BY <2>1, StateFacts DEF NoDangling
<1>2. QED
  BY Invariance, <1>1, PTL

(* The counters cp_add_epoll_event(), cp_array_add() and                   *)
(* cp_sock_accept_regist() decide by are the sizes of what they count.     *)
THEOREM Counted == Spec => []CountsTell
<1>1. IInv => CountsTell
  BY DEF CountsTell, IInv, Containers, ArrayInv, EpollInv, RegistryInv
<1>2. QED
  BY Invariance, <1>1, PTL

(* cp_fds_proc_event() calls no socket twice for one event.                *)
THEOREM CalledOnce == Spec => []NotTwice
<1>1. IInv => NotTwice
  <2> SUFFICES ASSUME IInv PROVE NotTwice
    OBVIOUS
  <2>1. DOMAIN queue = 1 .. Len(queue)
    BY StateFacts
  <2>2. QED
    BY <2>1 DEF NotTwice, IInv, Containers, QueueInv, LiveInv
<1>2. QED
  BY Invariance, <1>1, PTL

-----------------------------------------------------------------------------
(* With room for what one epoll_wait() reports.                            *)

(* Before the last report is queued the queue has room for it.             *)
LEMMA RoomLeft ==
  ASSUME IInv, AheadInv, Fits, pc = "evts", NEW s \in todo
  PROVE  Len(queue) < max_event
<1>1. IsFiniteSet(todo) /\ Cardinality(todo) \in Nat
  BY StateFacts, FiniteParts DEF IInv, Containers
<1>2. Cardinality(todo) # 0
  BY <1>1, FS_EmptySet
<1>3. QED
  BY <1>1, <1>2, StateFacts, LimitsAssumption DEF AheadInv, Fits

(* AheadInv holds over Detect, DetectOne and, elsewhere, without todo.     *)
LEMMA AheadStep ==
  ASSUME IInv, AheadInv, [Next]_vars
  PROVE  AheadInv'
<1> SUFFICES ASSUME pc' = "evts"
             PROVE  Len(queue') + Cardinality(todo') <= MaxOnce
  BY DEF AheadInv
<1> USE StateFacts
<1>1. CASE Detect
  <2>1. Cardinality(todo') <= MaxOnce /\ todo' \subseteq Ready
    BY <1>1 DEF Detect
  <2>2. Cardinality(todo') \in Nat /\ MaxOnce \in Nat
    BY <2>1, FiniteParts, LimitsAssumption DEF Ready, IInv, Containers
  <2>3. Len(queue') = 0
    BY <1>1 DEF Detect, LoopAt, IInv, Thread
  <2>4. QED
    BY <2>1, <2>2, <2>3
<1>2. ASSUME NEW s \in Socks, DetectOne(s)
      PROVE  Len(queue') + Cardinality(todo') <= MaxOnce
  <2>1. s \in todo /\ todo' = todo \ {s} /\ pc = "evts"
    BY <1>2 DEF DetectOne, LoopAt
  <2>2. IsFiniteSet(todo) /\ Cardinality(todo) \in Nat /\ MaxOnce \in Nat
    BY FiniteParts, LimitsAssumption DEF IInv, Containers
  <2>3. Cardinality(todo') = Cardinality(todo) - 1
    BY <2>1, <2>2, FS_RemoveElement
  <2>4. Len(queue') = Len(queue) \/ Len(queue') = Len(queue) + 1
    BY <1>2, AppendProperties DEF DetectOne, Enqueue
  <2>5. QED
    BY <2>1, <2>2, <2>3, <2>4 DEF AheadInv
<1>3. CASE UNCHANGED <<queue, todo, pc>>
  BY <1>3 DEF AheadInv
<1>4. CASE UNCHANGED vars \/ KernelNext
  BY <1>3, <1>4 DEF vars, loop, KernelNext, PeerConnects, PeerSends, PeerCloses
<1>5. cur # NoSock => pc # "evts"
  BY DEF IInv, Thread
<1>6. ASSUME NEW c \in Clients, Destroy(c)
      PROVE  pc' = pc \/ pc' = "crashed"
  BY <1>6 DEF Destroy
<1>7. CASE CbGone \/ CbEnd \/ \E c \in Clients : CbEndOther(c)
  BY <1>5, <1>6, <1>7 DEF CbGone, ReceivesNone, CbEnd, CbEndOther, Serving
<1>8. CASE AcceptFails \/ AcceptNoRoom \/ (\E c \in Clients : AcceptNew(c)) \/ CbRecv
  BY <1>5, <1>8 DEF AcceptFails, AcceptNoRoom, AcceptNew, CbRecv, loop
<1>9. CASE CbWait \/ CbStay \/ CbLeave
  BY <1>5, <1>9 DEF CbWait, CbStay, CbLeave, Serving, loop
<1>10. CASE Detected \/ TaskCall \/ TasksDone \/ QueueCall \/ QueueDone \/ TimeoutsDone
  BY <1>10 DEF Detected, TaskCall, TasksDone, QueueCall, QueueDone, TimeoutsDone, LoopAt, loop
<1>11. ASSUME NEW s \in Clients, TimeoutOne(s)
       PROVE  pc' # "evts"
  BY <1>11 DEF TimeoutOne, LoopAt
<1>12. QED
  BY <1>1, <1>2, <1>4, <1>7, <1>8, <1>9, <1>10, <1>11 DEF Next, LoopNext

LEMMA EnqueueQueued ==
  ASSUME IInv, AheadInv, Fits, Queued, pc = "evts", NEW s \in todo, Enqueue(s)
  PROVE  Queued'
<1>1. CASE flag[s] \cap {"INQUEUE", "TASKED"} # {}
  BY <1>1 DEF Enqueue, Queued, InQueue
<1>2. CASE flag[s] \cap {"INQUEUE", "TASKED"} = {}
  <2>1. s \in Socks
    BY StateFacts
  <2>2. Len(queue) < max_event
    BY RoomLeft
  <2>3. queue' = Append(queue, s)
    BY <1>2, <2>2, StateFacts DEF Enqueue
  <2>4. /\ DOMAIN queue' = 1 .. (Len(queue) + 1) /\ queue'[Len(queue) + 1] = s
        /\ \A n \in 1 .. Len(queue) : queue'[n] = queue[n]
    BY <2>1, <2>3, StateFacts, AppendProperties, LenProperties
  <2>5. \A t \in Socks : "INQUEUE" \in flag'[t] => t = s \/ "INQUEUE" \in flag[t]
    BY <1>2 DEF Enqueue, IInv, Containers
  <2>6. InQueue(s)'
    BY <2>4, StateFacts DEF InQueue
  <2>7. \A t \in Socks : InQueue(t) => InQueue(t)'
    BY <2>4, StateFacts DEF InQueue
  <2>8. QED
    BY <2>5, <2>6, <2>7 DEF Queued
<1>3. QED
  BY <1>1, <1>2

LEMMA DequeueQueued ==
  ASSUME IInv, Queued, queue # <<>>, queue' = Tail(queue),
         flag' = [flag EXCEPT ![Head(queue)] = @ \ {"INQUEUE"}]
  PROVE  Queued'
<1>1. /\ Len(queue) \in Nat \ {0} /\ Head(queue) = queue[1] /\ Head(queue) \in Socks
      /\ DOMAIN queue' = 1 .. (Len(queue) - 1)
      /\ \A n \in 1 .. (Len(queue) - 1) : queue'[n] = queue[n + 1]
  BY StateFacts, HeadTailProperties, LenProperties
<1>2. SUFFICES ASSUME NEW t \in Socks, "INQUEUE" \in flag'[t]
               PROVE  InQueue(t)'
  BY DEF Queued
<1>3. t # Head(queue) /\ "INQUEUE" \in flag[t]
  BY <1>1, <1>2 DEF IInv, Containers
<1>4. PICK n \in 1 .. Len(queue) : queue[n] = t
  BY <1>3, StateFacts DEF Queued, InQueue
<1>5. n - 1 \in 1 .. (Len(queue) - 1) /\ queue'[n - 1] = t
  BY <1>1, <1>3, <1>4
<1>6. QED
  BY <1>1, <1>5 DEF InQueue

LEMMA DestroyQueued ==
  ASSUME IInv, Queued, NEW s \in Clients, Destroy(s)
  PROVE  ~RunsOff(s) /\ pc' = pc /\ Queued'
<1>1. s \in Socks /\ ~RunsOff(s)
  BY StateFacts DEF Queued, RunsOff
<1>2. /\ pc' = pc /\ flag' = [flag EXCEPT ![s] = {}]
      /\ IF "INQUEUE" \in flag[s] /\ InQueue(s) THEN Unqueue(s) ELSE UNCHANGED queue
  BY <1>1 DEF Destroy
<1>3. SUFFICES ASSUME NEW t \in Socks, "INQUEUE" \in flag'[t]
               PROVE  InQueue(t)'
  BY <1>1, <1>2 DEF Queued
<1>4. t # s /\ "INQUEUE" \in flag[t]
  BY <1>1, <1>2, <1>3 DEF IInv, Containers
<1>5. PICK m \in 1 .. Len(queue) : queue[m] = t
  BY <1>4, StateFacts DEF Queued, InQueue
<1>6. CASE "INQUEUE" \in flag[s] /\ InQueue(s)
  <2>1. PICK n \in 1 .. Len(queue) : queue[n] = s /\ queue' = RemoveAt(queue, n)
    BY <1>2, <1>6, StateFacts DEF Unqueue
  <2>2. /\ queue' \in Seq(Socks) /\ Len(queue') = Len(queue) - 1
        /\ \A j \in 1 .. (Len(queue) - 1) : queue'[j] = IF j < n THEN queue[j] ELSE queue[j + 1]
    BY <2>1, StateFacts, RemoveAtProperties
  <2>3. DOMAIN queue' = 1 .. (Len(queue) - 1)
    BY <2>2, LenProperties
  <2>4. m # n
    BY <1>4, <1>5, <2>1
  <2>5. CASE m < n
    <3>1. m \in 1 .. (Len(queue) - 1) /\ queue'[m] = t
      BY <1>5, <2>2, <2>5, StateFacts
    <3>2. QED
      BY <2>3, <3>1 DEF InQueue
  <2>6. CASE m > n
    <3>1. m - 1 \in 1 .. (Len(queue) - 1) /\ queue'[m - 1] = t
      BY <1>5, <2>2, <2>6, StateFacts
    <3>2. QED
      BY <2>3, <3>1 DEF InQueue
  <2>7. QED
    BY <2>4, <2>5, <2>6
<1>7. CASE ~("INQUEUE" \in flag[s] /\ InQueue(s))
  <2>1. queue' = queue
    BY <1>2, <1>7
  <2>2. QED
    BY <2>1, <1>5, StateFacts DEF InQueue
<1>8. QED
  BY <1>6, <1>7

(* The other steps leave the queue and who has its flag as they are.       *)
QueueKept == queue' = queue /\ \A t \in Socks : "INQUEUE" \in flag'[t] => "INQUEUE" \in flag[t]

LEMMA OthersKeepQueue ==
  ASSUME IInv, [Next]_vars,
         \A s \in Socks : ~DetectOne(s), ~QueueCall, ~CbGone, ~CbEnd,
         \A c \in Clients : ~CbEndOther(c)
  PROVE  QueueKept /\ max_event' = max_event /\ (pc' = "crashed" => pc = "crashed")
<1>1. flag \in [Socks -> SUBSET Flags]
  BY DEF IInv, Containers
<1>2. CASE Detect \/ Detected \/ TaskCall \/ TasksDone \/ QueueDone \/ TimeoutsDone
           \/ AcceptFails \/ AcceptNoRoom \/ CbRecv
  BY <1>2 DEF QueueKept, Detect, Detected, TaskCall, TasksDone, QueueDone, TimeoutsDone,
              AcceptFails, AcceptNoRoom, CbRecv, fdsvars, loop
<1>3. ASSUME NEW s \in Socks, AddTask(s)
      PROVE  \A t \in Socks : "INQUEUE" \in flag'[t] => "INQUEUE" \in flag[t]
  BY <1>1, <1>3 DEF AddTask
<1>4. ASSUME NEW s \in Clients, TimeoutOne(s)
      PROVE  QueueKept /\ max_event' = max_event /\ (pc' = "crashed" => pc = "crashed")
  BY <1>3, <1>4, StateFacts DEF QueueKept, TimeoutOne, fdsvars
<1>5. CASE CbWait
  BY <1>3, <1>5, StateFacts DEF QueueKept, CbWait, Serving, fdsvars, loop
<1>6. CASE CbStay \/ CbLeave
  BY <1>1, <1>6 DEF QueueKept, CbStay, CbLeave, fdsvars, loop
<1>7. ASSUME NEW c \in Clients, AcceptNew(c)
      PROVE  QueueKept /\ max_event' = max_event /\ (pc' = "crashed" => pc = "crashed")
  BY <1>1, <1>7 DEF QueueKept, AcceptNew, loop
<1>8. CASE KernelNext
  BY <1>8 DEF KernelNext, PeerConnects, PeerSends, PeerCloses, QueueKept, fdsvars, loop
<1>9. CASE UNCHANGED vars
  BY <1>9 DEF vars, QueueKept, fdsvars, loop
<1>10. QED
  BY <1>2, <1>4, <1>5, <1>6, <1>7, <1>8, <1>9 DEF Next, LoopNext

LEMMA RoomStep ==
  ASSUME IInv, RoomInv, [Next]_vars
  PROVE  RoomInv'
<1>0. AheadInv'
  BY AheadStep DEF RoomInv
<1>1. CASE QueueKept /\ max_event' = max_event /\ (pc' = "crashed" => pc = "crashed")
  BY <1>0, <1>1 DEF QueueKept, RoomInv, Fits, Queued, InQueue
<1>2. ASSUME NEW s \in Socks, DetectOne(s) PROVE RoomInv'
  <2>1. Enqueue(s) /\ pc' = pc /\ max_event' = max_event /\ pc = "evts" /\ s \in todo
    BY <1>2 DEF DetectOne, LoopAt, fdsvars
  <2>2. QED
    BY <1>0, <2>1, EnqueueQueued DEF RoomInv, Fits
<1>3. CASE QueueCall
  <2>1. pc' = pc /\ max_event' = max_event
    BY <1>3 DEF QueueCall, fdsvars, loop
  <2>2. QED
    BY <1>0, <1>3, <2>1, DequeueQueued DEF QueueCall, RoomInv, Fits
<1>4. ASSUME NEW c \in Clients, Destroy(c) PROVE RoomInv'
  <2>1. max_event' = max_event
    BY <1>4 DEF Destroy, fdsvars
  <2>2. QED
    BY <1>0, <1>4, <2>1, DestroyQueued DEF RoomInv, Fits
<1>5. CASE CbGone \/ CbEnd \/ \E c \in Clients : CbEndOther(c)
  BY <1>4, <1>5 DEF CbGone, ReceivesNone, CbEnd, CbEndOther, Serving
<1>6. QED
  BY <1>1, <1>2, <1>3, <1>5, OthersKeepQueue

(* With room for what one epoll_wait() reports every flag says what its    *)
(* container does, and cp_rmqueue() never runs off the end of the queue.   *)
THEOREM FlagsRight == Spec => []FlagsTell
<1>1. Init => RoomInv
  BY SocksAssumption DEF Init, RoomInv, AheadInv, Queued, Socks
<1>2. IInv /\ RoomInv /\ [Next]_vars => RoomInv'
  BY RoomStep
<1>3. IInv /\ RoomInv => FlagsTell
  <2> SUFFICES ASSUME IInv, RoomInv, Fits
               PROVE  /\ \A s \in Socks :
                           /\ "INQUEUE" \in flag[s] <=> InQueue(s)
                           /\ "EPOLLED" \in flag[s] <=> s \in epoll
                           /\ "TASKED" \in flag[s] <=> \E k \in Slots : data[k] = s
                           /\ "TASKED" \in flag[s] => data[index[s]] = s
                      /\ pc # "crashed"
    BY DEF FlagsTell
  <2>1. \A s \in Socks : "INQUEUE" \in flag[s] <=> InQueue(s)
    BY StateFacts DEF RoomInv, Queued, InQueue, IInv, Containers, QueueInv
  <2>2. \A s \in Socks : "EPOLLED" \in flag[s] <=> s \in epoll
    BY DEF IInv, Containers, EpollInv
  <2>3. \A s \in Socks : /\ "TASKED" \in flag[s] <=> \E k \in Slots : data[k] = s
                         /\ "TASKED" \in flag[s] => data[index[s]] = s
    BY StateFacts DEF IInv, Containers, ArrayInv
  <2>4. pc # "crashed"
    BY DEF RoomInv
  <2>5. QED
    BY <2>1, <2>2, <2>3, <2>4
<1>4. QED
  BY Invariance, <1>1, <1>2, <1>3, PTL DEF Spec

-----------------------------------------------------------------------------
(* Who is told of bytes.                                                   *)

LEMMA ToldLoop ==
  ASSUME IInv, ToldInv,
         \/ Detect \/ Detected \/ \E s \in Socks : DetectOne(s)
         \/ TaskCall \/ TasksDone \/ QueueCall \/ QueueDone
         \/ TimeoutsDone \/ \E s \in Clients : TimeoutOne(s)
  PROVE  ToldInv'
<1> USE StateFacts DEF Told, LoopAt, kernel
<1>0. flag \in [Socks -> SUBSET Flags] /\ event \in [Socks -> {"none", "in", "timeout"}]
  BY DEF IInv, Containers, Thread
<1>1. CASE Detect
  BY <1>1 DEF Detect, Ready, ToldInv, InQueue, call
<1>2. CASE Detected \/ TasksDone \/ QueueDone \/ TimeoutsDone
  BY <1>2 DEF Detected, TasksDone, QueueDone, TimeoutsDone, ToldInv, InQueue, call
<1>3. ASSUME NEW s \in Socks, DetectOne(s) PROVE ToldInv'
  <2>1. /\ cur = NoSock /\ cur' = NoSock /\ pc = "evts" /\ pc' = "evts" /\ s \in todo
        /\ todo' \subseteq todo /\ event' = [event EXCEPT ![s] = "in"]
        /\ pending' = pending /\ closed' = closed
    BY <1>3 DEF DetectOne, call
  <2>2. /\ Containers'
        /\ \A n \in 1 .. Len(queue') : queue'[n] = s \/ (n \in 1 .. Len(queue) /\ queue'[n] = queue[n])
    BY <1>3, EnqueueStep DEF DetectOne, IInv
  <2>3. DOMAIN queue' = 1 .. Len(queue')
    BY <2>2, LenProperties DEF Containers, QueueInv
  <2>4. \A t \in Socks : t # s => (InQueue(t)' => InQueue(t))
    BY <2>2, <2>3 DEF InQueue
  <2>5. \A t \in Socks : "TASKED" \in flag'[t] => "TASKED" \in flag[t]
    BY <1>0, <1>3 DEF DetectOne, Enqueue
  <2>6. s \in Clients => Told(s)
    BY <2>1 DEF ToldInv
  <2>7. QED
    BY <1>0, <2>1, <2>4, <2>5, <2>6 DEF ToldInv
<1>4. CASE TaskCall
  <2>1. PICK k \in Slots : data[k] # NoSock /\ cur' = data[k]
    BY <1>4 DEF TaskCall, NextTask
  <2>2. "TASKED" \in flag[cur']
    BY <2>1 DEF IInv, Containers, ArrayInv
  <2>3. QED
    BY <1>4, <2>2 DEF TaskCall, ToldInv, InQueue
<1>5. CASE QueueCall
  <2>1. /\ Len(queue) \in Nat \ {0} /\ Head(queue) = queue[1] /\ cur' = queue[1]
        /\ DOMAIN queue' = 1 .. (Len(queue) - 1)
        /\ \A n \in 1 .. (Len(queue) - 1) : queue'[n] = queue[n + 1]
    BY <1>5, HeadTailProperties, LenProperties DEF QueueCall
  <2>2. InQueue(cur')
    BY <2>1 DEF InQueue
  <2>3. \A t \in Socks : InQueue(t)' => InQueue(t)
    BY <2>1 DEF InQueue
  <2>4. \A t \in Socks : "TASKED" \in flag'[t] => "TASKED" \in flag[t]
    BY <1>0, <1>5 DEF QueueCall
  <2>5. QED
    BY <1>5, <2>2, <2>3, <2>4 DEF QueueCall, ToldInv, loop
<1>6. ASSUME NEW s \in Clients, TimeoutOne(s) PROVE ToldInv'
  <2>1. \A t \in Socks : t # s => event'[t] = event[t] /\ flag'[t] = flag[t]
    BY <1>0, <1>6 DEF TimeoutOne, AddTask
  <2>2. UNCHANGED <<event, flag>> \/ event'[s] # "in"
    BY <1>0, <1>6 DEF TimeoutOne
  <2>3. QED
    BY <1>6, <2>1, <2>2 DEF TimeoutOne, ToldInv, InQueue, call
<1>7. QED
  BY <1>1, <1>2, <1>3, <1>4, <1>5, <1>6

LEMMA ToldEnd ==
  ASSUME IInv, ToldInv, NEW s \in Clients, Destroy(s),
         cur \in Clients, \/ s # cur /\ UNCHANGED call
                          \/ s = cur /\ Return
  PROVE  ToldInv'
<1> USE StateFacts DEF Told
<1>1. /\ pc # "evts" /\ s \in Socks
      /\ flag \in [Socks -> SUBSET Flags] /\ event \in [Socks -> {"none", "in", "timeout"}]
      /\ pending \in [Clients -> BOOLEAN] /\ closed \in [Clients -> BOOLEAN]
  BY DEF IInv, Containers, Thread, Kernel
<1>2. CASE RunsOff(s)
  BY <1>1, <1>2, RunsOffStep DEF ToldInv, IInv, call, Return, kernel
<1>3. CASE ~RunsOff(s)
  <2>1. /\ pc' = pc /\ todo' = todo
        /\ event' = [event EXCEPT ![s] = "none"] /\ flag' = [flag EXCEPT ![s] = {}]
        /\ pending' = [pending EXCEPT ![s] = FALSE] /\ closed' = [closed EXCEPT ![s] = FALSE]
    BY <1>3 DEF Destroy
  <2>2. /\ Containers'
        /\ \A n \in 1 .. Len(queue') : queue'[n] # s
        /\ \A n \in 1 .. Len(queue') : \E m \in 1 .. Len(queue) : queue'[n] = queue[m]
    BY <1>3, DestroyStep DEF IInv
  <2>3. DOMAIN queue' = 1 .. Len(queue')
    BY <2>2, LenProperties DEF Containers, QueueInv
  <2>4. \A t \in Socks : InQueue(t)' => InQueue(t)
    BY <2>2, <2>3 DEF InQueue
  <2>5. event'[s] # "in"
    BY <1>1, <2>1
  <2>8. ~InQueue(s)'
    BY <2>2, <2>3 DEF InQueue
  <2>6. ASSUME NEW c \in Clients, c # s
        PROVE  /\ event'[c] = event[c] /\ flag'[c] = flag[c] /\ (Told(c)' <=> Told(c))
               /\ cur' # c => cur # c
               /\ cur' = c => cur = c /\ cb' = cb
    BY <1>1, <2>1, <2>6 DEF call, Return
  <2>7. QED
    BY <1>1, <2>1, <2>4, <2>5, <2>6, <2>8 DEF ToldInv
<1>4. QED
  BY <1>2, <1>3

LEMMA ToldCallbacks ==
  ASSUME IInv, ToldInv,
         \/ AcceptFails \/ AcceptNoRoom \/ \E c \in Clients : AcceptNew(c)
         \/ CbRecv \/ CbGone \/ CbEnd \/ CbWait \/ CbStay \/ CbLeave
         \/ \E c \in Clients : CbEndOther(c)
  PROVE  ToldInv'
<1> USE StateFacts DEF Told, Return
<1>0. /\ flag \in [Socks -> SUBSET Flags] /\ event \in [Socks -> {"none", "in", "timeout"}]
      /\ pending \in [Clients -> BOOLEAN]
      /\ cur # NoSock => pc # "evts"
  BY DEF IInv, Containers, Thread, Kernel
<1>1. CASE AcceptFails \/ AcceptNoRoom
  BY <1>0, <1>1 DEF AcceptFails, AcceptNoRoom, ToldInv, InQueue, loop, kernel
<1>2. ASSUME NEW c \in Clients, AcceptNew(c) PROVE ToldInv'
  <2>1. "TASKED" \notin flag'[c] /\ \A t \in Socks \ {c} : flag'[t] = flag[t]
    BY <1>0, <1>2 DEF AcceptNew
  <2>2. ~InQueue(c)
    BY <1>2 DEF AcceptNew, InQueue
  <2>3. QED
    BY <1>0, <1>2, <2>1, <2>2 DEF AcceptNew, ToldInv, InQueue, loop
<1>3. CASE CbRecv
  <2>1. ~InQueue(cur) /\ cur \in Clients /\ cb' = "received" /\ cur' = cur
    BY <1>3 DEF CbRecv, IInv, Thread, InQueue
  <2>2. \A c \in Clients \ {cur} : Told(c)' <=> Told(c)
    BY <1>0, <1>3 DEF CbRecv
  <2>3. UNCHANGED <<queue, pc, todo>> /\ \A c \in Clients : InQueue(c)' <=> InQueue(c)
    BY <1>3 DEF CbRecv, InQueue, loop
  <2>4. QED
    BY <1>0, <1>3, <2>1, <2>2, <2>3 DEF CbRecv, ToldInv
<1>4. CASE CbGone \/ CbEnd \/ \E c \in Clients : CbEndOther(c)
  BY <1>4, ToldEnd DEF CbGone, ReceivesNone, CbEnd, CbEndOther, Serving
<1>5. CASE CbWait
  <2>1. event'[cur] # "in" /\ \A t \in Socks \ {cur} : event'[t] = event[t] /\ flag'[t] = flag[t]
    BY <1>0, <1>5 DEF CbWait, Serving, AddTask
  <2>2. QED
    BY <1>0, <1>5, <2>1 DEF CbWait, Serving, ToldInv, InQueue, loop, kernel
<1>6. CASE CbLeave
  <2>1. ~InQueue(cur) /\ cur \in Clients
    BY <1>6 DEF CbLeave, Serving, IInv, Thread, InQueue
  <2>2. /\ "TASKED" \notin flag'[cur]
        /\ \A t \in Socks \ {cur} : event'[t] = event[t] /\ flag'[t] = flag[t]
    BY <1>0, <1>6, <2>1 DEF CbLeave
  <2>3. QED
    BY <1>0, <1>6, <2>1, <2>2 DEF CbLeave, ToldInv, InQueue, loop, kernel
<1>7. CASE CbStay
  BY <1>0, <1>7 DEF CbStay, ToldInv, InQueue, loop
<1>8. QED
  BY <1>1, <1>2, <1>3, <1>4, <1>5, <1>6, <1>7

(* A receive of 0 bytes is the end of the stream for every socket that is  *)
(* called from the queue and has room in its buffer.                       *)
THEOREM QueueCallsAreFresh == Spec => []GoneFromQueueIsClosed
<1>1. Init => ToldInv
  BY EmptySeq, SocksAssumption DEF Init, ToldInv, InQueue, Socks
<1>2. IInv /\ ToldInv /\ [Next]_vars => ToldInv'
  <2> SUFFICES ASSUME IInv, ToldInv, [Next]_vars PROVE ToldInv'
    OBVIOUS
  <2>1. CASE LoopNext
    BY <2>1, ToldLoop, ToldCallbacks DEF LoopNext
  <2>2. CASE PeerConnects
    BY <2>2 DEF PeerConnects, ToldInv, Told, InQueue, loop, call
  <2>3. ASSUME NEW c \in Clients, PeerSends(c) PROVE ToldInv'
    BY <2>3 DEF PeerSends, ToldInv, Told, InQueue, loop, call, IInv, Kernel
  <2>4. ASSUME NEW c \in Clients, PeerCloses(c) PROVE ToldInv'
    BY <2>4 DEF PeerCloses, ToldInv, Told, InQueue, loop, call, IInv, Kernel
  <2>5. CASE UNCHANGED vars
    BY <2>5 DEF vars, ToldInv, Told, InQueue, loop, call, kernel
  <2>6. QED
    BY <2>1, <2>2, <2>3, <2>4, <2>5 DEF Next, KernelNext
<1>3. ToldInv => GoneFromQueueIsClosed
  BY DEF ToldInv, Told, GoneFromQueueIsClosed, ReceivesNone
<1>4. QED
  BY Invariance, <1>1, <1>2, <1>3, PTL DEF Spec

-----------------------------------------------------------------------------
(* Who is known to the loop.                                               *)

(* A socket that is allocated is watched by epoll, and one that was        *)
(* accepted is in its server's list, up to cp_sock_term(): whatever        *)
(* max_event and max_client are, however accepts fail and connections end, *)
(* no socket is left over that nobody would read, time out or free.        *)
AllKnown == Server \in live /\ epoll = live /\ accept_list = live \ {Server}

THEOREM NoneForgotten == Spec => []AllKnown
<1>1. Init => AllKnown
  BY DEF Init, AllKnown
<1>2. IInv /\ AllKnown /\ [Next]_vars => AllKnown'
  <2> SUFFICES ASSUME IInv, AllKnown, [Next]_vars PROVE AllKnown'
    OBVIOUS
  <2> USE DEF AllKnown
  <2>1. ASSUME UNCHANGED <<live, epoll, accept_list>> PROVE AllKnown'
    BY <2>1
  <2>2. ASSUME NEW c \in Clients, Destroy(c) PROVE AllKnown'
    <3>1. \/ UNCHANGED <<live, epoll, accept_list>>
          \/ live' = live \ {c} /\ epoll' = epoll \ {c} /\ accept_list' = accept_list \ {c}
      BY <2>2 DEF Destroy, fdsvars, regvars
    <3>2. QED
      BY <3>1, SocksAssumption
  <2>3. ASSUME NEW c \in Clients, AcceptNew(c) PROVE AllKnown'
    BY <2>3, SocksAssumption DEF AcceptNew
  <2>4. CASE Detect \/ Detected \/ (\E s \in Socks : DetectOne(s)) \/ TaskCall \/ TasksDone
    BY <2>1, <2>4 DEF Detect, Detected, DetectOne, TaskCall, TasksDone, fdsvars, regvars
  <2>5. CASE QueueCall \/ QueueDone \/ TimeoutsDone \/ \E s \in Clients : TimeoutOne(s)
    BY <2>1, <2>5 DEF QueueCall, QueueDone, TimeoutsDone, TimeoutOne, fdsvars, regvars
  <2>6. CASE AcceptFails \/ AcceptNoRoom \/ CbRecv \/ CbWait \/ CbStay \/ CbLeave
    BY <2>1, <2>6 DEF AcceptFails, AcceptNoRoom, CbRecv, CbWait, CbStay, CbLeave, fdsvars, regvars
  <2>7. CASE CbGone \/ CbEnd \/ \E c \in Clients : CbEndOther(c)
    BY <2>2, <2>7 DEF CbGone, ReceivesNone, CbEnd, CbEndOther, Serving
  <2>8. CASE KernelNext \/ UNCHANGED vars
    BY <2>1, <2>8 DEF KernelNext, PeerConnects, PeerSends, PeerCloses, vars, fdsvars, regvars
  <2>9. QED
    BY <2>3, <2>4, <2>5, <2>6, <2>7, <2>8 DEF Next, LoopNext
<1>3. QED
  BY Invariance, <1>1, <1>2, PTL DEF Spec

(* With that room a turn of the loop drops no report of epoll_wait(): the  *)
(* socket is queued, or is called as a task, and the queue's flag is       *)
(* nobody's any more when the turn ends, so that the next turn can queue   *)
(* it again.  The safety half of BytesAreRead and of ClosedAreEnded.       *)
TurnEnds == Fits /\ pc \in {"wait", "timeouts"} => \A s \in Socks : "INQUEUE" \notin flag[s]

ReportKept ==
  [][Fits => \A s \in Socks : DetectOne(s) => (InQueue(s) \/ "TASKED" \in flag[s])']_vars

THEOREM NoReportDropped == Spec => []TurnEnds /\ ReportKept
<1>1. Init => RoomInv
  BY SocksAssumption DEF Init, RoomInv, AheadInv, Queued, Socks
<1>2. IInv /\ RoomInv /\ [Next]_vars => RoomInv'
  BY RoomStep
<1>3. IInv /\ RoomInv => TurnEnds
  BY StateFacts DEF RoomInv, Queued, InQueue, TurnEnds, IInv, Thread
<1>4. IInv /\ RoomInv /\ RoomInv'
      => [Fits => \A s \in Socks : DetectOne(s) => (InQueue(s) \/ "TASKED" \in flag[s])']_vars
  <2> SUFFICES ASSUME IInv, RoomInv, RoomInv', Fits, NEW s \in Socks, DetectOne(s)
               PROVE  (InQueue(s) \/ "TASKED" \in flag[s])'
    OBVIOUS
  <2>1. Fits' /\ Enqueue(s)
    BY DEF DetectOne, fdsvars, Fits
  <2>2. "INQUEUE" \in flag'[s] \/ "TASKED" \in flag'[s]
    BY <2>1 DEF Enqueue, IInv, Containers
  <2>3. Queued'
    BY <2>1 DEF RoomInv
  <2>4. QED
    BY <2>2, <2>3 DEF Queued
<1>5. QED
  BY Invariance, <1>1, <1>2, <1>3, <1>4, PTL DEF Spec, ReportKept
=============================================================================
