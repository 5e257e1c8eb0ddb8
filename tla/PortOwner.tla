----------------------------- MODULE PortOwner -----------------------------
(***************************************************************************)
(* What the pool of CMUX data ports promises the threads of gsmd: a port   *)
(* has at most one owner at a time, a thread owns at most one port, and a  *)
(* port a thread gives back can be taken again.  It is the contract of     *)
(* alloc_gsm_dataport() and free_gsm_dataport() without the flag, the scan *)
(* and the counter they are made of.  PortPool and Gprs implement it.      *)
(***************************************************************************)

CONSTANTS
  Threads,  (* the threads that borrow data ports                          *)
  Ports,    (* the data ports of the pool                                  *)
  NoPort    (* what a thread holds when it holds no port: the NULL pointer *)

VARIABLE owned  (* owned[t]: the port thread t holds, or NoPort *)

(* A thread that holds nothing is given a port that nobody holds.          *)
Acquire(t, p) ==
  /\ owned[t] = NoPort
  /\ \A u \in Threads : owned[u] # p
  /\ owned' = [owned EXCEPT ![t] = p]

(* A thread gives its port back.                                           *)
Release(t) ==
  /\ owned[t] # NoPort
  /\ owned' = [owned EXCEPT ![t] = NoPort]

Init == owned = [t \in Threads |-> NoPort]

Next == \E t \in Threads : Release(t) \/ \E p \in Ports : Acquire(t, p)

Spec == Init /\ [][Next]_owned
=============================================================================
