------------------------------ MODULE PortPool ------------------------------
(***************************************************************************)
(* The pool of CMUX data ports of gsmd (cp_gprs.c): alloc_gsm_dataport()   *)
(* and free_gsm_dataport() called by several threads, at the grain of the  *)
(* single accesses to the shared variables.  The "lock" is a static int    *)
(* that is tested and then set, not a mutex; free_gsm_dataport() and the   *)
(* user counter do not take it at all.  Each behaviour has a schedule, how *)
(* far its calls overlap, so that one can tell what the missing mutual     *)
(* exclusion costs from what holds anyway.                                 *)
(***************************************************************************)
EXTENDS Integers, FiniteSets

CONSTANTS
  Threads,   (* the threads that call alloc and free                       *)
  NPorts,    (* module->comport_cnt                                        *)
  Ppp,       (* the one of them that is the PPP thread                     *)
  NoPort,    (* a NULL COM_PORT pointer                                    *)
  Schedules, (* the schedules that are looked at, see below                *)
  MaxDrift   (* bound: users is not counted on from a value that lies that *)
             (* far below zero or above the number of threads              *)

ASSUME ThreadsAssumption == IsFiniteSet(Threads)
ASSUME NPortsAssumption == NPorts \in Nat \ {0}
ASSUME NoPortAssumption == NoPort \notin Nat
ASSUME SchedulesAssumption == Schedules \subseteq {"any", "flag", "serial"}
ASSUME MaxDriftAssumption == MaxDrift \in Nat

Ports == 0 .. (NPorts - 1)

VARIABLES
  schedule, (* in "any" calls overlap in any way; in "flag" the flag does   *)
            (* what it is for; in "serial" no two calls overlap             *)
  lock,     (* the static int of alloc_gsm_dataport()                      *)
  used,     (* used[p]: comport[p]->used = YES                             *)
  users,    (* module->users                                               *)
  own,      (* own[t]: the port whose pointer thread t holds               *)
  pc,       (* where thread t is inside the two calls                      *)
  idx,      (* the loop variable i of thread t, 0 outside its loop         *)
  tmp,      (* the register thread t counts in, 0 when it is not counting  *)
  ret       (* what thread t's last alloc returned, "none" before it does  *)

vars == <<schedule, lock, used, users, own, pc, idx, tmp, ret>>

Held == {t \in Threads : own[t] # NoPort}

(* The threads between the test of the flag and its clearing.              *)
Inside == {t \in Threads : pc[t] \in {"set", "scan", "take", "unset"}}

Locked == \A t, u \in Inside : t = u

Serial == \A t, u \in Threads : pc[t] # "idle" /\ pc[u] # "idle" => t = u

Respected == (schedule = "flag" => Locked) /\ (schedule = "serial" => Serial)

(* Thread t moves from one place to the next, as the schedule allows.      *)
Goto(t, from, to) ==
  /\ pc[t] = from
  /\ pc' = [pc EXCEPT ![t] = to]
  /\ UNCHANGED schedule /\ Respected'

-----------------------------------------------------------------------------
(* alloc_gsm_dataport()                                                    *)

(* The bound on how far lost updates may take the counter.                 *)
DriftBound == users \in (-MaxDrift) .. (Cardinality(Threads) + MaxDrift)

(* The flag is set: somebody else is allocating, and the call returns NULL.*)
AllocBusy(t) ==
  /\ pc[t] = "idle" /\ own[t] = NoPort
  /\ lock = 1 /\ schedule # "serial"
  /\ ret' = [ret EXCEPT ![t] = "null"]
  /\ UNCHANGED <<schedule, lock, used, users, own, pc, idx, tmp>>

(* The flag is clear: go on, but the flag is not set yet.                  *)
AllocTest(t) ==
  /\ Goto(t, "idle", "set")
  /\ own[t] = NoPort
  /\ lock = 0
  /\ ret' = [ret EXCEPT ![t] = "none"]
  /\ UNCHANGED <<lock, used, users, own, idx, tmp>>

AllocSet(t) ==
  /\ Goto(t, "set", "scan")
  /\ lock' = 1
  /\ UNCHANGED <<used, users, own, idx, tmp, ret>>

(* The port looked at is in use: look at the next one.                     *)
AllocSkip(t) ==
  /\ pc[t] = "scan" /\ idx[t] \in Ports
  /\ used[idx[t]]
  /\ idx' = [idx EXCEPT ![t] = @ + 1]
  /\ UNCHANGED <<schedule, lock, used, users, own, pc, tmp, ret>>

(* A mutant of AllocFound: the scan takes the port it looks at, used or    *)
(* not.                                                                    *)
AllocFound_AnyPort(t) ==
  /\ Goto(t, "scan", "take")
  /\ idx[t] \in Ports
  /\ UNCHANGED <<lock, used, users, own, idx, tmp, ret>>

(* The port looked at is free: choose it, its mark is not written yet.     *)
AllocFound(t) ==
  /\ Goto(t, "scan", "take")
  /\ idx[t] \in Ports
  /\ ~used[idx[t]]
  /\ UNCHANGED <<lock, used, users, own, idx, tmp, ret>>

(* A mutant of AllocTake: the pointer is read after the loop has moved on. *)
AllocTake_NextPort(t) ==
  /\ Goto(t, "take", "unset")
  /\ used' = [used EXCEPT ![idx[t]] = TRUE]
  /\ own' = [own EXCEPT ![t] = idx[t] + 1]
  /\ UNCHANGED <<lock, users, idx, tmp, ret>>

(* The mark and the caller's pointer.                                      *)
AllocTake(t) ==
  /\ Goto(t, "take", "unset")
  /\ used' = [used EXCEPT ![idx[t]] = TRUE]
  /\ own' = [own EXCEPT ![t] = idx[t]]
  /\ UNCHANGED <<lock, users, idx, tmp, ret>>

(* The loop ran off the end: no port is left.                              *)
AllocNone(t) ==
  /\ Goto(t, "scan", "unset")
  /\ idx[t] = NPorts
  /\ UNCHANGED <<lock, used, users, own, idx, tmp, ret>>

(* Mutants of AllocUnset: the call that found no port counts itself too,   *)
(* or returns before it clears the flag.                                   *)
AllocUnset_CountsNull(t) ==
  /\ Goto(t, "unset", "inc")
  /\ lock' = 0
  /\ idx' = [idx EXCEPT ![t] = 0]
  /\ ret' = [ret EXCEPT ![t] = IF own[t] = NoPort THEN "null" ELSE "port"]
  /\ UNCHANGED <<used, users, own, tmp>>

AllocUnset_ReturnsEarly(t) ==
  /\ Goto(t, "unset", IF own[t] = NoPort THEN "idle" ELSE "inc")
  /\ lock' = IF own[t] = NoPort THEN lock ELSE 0
  /\ idx' = [idx EXCEPT ![t] = 0]
  /\ ret' = [ret EXCEPT ![t] = IF own[t] = NoPort THEN "null" ELSE "port"]
  /\ UNCHANGED <<used, users, own, tmp>>

(* The flag is cleared; a call that found a port goes on to count it.      *)
AllocUnset(t) ==
  /\ Goto(t, "unset", IF own[t] = NoPort THEN "idle" ELSE "inc")
  /\ lock' = 0
  /\ idx' = [idx EXCEPT ![t] = 0]
  /\ ret' = [ret EXCEPT ![t] = IF own[t] = NoPort THEN "null" ELSE "port"]
  /\ UNCHANGED <<used, users, own, tmp>>

(* module->users++ is a read and a write, outside the flag.                *)
AllocLoad(t) ==
  /\ Goto(t, "inc", "incstore")
  /\ DriftBound
  /\ tmp' = [tmp EXCEPT ![t] = users]
  /\ UNCHANGED <<lock, used, users, own, idx, ret>>

AllocCount(t) ==
  /\ Goto(t, "incstore", "idle")
  /\ users' = tmp[t] + 1
  /\ tmp' = [tmp EXCEPT ![t] = 0]
  /\ UNCHANGED <<lock, used, own, idx, ret>>

-----------------------------------------------------------------------------
(* free_gsm_dataport()                                                     *)

(* A mutant of FreeMark: the port is counted back but stays marked.        *)
FreeMark_KeepsMark(t) ==
  /\ Goto(t, "idle", "dec")
  /\ own[t] # NoPort
  /\ ret' = [ret EXCEPT ![t] = "none"]
  /\ UNCHANGED <<lock, used, users, own, idx, tmp>>

(* The search for the port always finds it, since the thread holds it.     *)
FreeMark(t) ==
  /\ Goto(t, "idle", "dec")
  /\ own[t] # NoPort
  /\ used' = [used EXCEPT ![own[t]] = FALSE]
  /\ ret' = [ret EXCEPT ![t] = "none"]
  /\ UNCHANGED <<lock, users, own, idx, tmp>>

FreeLoad(t) ==
  /\ Goto(t, "dec", "decstore")
  /\ DriftBound
  /\ tmp' = [tmp EXCEPT ![t] = users]
  /\ UNCHANGED <<lock, used, users, own, idx, ret>>

(* The counter is written back and the caller's pointer is cleared.        *)
FreeCount(t) ==
  /\ Goto(t, "decstore", "idle")
  /\ users' = tmp[t] - 1
  /\ tmp' = [tmp EXCEPT ![t] = 0]
  /\ own' = [own EXCEPT ![t] = NoPort]
  /\ UNCHANGED <<lock, used, idx, ret>>

-----------------------------------------------------------------------------

Init ==
  /\ schedule \in Schedules
  /\ lock = 0
  /\ used = [p \in Ports |-> FALSE]
  /\ users = 0
  /\ own = [t \in Threads |-> NoPort]
  /\ pc = [t \in Threads |-> "idle"]
  /\ idx = [t \in Threads |-> 0]
  /\ tmp = [t \in Threads |-> 0]
  /\ ret = [t \in Threads |-> "none"]

Step(t) ==
  \/ AllocBusy(t) \/ AllocTest(t) \/ AllocSet(t)
  \/ AllocSkip(t) \/ AllocFound(t) \/ AllocTake(t) \/ AllocNone(t)
  \/ AllocUnset(t) \/ AllocLoad(t) \/ AllocCount(t)
  \/ FreeMark(t) \/ FreeLoad(t) \/ FreeCount(t)

Next == \E t \in Threads : Step(t)

Spec == Init /\ [][Next]_vars

-----------------------------------------------------------------------------
(* The thread's call has taken effect and not been undone: what it owns in *)
(* the sense of PortOwner.                                                 *)
Owned == [t \in Threads |-> IF pc[t] \in {"dec", "decstore"} THEN NoPort ELSE own[t]]

Owner == INSTANCE PortOwner WITH Threads <- Threads, Ports <- Ports,
                                 NoPort <- NoPort, owned <- Owned

(* Every variable has its type.                                            *)
TypeOK ==
  /\ schedule \in Schedules
  /\ lock \in {0, 1}
  /\ used \in [Ports -> BOOLEAN]
  /\ users \in Int
  /\ own \in [Threads -> Ports \cup {NoPort}]
  /\ pc \in [Threads -> {"idle", "set", "scan", "take", "unset",
                         "inc", "incstore", "dec", "decstore"}]
  /\ idx \in [Threads -> 0 .. NPorts]
  /\ tmp \in [Threads -> Int]
  /\ ret \in [Threads -> {"none", "null", "port"}]

(* COM_PORT.used, "This comport used or not now": a port is marked exactly *)
(* while some thread owns it; none leaks and none is free while in use.    *)
UsedTells == \A p \in Ports : used[p] <=> \E t \in Threads : Owned[t] = p

(* alloc_gsm_dataport(): as long as calls do not overlap between the test  *)
(* and the clearing of the flag, a port is never handed to two threads, so *)
(* that AT commands and a PPP link never share a TTY.                      *)
Exclusive ==
  schedule # "any" =>
    \A t, u \in Threads : Owned[t] # NoPort /\ Owned[t] = Owned[u] => t = u

(* In the same schedules COM_PORT.used tells the truth, however the calls  *)
(* of free_gsm_dataport() and the counting overlap with everything else.   *)
UsedIffOwned == schedule # "any" => UsedTells

(* In the same schedules the pool does what PortOwner says: the mark is    *)
(* where a port is acquired and the clearing of the mark where it is       *)
(* released.                                                               *)
ImplementsOwner == Owner!Init /\ [][schedule # "any" => [Owner!Next]_Owned]_vars

(* MODULE_INFO.users, "How many users use the module now": if no two calls *)
(* overlap, then between calls it is the number of threads with a port.    *)
UsersExact ==
  schedule = "serial" /\ (\A t \in Threads : pc[t] = "idle") =>
    users = Cardinality(Held)

(* Whatever the schedule, the static flag is never left set: once no       *)
(* thread is inside the region it guards it is clear again, so alloc does  *)
(* not answer NULL for ever.                                               *)
FlagNotLeftSet == Inside = {} => lock = 0

(* The comment above alloc_gsm_dataport(): "we will always preserved first *)
(* comport for PPP thread".  No other thread ever holds the first port.    *)
FirstPortPreserved == \A t \in Threads \ {Ppp} : own[t] # 0
=============================================================================
