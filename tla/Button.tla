------------------------------- MODULE Button -------------------------------
(***************************************************************************)
(* The button driver (driver/plat_button.c) on its single processor.       *)
(* Three contexts share a button's status: the interrupt of its pin, which *)
(* may cut into anything, the timer that waits for the contact to settle,  *)
(* which runs when no process does, and the processes that open, read and  *)
(* close the device.  "oops" is the kernel that followed a bad pointer.    *)
(* open() and release() sleep in kmalloc(), request_irq() and free_irq():  *)
(* a second open(), one in a behaviour, may come at any point of theirs    *)
(* and of a read().  It has the same pointers to timers and status.        *)
(***************************************************************************)
EXTENDS Integers, FiniteSets

CONSTANTS
  NButtons,    (* s3c_button_data.nbuttons                                 *)
  Readers      (* the threads that read() the one open file                *)

ASSUME ButtonAssumption == NButtons \in Nat \ {0}

Buttons == 0 .. (NButtons - 1)
NoButton == -1

VARIABLES
  bphase,      (* how far open() or release() is                           *)
  at,          (* their loop's index                                       *)
  allocated,   (* whether timers and status point to memory that is ours   *)
  irqs,        (* the buttons whose interrupt is requested                 *)
  taken,       (* the buttons whose interrupt another driver has           *)
  again, at2,  (* how far the second open() is, and its loop's index       *)
  status,
  timers,      (* the buttons whose timer is pending                       *)
  strays,      (* those with a pending timer that del_timer() cannot find  *)
  running,     (* the button whose timer handler runs                      *)
  level,       (* the level it has read from the pin                       *)
  ev_press,
  rpc, idx,    (* where each reader is, and its loop's index               *)
  pin,         (* the level of each pin                                    *)
  edges,       (* the buttons whose falling edge waits for its interrupt   *)
  unread       (* the buttons pressed since a read() last looked at them   *)

againvars == <<again, at2>>
openvars == <<bphase, at, allocated, irqs, taken, againvars>>
timevars == <<status, timers, strays, running, level>>
readvars == <<ev_press, rpc, idx, unread>>
bvars == <<openvars, timevars, readvars, pin, edges>>

ButtonInit ==
  /\ bphase = "closed" /\ at = 0 /\ allocated = FALSE
  /\ irqs = {} /\ taken \in SUBSET Buttons
  /\ again = "no" /\ at2 = 0
  /\ status = [b \in Buttons |-> "UP"]
  /\ timers = {} /\ strays = {} /\ running = NoButton /\ level = "high"
  /\ ev_press = FALSE
  /\ rpc = [r \in Readers |-> "idle"] /\ idx = [r \in Readers |-> 0]
  /\ pin = [b \in Buttons |-> "high"] /\ edges = {}
  /\ unread = {}

(* Processes run when no timer handler does.                               *)
InProcess == running = NoButton /\ bphase # "oops"

Oops == bphase' = "oops" /\ UNCHANGED <<at, allocated, irqs, taken, againvars>>

-----------------------------------------------------------------------------
(* The finger: a pin falls or rises, and bounces.                          *)
PinMoves(b) ==
  /\ bphase # "oops"
  /\ pin' = [pin EXCEPT ![b] = IF @ = "high" THEN "low" ELSE "high"]
  /\ edges' = IF pin[b] = "high" /\ b \in irqs THEN edges \cup {b} ELSE edges
  /\ UNCHANGED <<openvars, timevars, readvars>>

(* A mutant of Interrupt: the status is set and the timer forgotten.       *)
Interrupt_NoTimer(b) ==
  /\ bphase # "oops" /\ b \in edges
  /\ edges' = edges \ {b}
  /\ status' = IF status[b] = "UP" THEN [status EXCEPT ![b] = "UNCERTAIN"] ELSE status
  /\ IF allocated THEN UNCHANGED openvars ELSE Oops
  /\ UNCHANGED <<timers, strays, running, level, readvars, pin>>

(* s3c_button_intterupt(): only when the button is up.                     *)
Interrupt(b) ==
  /\ bphase # "oops" /\ b \in edges
  /\ edges' = edges \ {b}
  /\ IF allocated
       THEN /\ UNCHANGED openvars
            /\ IF status[b] = "UP"
                 THEN /\ status' = [status EXCEPT ![b] = "UNCERTAIN"]
                      /\ timers' = timers \cup {b}
                 ELSE UNCHANGED <<status, timers>>
       ELSE Oops /\ UNCHANGED <<status, timers>>
  /\ UNCHANGED <<strays, running, level, readvars, pin>>

(* button_timer_handler() reads the pin,                                   *)
TimerFires(b) ==
  /\ InProcess
  /\ \/ b \in timers /\ timers' = timers \ {b} /\ UNCHANGED strays
     \/ b \in strays /\ strays' = strays \ {b} /\ UNCHANGED timers
  /\ IF allocated
       THEN running' = b /\ level' = pin[b] /\ UNCHANGED openvars
       ELSE Oops /\ UNCHANGED <<running, level>>
  /\ UNCHANGED <<status, readvars, pin, edges>>

(* A mutant of WakeUp: nobody is woken.                                    *)
WakeUp_Nobody == rpc' = rpc

(* wake_up_interruptible()                                                 *)
WakeUp == rpc' = [r \in Readers |-> IF rpc[r] = "asleep" THEN "wait" ELSE rpc[r]]

(* and what it does with a pressed button: the press is told once, the     *)
(* timer is always set again.                                              *)
TimerLow ==
  /\ running # NoButton /\ level = "low"
  /\ running' = NoButton /\ level' = "high"
  /\ timers' = timers \cup {running}
  /\ IF status[running] = "UNCERTAIN"
       THEN /\ status' = [status EXCEPT ![running] = "DOWN"]
            /\ ev_press' = TRUE /\ unread' = unread \cup {running}
            /\ WakeUp
       ELSE UNCHANGED <<status, ev_press, unread, rpc>>
  /\ UNCHANGED <<openvars, strays, idx, pin, edges>>

TimerHigh ==
  /\ running # NoButton /\ level = "high"
  /\ running' = NoButton
  /\ status' = [status EXCEPT ![running] = "UP"]
  /\ UNCHANGED <<openvars, timers, strays, level, readvars, pin, edges>>

-----------------------------------------------------------------------------
(* button_open(): kmalloc(),                                               *)

OpenAlloc ==
  /\ InProcess /\ bphase = "closed" /\ irqs = {}
  /\ bphase' = "opening" /\ at' = 0 /\ allocated' = TRUE
  /\ status' = [b \in Buttons |-> "UP"]
  /\ UNCHANGED <<irqs, taken, againvars, timers, strays, running, level, readvars, pin, edges>>

(* the status and the timer of a button: one that is pending stays so, but *)
(* no longer looks it,                                                     *)
SetUp(i) ==
  /\ status' = [status EXCEPT ![i] = "UP"]
  /\ timers' = timers \ {i} /\ strays' = strays \cup (timers \cap {i})
  /\ UNCHANGED <<running, level>>

(* and request_irq().                                                      *)
Granted(i) == i \notin taken \cup irqs

OpenOne ==
  /\ InProcess /\ bphase = "opening" /\ at < NButtons
  /\ allocated /\ Granted(at) /\ SetUp(at)
  /\ irqs' = irqs \cup {at} /\ at' = at + 1
  /\ UNCHANGED <<bphase, allocated, taken, againvars, readvars, pin, edges>>

(* It fails.  The status is freed before the interrupts are; while(--i)    *)
(* never meets 0 when it starts there.                                     *)
OpenFails ==
  /\ InProcess /\ bphase = "opening" /\ at < NButtons
  /\ ~(allocated /\ Granted(at)) /\ SetUp(at)
  /\ IF at = 0 \/ ~allocated
       THEN Oops
       ELSE /\ bphase' = "undoing" /\ at' = at - 1 /\ allocated' = FALSE
            /\ UNCHANGED <<irqs, taken, againvars>>
  /\ UNCHANGED <<readvars, pin, edges>>

UndoOne ==
  /\ InProcess /\ bphase = "undoing" /\ at # 0
  /\ irqs' = irqs \ {at} /\ edges' = edges \ {at} /\ at' = at - 1
  /\ UNCHANGED <<bphase, allocated, taken, againvars, timevars, readvars, pin>>

UndoDone ==
  /\ InProcess /\ bphase = "undoing" /\ at = 0
  /\ bphase' = "closed" /\ allocated' = FALSE
  /\ UNCHANGED <<at, irqs, taken, againvars, timevars, readvars, pin, edges>>

OpenDone ==
  /\ InProcess /\ bphase = "opening" /\ at = NButtons
  /\ bphase' = "open"
  /\ UNCHANGED <<at, allocated, irqs, taken, againvars, timevars, readvars, pin, edges>>

-----------------------------------------------------------------------------
(* The second open(): during the first, during read()s and release(), or   *)
(* after an open() that left the first interrupt requested.  Its memory    *)
(* takes the place of the first one's, whose pending timers del_timer()    *)
(* no longer finds, and init_waitqueue_head() forgets who sleeps.          *)

OpenAgain ==
  /\ InProcess /\ again = "no" /\ (bphase = "closed" => irqs # {})
  /\ again' = "opening" /\ at2' = 0 /\ allocated' = TRUE
  /\ status' = [b \in Buttons |-> "UP"]
  /\ timers' = {} /\ strays' = timers
  /\ rpc' = [r \in Readers |-> IF rpc[r] = "asleep" THEN "forgotten" ELSE rpc[r]]
  /\ UNCHANGED <<bphase, at, irqs, taken, running, level, ev_press, idx, unread, pin, edges>>

AgainOne ==
  /\ InProcess /\ again = "opening" /\ at2 < NButtons
  /\ allocated /\ Granted(at2) /\ SetUp(at2)
  /\ irqs' = irqs \cup {at2} /\ at2' = at2 + 1
  /\ UNCHANGED <<bphase, at, allocated, taken, again, readvars, pin, edges>>

AgainFails ==
  /\ InProcess /\ again = "opening" /\ at2 < NButtons
  /\ ~(allocated /\ Granted(at2)) /\ SetUp(at2)
  /\ IF at2 = 0 \/ ~allocated
       THEN Oops
       ELSE /\ again' = "undoing" /\ at2' = at2 - 1 /\ allocated' = FALSE
            /\ UNCHANGED <<bphase, at, irqs, taken>>
  /\ UNCHANGED <<readvars, pin, edges>>

AgainUndoes ==
  /\ InProcess /\ again = "undoing" /\ at2 # 0
  /\ irqs' = irqs \ {at2} /\ edges' = edges \ {at2} /\ at2' = at2 - 1
  /\ UNCHANGED <<bphase, at, allocated, taken, again, timevars, readvars, pin>>

AgainDone ==
  /\ InProcess
  /\ \/ again = "undoing" /\ at2 = 0 /\ allocated' = FALSE
     \/ again = "opening" /\ at2 = NButtons /\ UNCHANGED allocated
  /\ again' = "done"
  /\ UNCHANGED <<bphase, at, irqs, taken, at2, timevars, readvars, pin, edges>>

-----------------------------------------------------------------------------
(* button_release(), when no read() is left                                *)

Close ==
  /\ InProcess /\ bphase = "open" /\ \A r \in Readers : rpc[r] = "idle"
  /\ bphase' = "closing" /\ at' = 0
  /\ UNCHANGED <<allocated, irqs, taken, againvars, timevars, readvars, pin, edges>>

CloseIrq ==
  /\ InProcess /\ bphase = "closing" /\ at < NButtons
  /\ irqs' = irqs \ {at} /\ edges' = edges \ {at}
  /\ bphase' = "deleting"
  /\ UNCHANGED <<at, allocated, taken, againvars, timevars, readvars, pin>>

(* A mutant of CloseTimer: the timer is left pending.                      *)
CloseTimer_KeepsTimer ==
  /\ InProcess /\ bphase = "deleting"
  /\ IF allocated
       THEN /\ bphase' = "closing" /\ at' = at + 1
            /\ UNCHANGED <<allocated, irqs, taken, againvars>>
       ELSE Oops
  /\ UNCHANGED <<timevars, readvars, pin, edges>>

(* A second open() that failed has freed the timers.                       *)
CloseTimer ==
  /\ InProcess /\ bphase = "deleting"
  /\ IF allocated
       THEN /\ timers' = timers \ {at}
            /\ bphase' = "closing" /\ at' = at + 1
            /\ UNCHANGED <<allocated, irqs, taken, againvars>>
       ELSE Oops /\ UNCHANGED timers
  /\ UNCHANGED <<status, strays, running, level, readvars, pin, edges>>

CloseDone ==
  /\ InProcess /\ bphase = "closing" /\ at = NButtons
  /\ bphase' = "closed" /\ allocated' = FALSE
  /\ UNCHANGED <<at, irqs, taken, againvars, timevars, readvars, pin, edges>>

-----------------------------------------------------------------------------
(* button_read(); without a press O_NONBLOCK returns at once.              *)

Reading(r, l) == InProcess /\ bphase = "open" /\ rpc[r] = l

ReadStart(r) ==
  /\ Reading(r, "idle")
  /\ rpc' = [rpc EXCEPT ![r] = IF ev_press THEN "clear" ELSE "wait"]
  /\ UNCHANGED <<openvars, timevars, ev_press, idx, unread, pin, edges>>

(* wait_event_interruptible() looks at the condition before it sleeps and  *)
(* each time it is woken.                                                  *)
ReadWait(r) ==
  /\ Reading(r, "wait")
  /\ rpc' = [rpc EXCEPT ![r] = IF ev_press THEN "clear" ELSE "asleep"]
  /\ UNCHANGED <<openvars, timevars, ev_press, idx, unread, pin, edges>>

(* A signal ends the wait too, and the result is not looked at.            *)
ReadSignalled(r) ==
  /\ Reading(r, "asleep") \/ Reading(r, "forgotten")
  /\ rpc' = [rpc EXCEPT ![r] = "clear"]
  /\ UNCHANGED <<openvars, timevars, ev_press, idx, unread, pin, edges>>

ReadClear(r) ==
  /\ Reading(r, "clear")
  /\ ev_press' = FALSE
  /\ rpc' = [rpc EXCEPT ![r] = "copy"]
  /\ UNCHANGED <<openvars, timevars, idx, unread, pin, edges>>

ReadOne(r) ==
  /\ Reading(r, "copy") /\ idx[r] < NButtons
  /\ unread' = unread \ {idx[r]}
  /\ idx' = [idx EXCEPT ![r] = @ + 1]
  /\ UNCHANGED <<openvars, timevars, ev_press, rpc, pin, edges>>

(* A mutant of ReadDone: the event is cleared after the copy.              *)
ReadDone_Clears(r) ==
  /\ Reading(r, "copy") /\ idx[r] = NButtons
  /\ rpc' = [rpc EXCEPT ![r] = "idle"] /\ ev_press' = FALSE
  /\ idx' = [idx EXCEPT ![r] = 0]
  /\ UNCHANGED <<openvars, timevars, unread, pin, edges>>

ReadDone(r) ==
  /\ Reading(r, "copy") /\ idx[r] = NButtons
  /\ rpc' = [rpc EXCEPT ![r] = "idle"]
  /\ idx' = [idx EXCEPT ![r] = 0]
  /\ UNCHANGED <<openvars, timevars, ev_press, unread, pin, edges>>

ReadStep(r) == ReadWait(r) \/ ReadClear(r) \/ ReadOne(r) \/ ReadDone(r)

-----------------------------------------------------------------------------
HandlerEnds == TimerLow \/ TimerHigh
ButtonTimer == HandlerEnds \/ \E b \in Buttons : Interrupt(b) \/ TimerFires(b)
ButtonOpen == OpenAlloc \/ OpenOne \/ OpenFails \/ UndoOne \/ UndoDone \/ OpenDone
ButtonOpenAgain == OpenAgain \/ AgainOne \/ AgainFails \/ AgainUndoes \/ AgainDone
ButtonClose == Close \/ CloseIrq \/ CloseTimer \/ CloseDone
ButtonRead == \E r \in Readers : ReadStart(r) \/ ReadSignalled(r) \/ ReadStep(r)

ButtonNext ==
  \/ ButtonTimer \/ ButtonOpen \/ ButtonOpenAgain \/ ButtonClose \/ ButtonRead
  \/ \E b \in Buttons : PinMoves(b)

ButtonSpec == ButtonInit /\ [][ButtonNext]_bvars

-----------------------------------------------------------------------------
(* Every variable of the driver keeps its type.                            *)
ButtonTypeOK ==
  /\ bphase \in {"closed", "opening", "undoing", "open", "closing", "deleting", "oops"}
  /\ at \in 0 .. NButtons
  /\ again \in {"no", "opening", "undoing", "done"} /\ at2 \in 0 .. NButtons
  /\ allocated \in BOOLEAN
  /\ irqs \subseteq Buttons /\ taken \subseteq Buttons
  /\ status \in [Buttons -> {"UP", "DOWN", "UNCERTAIN"}]
  /\ timers \subseteq Buttons /\ strays \subseteq Buttons
  /\ running \in Buttons \cup {NoButton}
  /\ level \in {"low", "high"}
  /\ ev_press \in BOOLEAN
  /\ rpc \in [Readers -> {"idle", "wait", "asleep", "forgotten", "clear", "copy"}]
  /\ idx \in [Readers -> 0 .. NButtons]
  /\ pin \in [Buttons -> {"low", "high"}]
  /\ edges \subseteq Buttons /\ unread \subseteq Buttons

(* A button that is not up, whose interrupts are therefore ignored, always *)
(* has a timer on its way that can set it up again: however interrupt and  *)
(* timer handler interleave while the contact bounces, no button goes deaf.*)
ButtonNotDeaf ==
  bphase \in {"opening", "open"} =>
    \A b \in Buttons : status[b] = "UP" \/ b \in timers \/ running = b

(* No press slips between the event and the copy: as long as no read() has *)
(* looked at a button since it was pressed, ev_press is set or some read() *)
(* that cleared it has yet to come to that button.                         *)
PressNotLost ==
  \A b \in unread : ev_press \/ \E r \in Readers : rpc[r] = "copy" /\ idx[r] <= b

(* What is freed is left alone: without memory for them no interrupt is    *)
(* requested and no timer pending, except what an open() that failed       *)
(* leaves behind, which is the first button's, of all it had requested.    *)
(* Until a second open() comes: where release() has freed the first        *)
(* button's interrupt it gets that one, fails at the next, frees what      *)
(* release() still uses and leaves the interrupt requested.                *)
FreedIsUnused ==
  bphase = "closed" /\ again = "no" => /\ irqs \subseteq {0}
                                       /\ irqs = {} => timers = {}
                                       /\ taken = {} => irqs = {}

(* A reader that waits for a press does not sleep through one, unless a    *)
(* second open() has emptied the queue it waits in.                        *)
PressIsRead ==
  (ev_press /\ \E r \in Readers : rpc[r] \in {"wait", "asleep"})
    ~> (~ev_press \/ bphase = "oops" \/ again # "no")
=============================================================================
