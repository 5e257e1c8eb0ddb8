------------------------------- MODULE Keypad -------------------------------
(***************************************************************************)
(* The keypad driver (driver/input_kbd/kbd_driver.c): every edge of a      *)
(* key's pin sets the key's timer anew, and the timer's handler reports    *)
(* the level it finds to the input layer.  probe() requests the interrupts *)
(* before it tells pdev about s3c_kbd, and remove() deletes a timer before *)
(* it frees the interrupt that sets it.  "oops" is the kernel that         *)
(* followed a bad pointer.                                                 *)
(***************************************************************************)
EXTENDS Integers, FiniteSets

CONSTANT NKeys (* pdata->nkeys *)

ASSUME KeypadAssumption == NKeys \in Nat \ {0}

Keys == 0 .. (NKeys - 1)
NoKey == -1

VARIABLES
  kphase,      (* how far probe() or remove() is                           *)
  key,         (* their loop's index                                       *)
  drvdata,     (* whether pdev's driver data is that s3c_kbd, and not NULL *)
               (* or one that is freed                                     *)
  kirqs,       (* the keys whose interrupt is requested                    *)
  ktaken,      (* the keys whose interrupt another driver has              *)
  ktimers,     (* the keys whose timer is pending                          *)
  wild,        (* the keys whose timer is pending in memory that is freed  *)
  krunning,    (* the key whose timer handler runs                         *)
  pinval,      (* what it has read                                         *)
  kpin,        (* the level of each pin                                    *)
  kedges,      (* the keys whose edge waits for its interrupt              *)
  told,        (* what the input layer was told last about each key        *)
  late         (* the keys whose interrupt came between del_timer() and    *)
               (* free_irq()                                               *)

probevars == <<kphase, key, drvdata, kirqs, ktaken>>
handlervars == <<ktimers, wild, krunning, pinval, told, late>>
kvars == <<probevars, handlervars, kpin, kedges>>

KeypadInit ==
  /\ kphase = "unbound" /\ key = 0 /\ drvdata = FALSE
  /\ kirqs = {} /\ ktaken \in SUBSET Keys
  /\ ktimers = {} /\ wild = {} /\ krunning = NoKey /\ pinval = "high"
  /\ kpin = [k \in Keys |-> "high"] /\ kedges = {}
  /\ told = [k \in Keys |-> "nothing"]
  /\ late = {}

KInProcess == krunning = NoKey /\ kphase # "oops"

KOops == kphase' = "oops" /\ UNCHANGED <<key, drvdata, kirqs, ktaken>>

-----------------------------------------------------------------------------
(* A key is pressed, released, or bounces; both edges interrupt.           *)
KeyMoves(k) ==
  /\ kphase # "oops"
  /\ kpin' = [kpin EXCEPT ![k] = IF @ = "high" THEN "low" ELSE "high"]
  /\ kedges' = kedges \cup ({k} \cap kirqs)
  /\ UNCHANGED <<probevars, handlervars>>

(* A mutant of KeyInterrupt: a timer that is pending or running is not set *)
(* anew.                                                                   *)
KeyInterrupt_Once(k) ==
  /\ kphase # "oops" /\ k \in kedges
  /\ kedges' = kedges \ {k}
  /\ IF drvdata
       THEN /\ UNCHANGED probevars
            /\ ktimers' = IF krunning = k THEN ktimers ELSE ktimers \cup {k}
            /\ late' = IF kphase = "deleted" /\ key = k THEN late \cup {k} ELSE late
       ELSE KOops /\ UNCHANGED <<ktimers, late>>
  /\ UNCHANGED <<wild, krunning, pinval, told, kpin>>

(* s3c_kbd_intterupt() goes by the driver data.                            *)
KeyInterrupt(k) ==
  /\ kphase # "oops" /\ k \in kedges
  /\ kedges' = kedges \ {k}
  /\ IF drvdata
       THEN /\ UNCHANGED probevars
            /\ ktimers' = ktimers \cup {k}
            /\ late' = IF kphase = "deleted" /\ key = k THEN late \cup {k} ELSE late
       ELSE KOops /\ UNCHANGED <<ktimers, late>>
  /\ UNCHANGED <<wild, krunning, pinval, told, kpin>>

(* cancel_dithering_timer_handler() reads the pin                          *)
KeyTimerFires(k) ==
  /\ KInProcess /\ k \in ktimers
  /\ ktimers' = ktimers \ {k}
  /\ krunning' = k /\ pinval' = kpin[k]
  /\ UNCHANGED <<probevars, wild, told, late, kpin, kedges>>

(* and reports it.                                                         *)
KeyReported ==
  /\ krunning # NoKey
  /\ told' = [told EXCEPT ![krunning] = pinval]
  /\ krunning' = NoKey /\ pinval' = "high"
  /\ UNCHANGED <<probevars, ktimers, wild, late, kpin, kedges>>

(* The timer wheel follows a timer that is freed.                          *)
WildTimerFires ==
  /\ KInProcess /\ wild # {}
  /\ KOops
  /\ UNCHANGED <<handlervars, kpin, kedges>>

-----------------------------------------------------------------------------
(* s3c_kbd_probe(); without memory it frees what it has and fails.         *)

ProbeAlloc ==
  /\ KInProcess /\ kphase = "unbound"
  /\ kphase' = "probing" /\ key' = 0
  /\ told' = [k \in Keys |-> "nothing"]
  /\ UNCHANGED <<drvdata, kirqs, ktaken, ktimers, wild, krunning, pinval, late, kpin, kedges>>

(* A mutant of ProbeOne: the loop goes one too far.                        *)
ProbeOne_OneMore ==
  /\ KInProcess /\ kphase = "probing" /\ key \in (0 .. NKeys) \ ktaken
  /\ kirqs' = kirqs \cup {key} /\ key' = key + 1
  /\ UNCHANGED <<kphase, drvdata, ktaken, handlervars, kpin, kedges>>

ProbeOne ==
  /\ KInProcess /\ kphase = "probing" /\ key \in Keys \ ktaken
  /\ kirqs' = kirqs \cup {key} /\ key' = key + 1
  /\ UNCHANGED <<kphase, drvdata, ktaken, handlervars, kpin, kedges>>

(* request_irq() fails, or input_register_device() after the last key.     *)
ProbeFails ==
  /\ KInProcess /\ kphase = "probing" /\ key \in ktaken \cup {NKeys}
  /\ kphase' = "failed"
  /\ UNCHANGED <<key, drvdata, kirqs, ktaken, handlervars, kpin, kedges>>

(* free_irq() and then del_timer(): without the interrupt nothing sets the *)
(* timer in between.                                                       *)
FailOne ==
  /\ KInProcess /\ kphase = "failed" /\ key > 0
  /\ key' = key - 1
  /\ kirqs' = kirqs \ {key - 1} /\ kedges' = kedges \ {key - 1}
  /\ ktimers' = ktimers \ {key - 1}
  /\ UNCHANGED <<kphase, drvdata, ktaken, wild, krunning, pinval, told, late, kpin>>

FailDone ==
  /\ KInProcess /\ kphase = "failed" /\ key = 0
  /\ kphase' = "unbound"
  /\ UNCHANGED <<key, drvdata, kirqs, ktaken, handlervars, kpin, kedges>>

ProbeDone ==
  /\ KInProcess /\ kphase = "probing" /\ key = NKeys
  /\ kphase' = "bound" /\ drvdata' = TRUE
  /\ UNCHANGED <<key, kirqs, ktaken, handlervars, kpin, kedges>>

-----------------------------------------------------------------------------
(* s3c_kbd_remove()                                                        *)

Remove ==
  /\ KInProcess /\ kphase = "bound"
  /\ kphase' = "removing" /\ key' = 0
  /\ UNCHANGED <<drvdata, kirqs, ktaken, handlervars, kpin, kedges>>

(* A mutant of RemoveTimer: the timer is left pending.                     *)
RemoveTimer_Keeps ==
  /\ KInProcess /\ kphase = "removing" /\ key < NKeys
  /\ kphase' = "deleted"
  /\ UNCHANGED <<key, drvdata, kirqs, ktaken, handlervars, kpin, kedges>>

RemoveTimer ==
  /\ KInProcess /\ kphase = "removing" /\ key < NKeys
  /\ ktimers' = ktimers \ {key}
  /\ kphase' = "deleted"
  /\ UNCHANGED <<key, drvdata, kirqs, ktaken, wild, krunning, pinval, told, late, kpin, kedges>>

RemoveIrq ==
  /\ KInProcess /\ kphase = "deleted"
  /\ kirqs' = kirqs \ {key} /\ kedges' = kedges \ {key}
  /\ kphase' = "removing" /\ key' = key + 1
  /\ UNCHANGED <<drvdata, ktaken, handlervars, kpin>>

(* From here on, where input_dev and then the timers are freed, a timer    *)
(* that is left has nothing to go by.                                      *)
RemoveDone ==
  /\ KInProcess /\ kphase = "removing" /\ key = NKeys
  /\ kphase' = "unbound" /\ drvdata' = FALSE
  /\ wild' = wild \cup ktimers /\ ktimers' = {}
  /\ UNCHANGED <<key, kirqs, ktaken, krunning, pinval, told, late, kpin, kedges>>

-----------------------------------------------------------------------------
KeypadHandlers == KeyReported \/ WildTimerFires \/ \E k \in Keys : KeyInterrupt(k) \/ KeyTimerFires(k)
Probe == ProbeAlloc \/ ProbeOne \/ ProbeFails \/ FailOne \/ FailDone \/ ProbeDone
RemoveSteps == Remove \/ RemoveTimer \/ RemoveIrq \/ RemoveDone

KeypadNext == KeypadHandlers \/ Probe \/ RemoveSteps \/ \E k \in Keys : KeyMoves(k)

KeypadSpec == KeypadInit /\ [][KeypadNext]_kvars

-----------------------------------------------------------------------------
(* Every variable of the driver keeps its type.                            *)
KeypadTypeOK ==
  /\ kphase \in {"unbound", "probing", "failed", "bound", "removing", "deleted", "oops"}
  /\ key \in 0 .. NKeys
  /\ drvdata \in BOOLEAN
  /\ kirqs \subseteq Keys /\ ktaken \subseteq Keys
  /\ ktimers \subseteq Keys /\ wild \subseteq Keys /\ krunning \in Keys \cup {NoKey}
  /\ pinval \in {"low", "high"}
  /\ kpin \in [Keys -> {"low", "high"}]
  /\ kedges \subseteq Keys
  /\ told \in [Keys -> {"nothing", "low", "high"}]
  /\ late \subseteq Keys

(* The key the input layer believes held is held, and the one it believes  *)
(* released is: where the last report and the pin differ, an interrupt, a  *)
(* timer or a running handler is about to set that right, however the      *)
(* contact bounces while the handler reads it.  A key that no longer       *)
(* repeats, or repeats for ever, would be one for which this fails.        *)
ReportFollowsPin ==
  kphase = "bound" =>
    \A k \in Keys :
      \/ told[k] \in {"nothing", kpin[k]}
      \/ k \in kedges \cup ktimers
      \/ krunning = k /\ pinval = kpin[k]

(* The one thing that outlives the driver's memory is a timer that an      *)
(* interrupt set between del_timer() and free_irq() of its key: no other   *)
(* timer and no interrupt is left when probe() has failed or remove() has  *)
(* returned.                                                               *)
OnlyLateTimersLeft ==
  kphase = "unbound" => kirqs = {} /\ ktimers = {} /\ wild \subseteq late
=============================================================================
