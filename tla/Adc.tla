--------------------------------- MODULE Adc ---------------------------------
(***************************************************************************)
(* The ADC driver (driver/dev_adc.c): read() starts a conversion, sleeps   *)
(* until the interrupt says that there is a sample, and copies it, all     *)
(* under the mutex ADC_LOCK.  The touchscreen has the same interrupt.      *)
(* Samples are told apart by the read() that started their conversion.     *)
(***************************************************************************)
EXTENDS FiniteSets

CONSTANTS
  Users,       (* the threads that read()                                  *)
  NoUser,
  Old          (* the read() of a sample whose read() has returned         *)

ASSUME AdcAssumption == NoUser \notin Users /\ Old \notin Users \cup {NoUser}

VARIABLES
  nonblock,    (* the users whose file has O_NONBLOCK                      *)
  signals,     (* whether signals reach the users                          *)
  touch,       (* whether the touchscreen is used                          *)
  ADC_LOCK,    (* the user that holds the mutex                            *)
  ev_adc,
  adc_data,
  apc,         (* where each user is                                       *)
  converting,  (* the read() that started the running conversion           *)
  ADCDAT0,     (* the converter's data register                            *)
  intr         (* whether the interrupt is pending                         *)

modevars == <<nonblock, signals, touch>>
uservars == <<ADC_LOCK, apc>>
adcvars == <<modevars, uservars, ev_adc, adc_data, converting, ADCDAT0, intr>>

AdcInit ==
  /\ nonblock \in SUBSET Users /\ signals \in BOOLEAN /\ touch \in BOOLEAN
  /\ ADC_LOCK = NoUser /\ apc = [u \in Users |-> "idle"]
  /\ ev_adc = FALSE /\ adc_data = Old
  /\ converting = NoUser /\ ADCDAT0 = Old /\ intr = FALSE

-----------------------------------------------------------------------------
(* The converter and the touchscreen                                       *)

ConversionEnds ==
  /\ converting # NoUser
  /\ ADCDAT0' = converting /\ converting' = NoUser
  /\ intr' = TRUE
  /\ UNCHANGED <<modevars, uservars, ev_adc, adc_data>>

Touched ==
  /\ touch
  /\ intr' = TRUE
  /\ UNCHANGED <<modevars, uservars, ev_adc, adc_data, converting, ADCDAT0>>

(* A mutant of AdcInterrupt: the sleeper is not woken.                     *)
AdcInterrupt_NoWake ==
  /\ intr /\ intr' = FALSE
  /\ ev_adc' = TRUE
  /\ adc_data' = IF ev_adc THEN adc_data ELSE ADCDAT0
  /\ UNCHANGED <<modevars, uservars, converting, ADCDAT0>>

(* adc_irq() keeps a sample that has not been read.                        *)
AdcInterrupt ==
  /\ intr /\ intr' = FALSE
  /\ IF ev_adc
       THEN UNCHANGED <<ev_adc, adc_data, apc>>
       ELSE /\ adc_data' = ADCDAT0 /\ ev_adc' = TRUE
            /\ apc' = [u \in Users |-> IF apc[u] = "asleep" THEN "wait" ELSE apc[u]]
  /\ UNCHANGED <<modevars, ADC_LOCK, converting, ADCDAT0>>

-----------------------------------------------------------------------------
(* adc_read()                                                              *)

AdcGoto(u, l) == apc' = [apc EXCEPT ![u] = l]

AdcCall(u) ==
  /\ apc[u] = "idle"
  /\ AdcGoto(u, "lock")
  /\ UNCHANGED <<modevars, ADC_LOCK, ev_adc, adc_data, converting, ADCDAT0, intr>>

AdcLock(u) ==
  /\ apc[u] = "lock" /\ ADC_LOCK = NoUser
  /\ ADC_LOCK' = u
  /\ AdcGoto(u, "test")
  /\ UNCHANGED <<modevars, ev_adc, adc_data, converting, ADCDAT0, intr>>

AdcHasData(u) ==
  /\ apc[u] = "test" /\ ev_adc
  /\ AdcGoto(u, "clear")
  /\ UNCHANGED <<modevars, ADC_LOCK, ev_adc, adc_data, converting, ADCDAT0, intr>>

(* -EAGAIN is returned with the mutex held.                                *)
AdcAgain(u) ==
  /\ apc[u] = "test" /\ ~ev_adc /\ u \in nonblock
  /\ AdcGoto(u, "idle")
  /\ UNCHANGED <<modevars, ADC_LOCK, ev_adc, adc_data, converting, ADCDAT0, intr>>

(* start_adc(); a conversion that runs is started anew.                    *)
AdcStart(u) ==
  /\ apc[u] = "test" /\ ~ev_adc /\ u \notin nonblock
  /\ converting' = u
  /\ AdcGoto(u, "wait")
  /\ UNCHANGED <<modevars, ADC_LOCK, ev_adc, adc_data, ADCDAT0, intr>>

(* wait_event_interruptible()                                              *)
AdcWait(u) ==
  /\ apc[u] = "wait"
  /\ AdcGoto(u, IF ev_adc THEN "clear" ELSE "asleep")
  /\ UNCHANGED <<modevars, ADC_LOCK, ev_adc, adc_data, converting, ADCDAT0, intr>>

AdcSignalled(u) ==
  /\ apc[u] = "asleep" /\ signals
  /\ AdcGoto(u, "clear")
  /\ UNCHANGED <<modevars, ADC_LOCK, ev_adc, adc_data, converting, ADCDAT0, intr>>

(* A mutant of AdcClear: the sample stays marked as not read.              *)
AdcClear_Keeps(u) ==
  /\ apc[u] = "clear"
  /\ AdcGoto(u, "copy")
  /\ UNCHANGED <<modevars, ADC_LOCK, ev_adc, adc_data, converting, ADCDAT0, intr>>

AdcClear(u) ==
  /\ apc[u] = "clear"
  /\ ev_adc' = FALSE
  /\ AdcGoto(u, "copy")
  /\ UNCHANGED <<modevars, ADC_LOCK, adc_data, converting, ADCDAT0, intr>>

Aged(u, tag) == IF tag = u THEN Old ELSE tag

(* copy_to_user() and mutex_unlock(): the samples of this read() are old.  *)
AdcUnlock(u) ==
  /\ apc[u] = "copy"
  /\ ADC_LOCK' = NoUser
  /\ AdcGoto(u, "idle")
  /\ adc_data' = Aged(u, adc_data) /\ ADCDAT0' = Aged(u, ADCDAT0)
  /\ converting' = Aged(u, converting)
  /\ UNCHANGED <<modevars, ev_adc, intr>>

AdcStep(u) ==
  \/ AdcLock(u) \/ AdcHasData(u) \/ AdcAgain(u) \/ AdcStart(u)
  \/ AdcWait(u) \/ AdcClear(u) \/ AdcUnlock(u)

AdcHardware == ConversionEnds \/ AdcInterrupt

AdcNext ==
  \/ AdcHardware \/ Touched
  \/ \E u \in Users : AdcCall(u) \/ AdcSignalled(u) \/ AdcStep(u)

AdcSpec == AdcInit /\ [][AdcNext]_adcvars

-----------------------------------------------------------------------------
(* Every variable of the driver keeps its type.                            *)
AdcTypeOK ==
  /\ nonblock \subseteq Users /\ signals \in BOOLEAN /\ touch \in BOOLEAN
  /\ ADC_LOCK \in Users \cup {NoUser}
  /\ ev_adc \in BOOLEAN /\ intr \in BOOLEAN
  /\ apc \in [Users -> {"idle", "lock", "test", "wait", "asleep", "clear", "copy"}]
  /\ {adc_data, ADCDAT0} \subseteq Users \cup {Old}
  /\ converting \in Users \cup {Old, NoUser}

(* A read() returns the sample of the conversion it started, and no two    *)
(* read()s the same one, unless the touchscreen interrupts or a signal     *)
(* makes a read() leave its conversion behind for the next one.            *)
ReadIsFresh ==
  ~signals /\ ~touch => \A u \in Users : apc[u] = "copy" => adc_data = u

(* The read() that has the mutex returns and gives it back, if no file is  *)
(* O_NONBLOCK: no interrupt is lost between the start of the conversion    *)
(* and the sleep.                                                          *)
AdcLockReleased ==
  (nonblock = {} /\ ADC_LOCK # NoUser) ~> (ADC_LOCK = NoUser)

(* "Getting here means that there is converted data": dev_adc.c:119.       *)
HereIsData ==
  \A u \in Users : apc[u] = "clear" => ev_adc
=============================================================================
