--------------------------- MODULE Drivers_proofs ---------------------------
(***************************************************************************)
(* What holds of the drivers for every value of their constants.           *)
(***************************************************************************)
EXTENDS MCDrivers, TLAPS

-----------------------------------------------------------------------------
(* The ADC driver.  The mutex keeps all but one read() out of everything   *)
(* between the test and the copy (Locked).  Where neither signals nor the  *)
(* touchscreen interfere, what is under way - a conversion, its interrupt, *)
(* a sample nobody has read - belongs to that read() (Own).                *)

Locked ==
  \A u \in Users : apc[u] \in {"test", "wait", "asleep", "clear", "copy"} => ADC_LOCK = u

Await(u) == apc[u] \in {"wait", "asleep"}

Own ==
  /\ intr => ~ev_adc /\ converting = NoUser /\ \E u \in Users : Await(u) /\ ADCDAT0 = u
  /\ converting # NoUser => ~ev_adc /\ ~intr /\ \E u \in Users : Await(u) /\ converting = u
  /\ ev_adc => \E u \in Users : (Await(u) \/ apc[u] = "clear") /\ adc_data = u
  /\ \A u \in Users : apc[u] = "clear" => ev_adc
  /\ \A u \in Users : apc[u] = "copy" => ~ev_adc /\ adc_data = u

AdcInv == AdcTypeOK /\ Locked /\ (~signals /\ ~touch => Own)

(* Every step keeps every variable of the ADC driver in its type.          *)
LEMMA AdcTypeStep == AdcTypeOK /\ [AdcNext]_adcvars => AdcTypeOK'
<1> SUFFICES ASSUME AdcTypeOK, [AdcNext]_adcvars
             PROVE  AdcTypeOK'
  OBVIOUS
<1> USE DEF AdcTypeOK, modevars, uservars, AdcGoto
<1>1. CASE UNCHANGED adcvars
  BY <1>1 DEF adcvars
<1>2. CASE ConversionEnds
  BY <1>2, AdcAssumption DEF ConversionEnds
<1>3. CASE AdcInterrupt \/ Touched
  BY <1>3 DEF AdcInterrupt, Touched
<1>4. ASSUME NEW u \in Users, AdcCall(u) \/ AdcLock(u) \/ AdcHasData(u) \/ AdcAgain(u)
      PROVE  AdcTypeOK'
  BY <1>4 DEF AdcCall, AdcLock, AdcHasData, AdcAgain
<1>5. ASSUME NEW u \in Users, AdcStart(u) \/ AdcWait(u) \/ AdcSignalled(u) \/ AdcClear(u)
      PROVE  AdcTypeOK'
  BY <1>5 DEF AdcStart, AdcWait, AdcSignalled, AdcClear
<1>6. ASSUME NEW u \in Users, AdcUnlock(u)
      PROVE  AdcTypeOK'
  BY <1>6 DEF AdcUnlock, Aged
<1> QED
  BY <1>1, <1>2, <1>3, <1>4, <1>5, <1>6 DEF AdcNext, AdcHardware, AdcStep

(* Only a read() that has the mutex is between taking and giving it.       *)
LEMMA LockedStep == AdcTypeOK /\ Locked /\ [AdcNext]_adcvars => Locked'
<1> SUFFICES ASSUME AdcTypeOK, Locked, [AdcNext]_adcvars
             PROVE  Locked'
  OBVIOUS
<1> USE DEF AdcTypeOK, Locked, modevars, uservars, AdcGoto
<1>1. CASE UNCHANGED adcvars
  BY <1>1 DEF adcvars
<1>2. CASE AdcHardware \/ Touched
  BY <1>2 DEF AdcHardware, ConversionEnds, AdcInterrupt, Touched
<1>3. ASSUME NEW u \in Users, AdcCall(u) \/ AdcHasData(u) \/ AdcAgain(u) \/ AdcStart(u)
      PROVE  Locked'
  BY <1>3 DEF AdcCall, AdcHasData, AdcAgain, AdcStart
<1>4. ASSUME NEW u \in Users, AdcWait(u) \/ AdcSignalled(u) \/ AdcClear(u)
      PROVE  Locked'
  BY <1>4 DEF AdcWait, AdcSignalled, AdcClear
<1>5. ASSUME NEW u \in Users, AdcLock(u)
      PROVE  Locked'
  BY <1>5, AdcAssumption DEF AdcLock
<1>6. ASSUME NEW u \in Users, AdcUnlock(u)
      PROVE  Locked'
  BY <1>6 DEF AdcUnlock
<1> QED
  BY <1>1, <1>2, <1>3, <1>4, <1>5, <1>6 DEF AdcNext, AdcStep

(* A conversion belongs to the read() that has the mutex, unless a signal  *)
(* or a touch has come between.                                            *)
LEMMA OwnStep ==
  AdcTypeOK /\ Locked /\ Own /\ ~signals /\ ~touch /\ [AdcNext]_adcvars => Own'
<1> SUFFICES ASSUME AdcTypeOK, Locked, Own, ~signals, ~touch, [AdcNext]_adcvars
             PROVE  Own'
  OBVIOUS
<1> USE DEF AdcTypeOK, Locked, Own, Await, modevars, uservars, AdcGoto
<1>1. CASE UNCHANGED adcvars
  BY <1>1 DEF adcvars
<1>2. CASE ConversionEnds
  <2>1. PICK u \in Users : Await(u) /\ converting = u
    BY <1>2 DEF ConversionEnds
  <2> QED
    BY <1>2, <2>1 DEF ConversionEnds
<1>3. CASE AdcInterrupt
  <2>1. PICK u \in Users : Await(u) /\ ADCDAT0 = u
    BY <1>3 DEF AdcInterrupt
  <2>2. \A v \in Users : apc[v] \notin {"clear", "copy"}
    BY <2>1
  <2> QED
    BY <1>3, <2>1, <2>2 DEF AdcInterrupt
<1>4. ASSUME NEW u \in Users, AdcCall(u)
      PROVE  Own'
  BY <1>4 DEF AdcCall
<1>5. ASSUME NEW u \in Users, AdcLock(u)
      PROVE  Own'
  BY <1>5 DEF AdcLock
<1>6. ASSUME NEW u \in Users, AdcHasData(u)
      PROVE  Own'
  BY <1>6 DEF AdcHasData
<1>7. ASSUME NEW u \in Users, AdcAgain(u)
      PROVE  Own'
  BY <1>7 DEF AdcAgain
<1>8. ASSUME NEW u \in Users, AdcStart(u)
      PROVE  Own'
  <2>1. ~intr /\ ~ev_adc
    BY <1>8 DEF AdcStart
  <2> QED
    BY <1>8, <2>1 DEF AdcStart
<1>9. ASSUME NEW u \in Users, AdcWait(u)
      PROVE  Own'
  BY <1>9 DEF AdcWait
<1>10. ASSUME NEW u \in Users, AdcClear(u)
       PROVE  Own'
  <2>1. ev_adc /\ adc_data = u /\ ~intr /\ converting = NoUser
    BY <1>10 DEF AdcClear
  <2> QED
    BY <1>10, <2>1 DEF AdcClear
<1>11. ASSUME NEW u \in Users, AdcUnlock(u)
       PROVE  Own'
  <2>1. ~ev_adc /\ ~intr /\ converting = NoUser
    BY <1>11 DEF AdcUnlock
  <2> QED
    BY <1>11, <2>1, AdcAssumption DEF AdcUnlock, Aged
<1>12. ~Touched /\ \A u \in Users : ~AdcSignalled(u)
  BY DEF Touched, AdcSignalled
<1> QED
  BY <1>1, <1>2, <1>3, <1>4, <1>5, <1>6, <1>7, <1>8, <1>9, <1>10, <1>11, <1>12
     DEF AdcNext, AdcHardware, AdcStep

(* The three together are an invariant of the ADC driver.                  *)
LEMMA AdcInductive == AdcSpec => []AdcInv
<1>1. AdcInit => AdcInv
  BY AdcAssumption DEF AdcInit, AdcInv, AdcTypeOK, Locked, Own
<1>2. AdcInv /\ [AdcNext]_adcvars => AdcInv'
  <2> SUFFICES ASSUME AdcInv, [AdcNext]_adcvars
               PROVE  AdcInv'
    OBVIOUS
  <2>1. UNCHANGED <<signals, touch>>
    BY DEF AdcNext, AdcHardware, AdcStep, adcvars, modevars, ConversionEnds, AdcInterrupt, Touched,
           AdcCall, AdcSignalled, AdcLock, AdcHasData, AdcAgain, AdcStart, AdcWait, AdcClear, AdcUnlock
  <2> QED
    BY <2>1, AdcTypeStep, LockedStep, OwnStep DEF AdcInv
<1> QED
  BY <1>1, <1>2, PTL DEF AdcSpec

(* adc_read() returns the sample of the conversion it has started, as long *)
(* as no signal and no touch comes between.                                *)
THEOREM SampleFresh == AdcSpec => []ReadIsFresh
<1>1. AdcInv => ReadIsFresh
  BY DEF AdcInv, Own, ReadIsFresh
<1> QED
  BY <1>1, AdcInductive, PTL

(* Two read()s are never between mutex_lock() and mutex_unlock() together, *)
(* not even after -EAGAIN has been returned with the mutex held.           *)
InRegion(u) == apc[u] \in {"test", "wait", "asleep", "clear", "copy"}

OneInRegion == \A u, v \in Users : InRegion(u) /\ InRegion(v) => u = v

THEOREM ReadersApart == AdcSpec => []OneInRegion
<1>1. AdcInv => OneInRegion
  BY DEF AdcInv, Locked, OneInRegion, InRegion
<1> QED
  BY <1>1, AdcInductive, PTL

(* Why no wake-up is lost, whatever signals, touches and O_NONBLOCK do: a  *)
(* read() is asleep only while there is no sample, and one that waits has  *)
(* a sample, an interrupt or a conversion that will end in one.            *)
SleeperIsWoken ==
  \A u \in Users :
    /\ apc[u] = "asleep" => ~ev_adc
    /\ Await(u) => ev_adc \/ intr \/ converting # NoUser

(* Only AdcClear() takes a sample away, and then nobody else waits.        *)
LEMMA SleeperStep == AdcInv /\ SleeperIsWoken /\ [AdcNext]_adcvars => SleeperIsWoken'
<1> SUFFICES ASSUME AdcInv, SleeperIsWoken, [AdcNext]_adcvars
             PROVE  SleeperIsWoken'
  OBVIOUS
<1> USE AdcAssumption DEF AdcInv, AdcTypeOK, SleeperIsWoken, Await, modevars, uservars, AdcGoto
<1>1. CASE UNCHANGED adcvars
  BY <1>1 DEF adcvars
<1>2. CASE ConversionEnds \/ Touched
  BY <1>2 DEF ConversionEnds, Touched
<1>3. CASE AdcInterrupt
  BY <1>3 DEF AdcInterrupt
<1>4. ASSUME NEW u \in Users, AdcCall(u) \/ AdcLock(u) \/ AdcHasData(u) \/ AdcAgain(u)
      PROVE  SleeperIsWoken'
  BY <1>4 DEF AdcCall, AdcLock, AdcHasData, AdcAgain
<1>5. ASSUME NEW u \in Users, AdcStart(u)
      PROVE  SleeperIsWoken'
  BY <1>5 DEF AdcStart
<1>6. ASSUME NEW u \in Users, AdcWait(u) \/ AdcSignalled(u)
      PROVE  SleeperIsWoken'
  BY <1>6 DEF AdcWait, AdcSignalled
<1>7. ASSUME NEW u \in Users, AdcClear(u)
      PROVE  SleeperIsWoken'
  <2>1. \A v \in Users : v # u => apc[v] \in {"idle", "lock"}
    BY <1>7 DEF AdcClear, Locked
  <2> QED
    BY <1>7, <2>1 DEF AdcClear
<1>8. ASSUME NEW u \in Users, AdcUnlock(u)
      PROVE  SleeperIsWoken'
  BY <1>8 DEF AdcUnlock, Aged
<1> QED
  BY <1>1, <1>2, <1>3, <1>4, <1>5, <1>6, <1>7, <1>8 DEF AdcNext, AdcHardware, AdcStep

(* wait_event_interruptible() never sleeps through the interrupt it waits  *)
(* for: the safety half of AdcLockReleased.                                *)
THEOREM NoneSleepsOn == AdcSpec => []SleeperIsWoken
<1>1. AdcInit => SleeperIsWoken
  BY DEF AdcInit, SleeperIsWoken, Await
<1> QED
  BY <1>1, SleeperStep, AdcInductive, PTL DEF AdcSpec
-----------------------------------------------------------------------------
(* The keypad driver.  KeyLoops says which interrupts and timers there are *)
(* while probe() and remove() go through the keys; Reported, why the       *)
(* report of a bound keypad follows the pin: a handler that has read what  *)
(* the pin no longer is has an edge or a timer coming after it.            *)

KeyLoops ==
  /\ kedges \subseteq kirqs
  /\ wild \subseteq late
  /\ kphase \in {"unbound", "probing", "failed"} => ~drvdata /\ krunning = NoKey /\ ktimers = {}
  /\ kphase = "unbound" => kirqs = {}
  /\ kphase \in {"probing", "failed"} => kirqs = {k \in Keys : k < key}
  /\ kphase = "probing" => \A k \in Keys : told[k] = "nothing"
  /\ kphase = "bound" => kirqs = Keys
  /\ kphase \in {"removing", "deleted"} =>
       /\ kirqs = {k \in Keys : k >= key}
       /\ \A k \in ktimers : k < key => k \in late
  /\ kphase = "deleted" => key < NKeys /\ (key \in ktimers => key \in late)

Reported ==
  kphase = "bound" =>
    \A k \in Keys :
      \/ k \in kedges \cup ktimers
      \/ krunning = k /\ pinval = kpin[k]
      \/ krunning # k /\ told[k] \in {"nothing", kpin[k]}

KeyInv == KeypadTypeOK /\ KeyLoops /\ Reported

(* Every step keeps every variable of the keypad driver in its type.       *)
LEMMA KeypadTypeStep == KeypadTypeOK /\ KeyLoops /\ [KeypadNext]_kvars => KeypadTypeOK'
<1> SUFFICES ASSUME KeypadTypeOK, KeyLoops, [KeypadNext]_kvars
             PROVE  KeypadTypeOK'
  OBVIOUS
<1> USE KeypadAssumption DEF KeypadTypeOK, Keys, NoKey, probevars, handlervars, KOops
<1>1. CASE UNCHANGED kvars
  BY <1>1 DEF kvars
<1>2. ASSUME NEW k \in Keys, KeyMoves(k)
      PROVE  KeypadTypeOK'
  BY <1>2 DEF KeyMoves
<1>3. ASSUME NEW k \in Keys, KeyInterrupt(k)
      PROVE  KeypadTypeOK'
  BY <1>3 DEF KeyInterrupt
<1>4. ASSUME NEW k \in Keys, KeyTimerFires(k)
      PROVE  KeypadTypeOK'
  BY <1>4 DEF KeyTimerFires
<1>5. CASE KeyReported \/ WildTimerFires
  BY <1>5 DEF KeyReported, WildTimerFires
<1>6. CASE ProbeAlloc
  BY <1>6 DEF ProbeAlloc
<1>7. CASE ProbeOne
  BY <1>7 DEF ProbeOne
<1>8. CASE ProbeFails
  BY <1>8 DEF ProbeFails
<1>9. CASE FailOne
  BY <1>9 DEF FailOne
<1>10. CASE FailDone
  BY <1>10 DEF FailDone
<1>11. CASE ProbeDone
  BY <1>11 DEF ProbeDone
<1>12. CASE Remove
  BY <1>12 DEF Remove
<1>13. CASE RemoveTimer
  BY <1>13 DEF RemoveTimer
<1>14. CASE RemoveIrq
  BY <1>14 DEF RemoveIrq, KeyLoops
<1>15. CASE RemoveDone
  BY <1>15 DEF RemoveDone
<1> QED
  BY <1>1, <1>2, <1>3, <1>4, <1>5, <1>6, <1>7, <1>8, <1>9, <1>10, <1>11, <1>12, <1>13, <1>14, <1>15
     DEF KeypadNext, KeypadHandlers, Probe, RemoveSteps

(* probe() and remove() are where their loops say, and have done with the  *)
(* keys before.                                                            *)
LEMMA KeyLoopsStep == KeypadTypeOK /\ KeyLoops /\ [KeypadNext]_kvars => KeyLoops'
<1> SUFFICES ASSUME KeypadTypeOK, KeyLoops, [KeypadNext]_kvars
             PROVE  KeyLoops'
  OBVIOUS
<1> USE KeypadAssumption DEF KeypadTypeOK, KeyLoops, Keys, NoKey, probevars, handlervars, KOops, KInProcess
<1>1. CASE UNCHANGED kvars
  BY <1>1 DEF kvars
<1>2. ASSUME NEW k \in Keys, KeyMoves(k)
      PROVE  KeyLoops'
  BY <1>2 DEF KeyMoves
<1>3. ASSUME NEW k \in Keys, KeyInterrupt(k)
      PROVE  KeyLoops'
  <2>1. CASE ~drvdata
    BY <1>3, <2>1 DEF KeyInterrupt
  <2>2. CASE drvdata
    <3>1. kphase \in {"bound", "removing", "deleted"} /\ k \in kirqs
      BY <1>3, <2>2 DEF KeyInterrupt
    <3>2. UNCHANGED <<probevars, wild, krunning, told>> /\ ktimers' = ktimers \cup {k} /\ kedges' = kedges \ {k}
      BY <1>3, <2>2 DEF KeyInterrupt
    <3>3. late \subseteq late' /\ (kphase = "deleted" /\ key = k => k \in late')
      BY <1>3, <2>2 DEF KeyInterrupt
    <3> QED
      BY <3>1, <3>2, <3>3
  <2> QED
    BY <2>1, <2>2
<1>4. ASSUME NEW k \in Keys, KeyTimerFires(k)
      PROVE  KeyLoops'
  BY <1>4 DEF KeyTimerFires
<1>5. CASE KeyReported \/ WildTimerFires
  BY <1>5 DEF KeyReported, WildTimerFires
<1>6. CASE ProbeAlloc
  <2>1. {k \in Keys : k < 0} = {}
    OBVIOUS
  <2>2. \A k \in Keys : told'[k] = "nothing"
    BY <1>6 DEF ProbeAlloc
  <2> QED
    BY <1>6, <2>1, <2>2 DEF ProbeAlloc
<1>7. CASE ProbeOne
  BY <1>7 DEF ProbeOne
<1>8. CASE ProbeFails
  BY <1>8 DEF ProbeFails
<1>9. CASE FailOne
  BY <1>9 DEF FailOne
<1>10. CASE FailDone
  BY <1>10 DEF FailDone
<1>11. CASE ProbeDone
  <2>1. {k \in Keys : k < key} = Keys
    BY <1>11 DEF ProbeDone
  <2> QED
    BY <1>11, <2>1 DEF ProbeDone
<1>12. CASE Remove
  BY <1>12 DEF Remove
<1>13. CASE RemoveTimer
  BY <1>13 DEF RemoveTimer
<1>14. CASE RemoveIrq
  BY <1>14 DEF RemoveIrq
<1>15. CASE RemoveDone
  BY <1>15 DEF RemoveDone
<1> QED
  BY <1>1, <1>2, <1>3, <1>4, <1>5, <1>6, <1>7, <1>8, <1>9, <1>10, <1>11, <1>12, <1>13, <1>14, <1>15
     DEF KeypadNext, KeypadHandlers, Probe, RemoveSteps

(* A level that was not reported has a timer or an interrupt that will.    *)
LEMMA ReportedStep == KeypadTypeOK /\ KeyLoops /\ Reported /\ [KeypadNext]_kvars => Reported'
<1> SUFFICES ASSUME KeypadTypeOK, KeyLoops, Reported, [KeypadNext]_kvars, kphase' = "bound"
             PROVE  Reported'
  BY DEF Reported
<1> USE DEF KeypadTypeOK, Reported, probevars, handlervars, KOops, KInProcess
<1>1. CASE UNCHANGED kvars
  BY <1>1 DEF kvars
<1>2. ASSUME NEW k \in Keys, KeyMoves(k)
      PROVE  Reported'
  BY <1>2 DEF KeyMoves, KeyLoops
<1>3. ASSUME NEW k \in Keys, KeyInterrupt(k)
      PROVE  Reported'
  BY <1>3 DEF KeyInterrupt
<1>4. ASSUME NEW k \in Keys, KeyTimerFires(k)
      PROVE  Reported'
  BY <1>4 DEF KeyTimerFires, Keys, NoKey
<1>5. CASE KeyReported
  BY <1>5, KeypadAssumption DEF KeyReported, Keys, NoKey
<1>6. CASE ProbeDone
  BY <1>6, KeypadAssumption DEF ProbeDone, KeyLoops, Keys, NoKey
<1> QED
  BY <1>1, <1>2, <1>3, <1>4, <1>5, <1>6
     DEF KeypadNext, KeypadHandlers, Probe, RemoveSteps, WildTimerFires, ProbeAlloc, ProbeOne, ProbeFails,
         FailOne, FailDone, Remove, RemoveTimer, RemoveIrq, RemoveDone

(* The three together are an invariant of the keypad driver.               *)
LEMMA KeypadInductive == KeypadSpec => []KeyInv
<1>1. KeypadInit => KeyInv
  <2> SUFFICES ASSUME KeypadInit
               PROVE  KeyInv
    OBVIOUS
  <2>1. KeypadTypeOK
    <3>1. 0 \in 0 .. NKeys /\ NoKey \in Keys \cup {NoKey}
      BY KeypadAssumption
    <3> QED
      BY <3>1 DEF KeypadInit, KeypadTypeOK
  <2>2. KeyLoops /\ Reported
    BY DEF KeypadInit, KeyLoops, Reported
  <2> QED
    BY <2>1, <2>2 DEF KeyInv
<1>2. KeyInv /\ [KeypadNext]_kvars => KeyInv'
  BY KeypadTypeStep, KeyLoopsStep, ReportedStep DEF KeyInv
<1> QED
  BY <1>1, <1>2, PTL DEF KeypadSpec

(* What the input layer was told of a key is what its pin shows, or the    *)
(* next report is on its way (s3c_kbd_intterupt(), its timer's handler).   *)
THEOREM KeyReportsFollow == KeypadSpec => []ReportFollowsPin
<1>1. KeyInv => ReportFollowsPin
  BY DEF KeyInv, Reported, ReportFollowsPin
<1> QED
  BY <1>1, KeypadInductive, PTL

(* remove() and a probe() that fails leave no interrupt, and no timer but  *)
(* one that was set between del_timer() and free_irq().                    *)
THEOREM KeypadLeavesLate == KeypadSpec => []OnlyLateTimersLeft
<1>1. KeyInv => OnlyLateTimersLeft
  BY DEF KeyInv, KeyLoops, OnlyLateTimersLeft
<1> QED
  BY <1>1, KeypadInductive, PTL

-----------------------------------------------------------------------------
(* The button driver.  OpenLoops says which interrupts and timers there    *)
(* are while open() and release() go through the buttons: none without an  *)
(* interrupt of its own button.  The others are inductive beside it.  A    *)
(* second open() is where it ends.                                         *)

Ours == bphase \in {"opening", "open", "closing", "deleting"}

ClosingLoop ==
  /\ bphase = "closing" => irqs = {b \in Buttons : b >= at}
  /\ bphase = "deleting" => at < NButtons /\ irqs = {b \in Buttons : b > at}
  /\ bphase \in {"closing", "deleting"} => \A b \in timers \cup ({running} \ {NoButton}) : b >= at

OpenLoops ==
  again = "no" =>
    /\ edges \subseteq irqs /\ strays = {}
    /\ Ours => allocated
    /\ bphase \in {"closed", "undoing"} => ~allocated /\ running = NoButton
    /\ bphase = "opening" => irqs = {b \in Buttons : b < at} /\ timers \cup ({running} \ {NoButton}) \subseteq irqs
    /\ bphase = "open" => irqs = Buttons
    /\ bphase = "undoing" => irqs = {b \in Buttons : b <= at} /\ taken # {}
    /\ ClosingLoop
    /\ FreedIsUnused

(* release() is between the two steps it makes for a button it has.        *)
InRange == bphase = "deleting" => at < NButtons

Fresh == \A r \in Readers : rpc[r] # "copy" => idx[r] = 0

ButtonInv == ButtonTypeOK /\ InRange /\ OpenLoops /\ ButtonNotDeaf /\ Fresh /\ PressNotLost

(* Every step keeps every variable of the button driver in its type.       *)
LEMMA ButtonTypeStep == ButtonTypeOK /\ InRange /\ [ButtonNext]_bvars => (ButtonTypeOK /\ InRange)'
<1> SUFFICES ASSUME ButtonTypeOK, InRange, [ButtonNext]_bvars
             PROVE  (ButtonTypeOK /\ InRange)'
  OBVIOUS
<1> USE ButtonAssumption DEF ButtonTypeOK, InRange, Buttons, NoButton, againvars, openvars, timevars, readvars, Oops
<1>1. CASE UNCHANGED bvars
  BY <1>1 DEF bvars
<1>2. ASSUME NEW b \in Buttons, PinMoves(b)
      PROVE  (ButtonTypeOK /\ InRange)'
  BY <1>2 DEF PinMoves
<1>3. ASSUME NEW b \in Buttons, Interrupt(b)
      PROVE  (ButtonTypeOK /\ InRange)'
  BY <1>3 DEF Interrupt
<1>4. ASSUME NEW b \in Buttons, TimerFires(b)
      PROVE  (ButtonTypeOK /\ InRange)'
  BY <1>4 DEF TimerFires
<1>5. CASE TimerLow
  BY <1>5 DEF TimerLow, WakeUp
<1>6. CASE TimerHigh
  BY <1>6 DEF TimerHigh
<1>7. CASE OpenAlloc
  BY <1>7 DEF OpenAlloc
<1>8. CASE OpenOne
  BY <1>8 DEF OpenOne, SetUp, Granted
<1>9. CASE OpenFails
  <2>1. CASE at = 0
    BY <1>9, <2>1 DEF OpenFails, SetUp, Granted
  <2>2. CASE at # 0
    <3>1. at - 1 \in 0 .. NButtons
      BY <2>2
    <3> QED
      BY <1>9, <2>2, <3>1 DEF OpenFails, SetUp, Granted
  <2> QED
    BY <2>1, <2>2
<1>10. CASE UndoOne
  BY <1>10 DEF UndoOne
<1>11. CASE UndoDone
  BY <1>11 DEF UndoDone
<1>12. CASE OpenDone
  BY <1>12 DEF OpenDone
<1>13. CASE OpenAgain
  BY <1>13 DEF OpenAgain
<1>24. CASE AgainOne
  BY <1>24 DEF AgainOne, SetUp
<1>25. CASE AgainFails
  <2>1. at2 = 0 \/ at2 - 1 \in 0 .. NButtons
    OBVIOUS
  <2> QED
    BY <1>25, <2>1 DEF AgainFails, SetUp
<1>26. CASE AgainUndoes
  BY <1>26 DEF AgainUndoes
<1>27. CASE AgainDone
  BY <1>27 DEF AgainDone
<1>14. CASE Close
  BY <1>14 DEF Close
<1>15. CASE CloseIrq
  BY <1>15 DEF CloseIrq
<1>16. CASE CloseTimer
  <2>1. at + 1 \in 0 .. NButtons
    BY <1>16 DEF CloseTimer
  <2> QED
    BY <1>16, <2>1 DEF CloseTimer
<1>17. CASE CloseDone
  BY <1>17 DEF CloseDone
<1>18. ASSUME NEW r \in Readers, ReadStart(r)
       PROVE  (ButtonTypeOK /\ InRange)'
  BY <1>18 DEF ReadStart, Reading
<1>19. ASSUME NEW r \in Readers, ReadSignalled(r)
       PROVE  (ButtonTypeOK /\ InRange)'
  BY <1>19 DEF ReadSignalled, Reading
<1>20. ASSUME NEW r \in Readers, ReadWait(r)
       PROVE  (ButtonTypeOK /\ InRange)'
  BY <1>20 DEF ReadWait, Reading
<1>21. ASSUME NEW r \in Readers, ReadClear(r)
       PROVE  (ButtonTypeOK /\ InRange)'
  BY <1>21 DEF ReadClear, Reading
<1>22. ASSUME NEW r \in Readers, ReadOne(r)
       PROVE  (ButtonTypeOK /\ InRange)'
  <2>1. idx[r] + 1 \in 0 .. NButtons
    BY <1>22 DEF ReadOne
  <2> QED
    BY <1>22, <2>1 DEF ReadOne, Reading
<1>23. ASSUME NEW r \in Readers, ReadDone(r)
       PROVE  (ButtonTypeOK /\ InRange)'
  BY <1>23 DEF ReadDone, Reading
<1> QED
  BY <1>1, <1>2, <1>3, <1>4, <1>5, <1>6, <1>7, <1>8, <1>9,
     <1>10, <1>11, <1>12, <1>13, <1>14, <1>15, <1>16, <1>17, <1>18, <1>19, <1>20, <1>21, <1>22, <1>23,
     <1>24, <1>25, <1>26, <1>27
     DEF ButtonNext, ButtonTimer, HandlerEnds, ButtonOpen, ButtonOpenAgain, ButtonClose, ButtonRead, ReadStep

(* A second open() is not undone.                                          *)
LEMMA AgainStays == [ButtonNext]_bvars /\ again' = "no" => again = "no"
<1> USE DEF againvars, openvars, Oops
<1> SUFFICES ASSUME [ButtonNext]_bvars, again # "no"
             PROVE  again' # "no"
  OBVIOUS
<1>1. CASE ButtonOpenAgain
  BY <1>1 DEF ButtonOpenAgain, OpenAgain, AgainOne, AgainFails, AgainUndoes, AgainDone
<1>2. CASE ButtonOpen
  BY <1>2 DEF ButtonOpen, OpenAlloc, OpenOne, OpenFails, UndoOne, UndoDone, OpenDone
<1>3. CASE ButtonClose
  BY <1>3 DEF ButtonClose, Close, CloseIrq, CloseTimer, CloseDone
<1>4. CASE ButtonTimer
  BY <1>4 DEF ButtonTimer, HandlerEnds, Interrupt, TimerFires, TimerLow, TimerHigh
<1>5. CASE ButtonRead
  BY <1>5 DEF ButtonRead, ReadStep, ReadStart, ReadSignalled, ReadWait, ReadClear, ReadOne, ReadDone
<1> QED
  BY <1>1, <1>2, <1>3, <1>4, <1>5 DEF ButtonNext, PinMoves, bvars

(* open() and release() are where their loops say, and have done with the  *)
(* buttons before.                                                         *)
LEMMA OpenLoopsStep == ButtonTypeOK /\ OpenLoops /\ [ButtonNext]_bvars => OpenLoops'
<1> SUFFICES ASSUME ButtonTypeOK, OpenLoops, [ButtonNext]_bvars, again' = "no"
             PROVE  OpenLoops'
  BY DEF OpenLoops
<1> again = "no"
  BY AgainStays
<1> USE ButtonAssumption DEF ButtonTypeOK, OpenLoops, Ours, ClosingLoop, FreedIsUnused, Buttons, NoButton,
        InProcess, againvars, openvars, timevars, readvars, Oops
<1>1. CASE UNCHANGED bvars
  BY <1>1 DEF bvars
<1>2. ASSUME NEW b \in Buttons, PinMoves(b)
      PROVE  OpenLoops'
  BY <1>2 DEF PinMoves
<1>3. ASSUME NEW b \in Buttons, Interrupt(b)
      PROVE  OpenLoops'
  <2>1. CASE ~allocated
    BY <1>3, <2>1 DEF Interrupt
  <2>2. CASE allocated
    <3>1. Ours /\ b \in irqs
      BY <1>3, <2>2 DEF Interrupt
    <3>2. UNCHANGED <<openvars, strays, running>> /\ timers' \subseteq timers \cup {b} /\ edges' \subseteq edges
      BY <1>3, <2>2 DEF Interrupt
    <3> QED
      BY <3>1, <3>2
  <2> QED
    BY <2>1, <2>2
<1>4. ASSUME NEW b \in Buttons, TimerFires(b)
      PROVE  OpenLoops'
  <2>1. b \in timers /\ strays' = {} /\ timers' = timers \ {b}
    BY <1>4 DEF TimerFires
  <2>2. CASE ~allocated
    BY <1>4, <2>1, <2>2 DEF TimerFires
  <2>3. CASE allocated
    <3>1. Ours
      BY <1>4, <2>3 DEF TimerFires
    <3>2. UNCHANGED <<openvars, edges>> /\ running' = b
      BY <1>4, <2>3 DEF TimerFires
    <3> QED
      BY <2>1, <3>1, <3>2
  <2> QED
    BY <2>2, <2>3
<1>5. CASE TimerLow
  <2>1. UNCHANGED <<openvars, strays, edges>> /\ timers' = timers \cup {running} /\ running' = NoButton
    BY <1>5 DEF TimerLow
  <2> QED
    BY <1>5, <2>1 DEF TimerLow
<1>6. CASE TimerHigh
  BY <1>6 DEF TimerHigh
<1>7. CASE OpenAlloc
  BY <1>7 DEF OpenAlloc
<1>8. CASE OpenOne
  BY <1>8 DEF OpenOne, SetUp, Granted
<1>9. CASE OpenFails
  <2>1. CASE at = 0
    BY <1>9, <2>1 DEF OpenFails, SetUp, Granted
  <2>2. CASE at # 0
    <3>1. irqs = {b \in Buttons : b <= at - 1}
      BY <1>9 DEF OpenFails, SetUp, Granted
    <3>2. taken # {}
      BY <1>9 DEF OpenFails, SetUp, Granted
    <3>3. at \notin timers
      BY <1>9 DEF OpenFails
    <3>4. timers' = timers /\ strays' = {} /\ edges' = edges /\ running' = NoButton
      BY <1>9, <3>3 DEF OpenFails, SetUp
    <3>5. bphase' = "undoing" /\ at' = at - 1 /\ allocated' = FALSE /\ UNCHANGED <<irqs, taken>>
      BY <1>9, <2>2 DEF OpenFails
    <3> QED
      BY <3>1, <3>2, <3>4, <3>5
  <2> QED
    BY <2>1, <2>2
<1>10. CASE UndoOne
  BY <1>10 DEF UndoOne
<1>11. CASE UndoDone
  <2>1. 0 \in irqs /\ irqs \subseteq {0} /\ taken # {}
    BY <1>11 DEF UndoDone
  <2> QED
    BY <1>11, <2>1 DEF UndoDone
<1>12. CASE OpenDone
  <2>1. {b \in Buttons : b < at} = Buttons
    BY <1>12 DEF OpenDone
  <2> QED
    BY <1>12, <2>1 DEF OpenDone
<1>13. CASE OpenAgain
  BY <1>13 DEF OpenAgain
<1>24. CASE AgainOne
  BY <1>24 DEF AgainOne, SetUp
<1>25. CASE AgainFails
  BY <1>25 DEF AgainFails, SetUp
<1>26. CASE AgainUndoes
  BY <1>26 DEF AgainUndoes
<1>27. CASE AgainDone
  BY <1>27 DEF AgainDone
<1>14. CASE Close
  BY <1>14 DEF Close
<1>15. CASE CloseIrq
  BY <1>15 DEF CloseIrq
<1>16. CASE CloseTimer
  <2>1. allocated /\ running = NoButton /\ irqs = {b \in Buttons : b > at}
    BY <1>16 DEF CloseTimer
  <2>2. bphase' = "closing" /\ at' = at + 1 /\ timers' = timers \ {at}
    BY <1>16, <2>1 DEF CloseTimer
  <2>3. UNCHANGED <<allocated, irqs, taken, again, strays, running, edges>>
    BY <1>16, <2>1 DEF CloseTimer
  <2>4. irqs = {b \in Buttons : b >= at + 1}
    BY <2>1
  <2>5. \A b \in timers' : b >= at + 1
    BY <1>16, <2>2 DEF CloseTimer
  <2> QED
    BY <2>1, <2>2, <2>3, <2>4, <2>5
<1>17. CASE CloseDone
  BY <1>17 DEF CloseDone
<1>18. ASSUME NEW r \in Readers, ReadStart(r)
       PROVE  OpenLoops'
  BY <1>18 DEF ReadStart
<1>19. ASSUME NEW r \in Readers, ReadSignalled(r)
       PROVE  OpenLoops'
  BY <1>19 DEF ReadSignalled
<1>20. ASSUME NEW r \in Readers, ReadWait(r)
       PROVE  OpenLoops'
  BY <1>20 DEF ReadWait
<1>21. ASSUME NEW r \in Readers, ReadClear(r)
       PROVE  OpenLoops'
  BY <1>21 DEF ReadClear
<1>22. ASSUME NEW r \in Readers, ReadOne(r)
       PROVE  OpenLoops'
  BY <1>22 DEF ReadOne
<1>23. ASSUME NEW r \in Readers, ReadDone(r)
       PROVE  OpenLoops'
  BY <1>23 DEF ReadDone
<1> QED
  BY <1>1, <1>2, <1>3, <1>4, <1>5, <1>6, <1>7, <1>8, <1>9,
     <1>10, <1>11, <1>12, <1>13, <1>14, <1>15, <1>16, <1>17, <1>18, <1>19, <1>20, <1>21, <1>22, <1>23,
     <1>24, <1>25, <1>26, <1>27
     DEF ButtonNext, ButtonTimer, HandlerEnds, ButtonOpen, ButtonOpenAgain, ButtonClose, ButtonRead, ReadStep

(* Every step leaves a button whose interrupts are ignored a timer.        *)
LEMMA NotDeafStep == ButtonTypeOK /\ OpenLoops /\ ButtonNotDeaf /\ [ButtonNext]_bvars => ButtonNotDeaf'
<1> SUFFICES ASSUME ButtonTypeOK, OpenLoops, ButtonNotDeaf, [ButtonNext]_bvars
             PROVE  ButtonNotDeaf'
  OBVIOUS
<1> USE DEF ButtonTypeOK, OpenLoops, Ours, ClosingLoop, ButtonNotDeaf, againvars, openvars, timevars, readvars, Oops
<1>1. CASE UNCHANGED bvars
  BY <1>1 DEF bvars
<1>2. ASSUME NEW b \in Buttons, PinMoves(b)
      PROVE  ButtonNotDeaf'
  BY <1>2 DEF PinMoves
<1>3. ASSUME NEW b \in Buttons, Interrupt(b)
      PROVE  ButtonNotDeaf'
  BY <1>3 DEF Interrupt
<1>4. ASSUME NEW b \in Buttons, TimerFires(b)
      PROVE  ButtonNotDeaf'
  BY <1>4 DEF TimerFires, InProcess, Buttons, NoButton
<1>5. CASE TimerLow
  BY <1>5 DEF TimerLow
<1>6. CASE TimerHigh
  BY <1>6 DEF TimerHigh
<1>7. CASE OpenAlloc
  BY <1>7 DEF OpenAlloc
<1>8. CASE OpenOne
  BY <1>8 DEF OpenOne, SetUp, Granted
<1>9. CASE OpenFails
  BY <1>9 DEF OpenFails, SetUp, Granted
<1>10. CASE UndoOne
  BY <1>10 DEF UndoOne
<1>11. CASE UndoDone
  BY <1>11 DEF UndoDone
<1>12. CASE OpenDone
  BY <1>12 DEF OpenDone
<1>13. CASE OpenAgain
  BY <1>13 DEF OpenAgain
<1>24. CASE AgainOne
  BY <1>24 DEF AgainOne, SetUp
<1>25. CASE AgainFails
  BY <1>25 DEF AgainFails, SetUp
<1>26. CASE AgainUndoes
  BY <1>26 DEF AgainUndoes
<1>27. CASE AgainDone
  BY <1>27 DEF AgainDone
<1>14. CASE Close
  BY <1>14 DEF Close
<1>15. CASE CloseIrq
  BY <1>15 DEF CloseIrq
<1>16. CASE CloseTimer
  BY <1>16 DEF CloseTimer
<1>17. CASE CloseDone
  BY <1>17 DEF CloseDone
<1>18. ASSUME NEW r \in Readers, ReadStart(r)
       PROVE  ButtonNotDeaf'
  BY <1>18 DEF ReadStart
<1>19. ASSUME NEW r \in Readers, ReadSignalled(r)
       PROVE  ButtonNotDeaf'
  BY <1>19 DEF ReadSignalled
<1>20. ASSUME NEW r \in Readers, ReadWait(r)
       PROVE  ButtonNotDeaf'
  BY <1>20 DEF ReadWait
<1>21. ASSUME NEW r \in Readers, ReadClear(r)
       PROVE  ButtonNotDeaf'
  BY <1>21 DEF ReadClear
<1>22. ASSUME NEW r \in Readers, ReadOne(r)
       PROVE  ButtonNotDeaf'
  BY <1>22 DEF ReadOne
<1>23. ASSUME NEW r \in Readers, ReadDone(r)
       PROVE  ButtonNotDeaf'
  BY <1>23 DEF ReadDone
<1> QED
  BY <1>1, <1>2, <1>3, <1>4, <1>5, <1>6, <1>7, <1>8, <1>9,
     <1>10, <1>11, <1>12, <1>13, <1>14, <1>15, <1>16, <1>17, <1>18, <1>19, <1>20, <1>21, <1>22, <1>23,
     <1>24, <1>25, <1>26, <1>27
     DEF ButtonNext, ButtonTimer, HandlerEnds, ButtonOpen, ButtonOpenAgain, ButtonClose, ButtonRead, ReadStep

(* Every step leaves a press the event or a copy that is still to come.    *)
LEMMA NotLostStep ==
  ButtonTypeOK /\ Fresh /\ PressNotLost /\ [ButtonNext]_bvars => (Fresh /\ PressNotLost)'
<1> SUFFICES ASSUME ButtonTypeOK, Fresh, PressNotLost, [ButtonNext]_bvars
             PROVE  (Fresh /\ PressNotLost)'
  OBVIOUS
<1> USE ButtonAssumption DEF ButtonTypeOK, Fresh, PressNotLost, Buttons, againvars, openvars, timevars, readvars, Oops, Reading
<1>1. CASE UNCHANGED bvars
  BY <1>1 DEF bvars
<1>2. ASSUME NEW b \in Buttons, PinMoves(b)
      PROVE  (Fresh /\ PressNotLost)'
  BY <1>2 DEF PinMoves
<1>3. ASSUME NEW b \in Buttons, Interrupt(b)
      PROVE  (Fresh /\ PressNotLost)'
  BY <1>3 DEF Interrupt
<1>4. ASSUME NEW b \in Buttons, TimerFires(b)
      PROVE  (Fresh /\ PressNotLost)'
  BY <1>4 DEF TimerFires
<1>5. CASE TimerLow
  BY <1>5 DEF TimerLow, WakeUp
<1>6. CASE TimerHigh
  BY <1>6 DEF TimerHigh
<1>7. CASE OpenAlloc
  BY <1>7 DEF OpenAlloc
<1>8. CASE OpenOne
  BY <1>8 DEF OpenOne, SetUp, Granted
<1>9. CASE OpenFails
  BY <1>9 DEF OpenFails, SetUp, Granted
<1>10. CASE UndoOne
  BY <1>10 DEF UndoOne
<1>11. CASE UndoDone
  BY <1>11 DEF UndoDone
<1>12. CASE OpenDone
  BY <1>12 DEF OpenDone
<1>13. CASE OpenAgain
  BY <1>13 DEF OpenAgain
<1>24. CASE AgainOne
  BY <1>24 DEF AgainOne, SetUp
<1>25. CASE AgainFails
  BY <1>25 DEF AgainFails, SetUp
<1>26. CASE AgainUndoes
  BY <1>26 DEF AgainUndoes
<1>27. CASE AgainDone
  BY <1>27 DEF AgainDone
<1>14. CASE Close
  BY <1>14 DEF Close
<1>15. CASE CloseIrq
  BY <1>15 DEF CloseIrq
<1>16. CASE CloseTimer
  BY <1>16 DEF CloseTimer
<1>17. CASE CloseDone
  BY <1>17 DEF CloseDone
<1>18. ASSUME NEW r \in Readers, ReadStart(r)
       PROVE  (Fresh /\ PressNotLost)'
  BY <1>18 DEF ReadStart
<1>19. ASSUME NEW r \in Readers, ReadSignalled(r)
       PROVE  (Fresh /\ PressNotLost)'
  BY <1>19 DEF ReadSignalled
<1>20. ASSUME NEW r \in Readers, ReadWait(r)
       PROVE  (Fresh /\ PressNotLost)'
  BY <1>20 DEF ReadWait
<1>21. ASSUME NEW r \in Readers, ReadClear(r)
       PROVE  (Fresh /\ PressNotLost)'
  BY <1>21 DEF ReadClear
<1>22. ASSUME NEW r \in Readers, ReadOne(r)
       PROVE  (Fresh /\ PressNotLost)'
  BY <1>22 DEF ReadOne
<1>23. ASSUME NEW r \in Readers, ReadDone(r)
       PROVE  (Fresh /\ PressNotLost)'
  BY <1>23 DEF ReadDone
<1> QED
  BY <1>1, <1>2, <1>3, <1>4, <1>5, <1>6, <1>7, <1>8, <1>9,
     <1>10, <1>11, <1>12, <1>13, <1>14, <1>15, <1>16, <1>17, <1>18, <1>19, <1>20, <1>21, <1>22, <1>23,
     <1>24, <1>25, <1>26, <1>27
     DEF ButtonNext, ButtonTimer, HandlerEnds, ButtonOpen, ButtonOpenAgain, ButtonClose, ButtonRead, ReadStep

(* The four together are an invariant of the button driver.                *)
LEMMA ButtonInductive == ButtonSpec => []ButtonInv
<1>1. ButtonInit => ButtonInv
  <2> SUFFICES ASSUME ButtonInit
               PROVE  ButtonInv
    OBVIOUS
  <2>1. 0 \in 0 .. NButtons
    BY ButtonAssumption
  <2>2. ButtonTypeOK
    BY <2>1 DEF ButtonInit, ButtonTypeOK
  <2>3. OpenLoops
    BY DEF ButtonInit, OpenLoops, Ours, ClosingLoop, FreedIsUnused
  <2>4. ButtonNotDeaf /\ Fresh /\ PressNotLost
    BY DEF ButtonInit, ButtonNotDeaf, Fresh, PressNotLost
  <2> QED
    BY <2>2, <2>3, <2>4 DEF ButtonInit, InRange, ButtonInv
<1>2. ButtonInv /\ [ButtonNext]_bvars => ButtonInv'
  BY ButtonTypeStep, OpenLoopsStep, NotDeafStep, NotLostStep DEF ButtonInv
<1> QED
  BY <1>1, <1>2, PTL DEF ButtonSpec

(* However interrupt and timer handler interleave, a button whose          *)
(* interrupts are ignored has a timer that will end that.                  *)
THEOREM NoneDeaf == ButtonSpec => []ButtonNotDeaf
<1>1. ButtonInv => ButtonNotDeaf
  BY DEF ButtonInv
<1> QED
  BY <1>1, ButtonInductive, PTL

(* button_read() clears the event before it copies, so that every press is *)
(* either marked by the event or still ahead of a copy.                    *)
THEOREM NoneLost == ButtonSpec => []PressNotLost
<1>1. ButtonInv => PressNotLost
  BY DEF ButtonInv
<1> QED
  BY <1>1, ButtonInductive, PTL

(* What button_open() leaves behind when it fails, and button_release().   *)
THEOREM ButtonFreed == ButtonSpec => []FreedIsUnused
<1>1. ButtonInv => FreedIsUnused
  BY DEF ButtonInv, OpenLoops, FreedIsUnused
<1> QED
  BY <1>1, ButtonInductive, PTL

-----------------------------------------------------------------------------
(* The three drivers together.                                             *)

(* A behaviour of MCDrivers is one of each driver, two of which do         *)
(* nothing: what is shown of each of them holds of it.                     *)
THEOREM EachDriver == Spec => ButtonSpec /\ KeypadSpec /\ AdcSpec
<1>1. Init => ButtonInit /\ KeypadInit /\ AdcInit
  BY DEF Init
<1>2. [Next]_vars => [ButtonNext]_bvars /\ [KeypadNext]_kvars /\ [AdcNext]_adcvars
  BY DEF Next, vars, OfButton, OfKeypad, OfAdc
<1> QED
  BY <1>1, <1>2, PTL DEF Spec, ButtonSpec, KeypadSpec, AdcSpec

(* Every variable of the button, keypad and ADC drivers stays in its type. *)
THEOREM DriversTypes == Spec => []TypeOK
<1>1. ButtonInv /\ KeyInv /\ AdcInv => TypeOK
  BY DEF ButtonInv, KeyInv, AdcInv, TypeOK
<1> QED
  BY <1>1, EachDriver, ButtonInductive, KeypadInductive, AdcInductive, PTL
=============================================================================
