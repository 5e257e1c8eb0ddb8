------------------------------ MODULE MCDrivers ------------------------------
(***************************************************************************)
(* The three interrupt driven drivers under driver/.  They share nothing:  *)
(* a behaviour is one of the driver "part" chose at the start.             *)
(***************************************************************************)
EXTENDS Button, Keypad, Adc

CONSTANT Parts

VARIABLE part

vars == <<part, bvars, kvars, adcvars>>

Init ==
  /\ part \in Parts
  /\ ButtonInit /\ (part \notin {"button", "overlap"} => taken = {})
  /\ KeypadInit /\ (part # "keypad" => ktaken = {})
  /\ AdcInit /\ (part # "adc" => nonblock = {} /\ ~signals /\ ~touch)

OfButton(A) == part \in {"button", "overlap"} /\ A /\ UNCHANGED <<part, kvars, adcvars>>
OfKeypad(A) == part = "keypad" /\ A /\ UNCHANGED <<part, bvars, adcvars>>
OfAdc(A) == part = "adc" /\ A /\ UNCHANGED <<part, bvars, kvars>>

(* The button driver is looked at with all its readers and two buttons     *)
(* that are pressed, and with a second open(), one reader at a time and    *)
(* one button that is pressed.                                             *)
Overlap ==
  IF part = "overlap"
    THEN /\ Cardinality({r \in Readers : rpc'[r] # "idle"}) <= 1
         /\ \A b \in Buttons : b # 1 => pin'[b] = pin[b]
    ELSE /\ again' = "no"
         /\ \A b \in Buttons : b > 1 => pin'[b] = pin[b]

Next == OfButton(ButtonNext /\ Overlap) \/ OfKeypad(KeypadNext) \/ OfAdc(AdcNext)

Spec == Init /\ [][Next]_vars

(* A handler that runs comes to its end, however many interrupts cut into  *)
(* it, and the processor has time left for a process that can run, however *)
(* often a held button's timer fires.  Conversions end.                    *)
FairSpec ==
  /\ Spec
  /\ WF_vars(OfButton(HandlerEnds))
  /\ \A r \in Readers : SF_vars(OfButton(ReadStep(r)))
  /\ WF_vars(OfAdc(AdcHardware))
  /\ \A u \in Users : WF_vars(OfAdc(AdcStep(u)))

(* Every variable of the three drivers keeps its type.                     *)
TypeOK == ButtonTypeOK /\ KeypadTypeOK /\ AdcTypeOK

=============================================================================
