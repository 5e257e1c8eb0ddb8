------------------------------- MODULE MCLinks -------------------------------
(***************************************************************************)
(* Four programs that talk with something they cannot trust to answer: the *)
(* converter, the XMODEM receiver, the AT commands, and the services that  *)
(* connect.  They share nothing: a behaviour is one of the program "part"  *)
(* chose.                                                                  *)
(***************************************************************************)
EXTENDS Converterd, Xmodem, AtChannel, CpSock

CONSTANT Parts

VARIABLE part

(* Number 1 is a SOH.  Besides, one byte is some command or other, or all  *)
(* the bytes of some kinds are SOHs.                                       *)
Plainly == [byte \in Ordinary |-> IF byte = Byte("number", 1) THEN "SOH" ELSE "none"]
SomeLooks ==
  {[Plainly EXCEPT ![byte] = command] : byte \in Ordinary, command \in Commands}
    \cup {[byte \in Ordinary |-> IF byte.what \in kinds THEN "SOH" ELSE Plainly[byte]] :
            kinds \in SUBSET {"complement", "data", "sum", "noise"}}

vars == <<part, cvars, xvars, atvars, kvars>>

Init ==
  /\ part \in Parts
  /\ ConverterdInit /\ (part # "converterd" => ~up /\ ~polite /\ ~ctlfails)
  /\ XmodemInit /\ (part # "xmodem" => looks = Plainly)
  /\ AtInit
  /\ CpSockInit /\ (part # "cpsock" => caller = CHOOSE c \in Services : TRUE)

OfConverterd(A) == part = "converterd" /\ A /\ UNCHANGED <<part, xvars, atvars, kvars>>
OfXmodem(A) == part = "xmodem" /\ A /\ UNCHANGED <<part, cvars, atvars, kvars>>
OfAtChannel(A) == part = "atcmd" /\ A /\ UNCHANGED <<part, cvars, xvars, kvars>>
OfCpSock(A) == part = "cpsock" /\ A /\ UNCHANGED <<part, cvars, xvars, atvars>>

Next ==
  \/ OfConverterd(ConverterdNext) \/ OfXmodem(XmodemNext)
  \/ OfAtChannel(AtNext) \/ OfCpSock(CpSockNext)

Spec == Init /\ [][Next]_vars

(* The converter's thread runs and a connection in progress comes to its   *)
(* end.  The bootloader has the processor to itself, and the sender hears  *)
(* the answers and sends again when there is none.                         *)
FairSpec ==
  /\ Spec
  /\ WF_vars(OfConverterd(MainLoop)) /\ WF_vars(OfConverterd(Handshake))
  /\ WF_vars(OfXmodem(XmodemRecv)) /\ WF_vars(OfXmodem(XmodemWait))
  /\ WF_vars(OfXmodem(SenderHears)) /\ WF_vars(OfXmodem(SenderTimeout))

(* Every variable of the four programs keeps its type.                     *)
TypeOK == ConverterdTypeOK /\ XmodemTypeOK /\ AtTypeOK /\ CpSockTypeOK

(* The bootloader does not wait for ever: with a sender that does not give *)
(* up the transfer ends, well or not, whatever the line loses and whatever *)
(* number, complement, check sum or changed byte is taken for a command.   *)
(* With data that look like SOHs it need not: what is left of a packet is  *)
(* then answered with several NAKs, each NAK with a packet.                *)
PlainData == \A b \in Blocks : looks[Byte("data", b)] # "SOH"
TransferEnds == part = "xmodem" /\ PlainData ~> Finished
=============================================================================
