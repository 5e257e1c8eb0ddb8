------------------------------ MODULE AtChannel ------------------------------
(***************************************************************************)
(* AT commands on a serial port (cp_library/cp_atcmd.c) at the grain of    *)
(* bytes: send_atcmd() throws away what waits in the port, one byte at a   *)
(* time for 200 ms, sends, and reads until what it has read holds what it  *)
(* expects.  A byte is known by the command it is the answer to, that of   *)
(* the call ("own") or an earlier one ("old"); the modem says nothing      *)
(* unasked, and no signal ends a comport_recv() before its time.           *)
(***************************************************************************)
EXTENDS Naturals, Sequences

CONSTANTS
  MaxOwed,     (* a bound on the commands the modem has yet to answer      *)
  MaxWaiting,  (* the bytes that the port holds                            *)
  DrainMin     (* the bytes that 200 ms are enough for.  Each takes        *)
               (* comport_recv() 10 ms and more, so less than twenty: an   *)
               (* answer may well be longer                                *)

ASSUME AtAssumption == {MaxOwed, MaxWaiting} \subseteq Nat \ {0} /\ DrainMin \in Nat

VARIABLES
  tpc,         (* where send_atcmd() is                                    *)
  drained,     (* the bytes it has thrown away, up to DrainMin             *)
  retval,      (* what it returned: a match and whose, or another failure  *)
  port,        (* the bytes that wait in the serial port                   *)
  owed,        (* the commands the modem has yet to answer                 *)
  crowded      (* when the call began, more waited than it has time for,   *)
               (* or an earlier command was not answered to the end        *)

atvars == <<tpc, drained, retval, port, owed, crowded>>

AtInit ==
  /\ tpc = "idle" /\ drained = 0 /\ retval = "none"
  /\ port = <<>> /\ owed = <<>> /\ crowded = FALSE

Aged(answers) == [n \in DOMAIN answers |-> "old"]

AtCall ==
  /\ tpc = "idle" /\ Len(owed) < MaxOwed
  /\ tpc' = "drain" /\ drained' = 0 /\ retval' = "none"
  /\ port' = Aged(port) /\ owed' = Aged(owed)
  /\ crowded' = (owed # <<>> \/ Len(port) > DrainMin)

Throw ==
  /\ tpc = "drain" /\ port # <<>>
  /\ port' = Tail(port)
  /\ drained' = IF drained < DrainMin THEN drained + 1 ELSE drained
  /\ UNCHANGED <<tpc, retval, owed, crowded>>

(* comport_send() fails, or the modem has the command, or it is dead.      *)
Sent ==
  \/ tpc' = "idle" /\ retval' = "failed" /\ UNCHANGED owed
  \/ tpc' = "read" /\ owed' \in {owed, Append(owed, "own")} /\ UNCHANGED retval

(* A mutant of Send: what waits is not thrown away.                        *)
Send_AtOnce == tpc = "drain" /\ Sent /\ UNCHANGED <<drained, port, crowded>>

(* The port is found empty once, or time is up.                            *)
Send ==
  /\ tpc = "drain" /\ (port = <<>> \/ drained = DrainMin)
  /\ Sent
  /\ UNCHANGED <<drained, port, crowded>>

(* The modem sends the next byte of an answer, the last one or not.        *)
ModemAnswers ==
  /\ owed # <<>> /\ Len(port) < MaxWaiting
  /\ port' = Append(port, Head(owed)) /\ owed' \in {owed, Tail(owed)}
  /\ UNCHANGED <<tpc, drained, retval, crowded>>

(* With the byte that is read expect or error is met, or neither is.       *)
ReadByte ==
  /\ tpc = "read" /\ port # <<>>
  /\ port' = Tail(port)
  /\ \/ tpc' = "idle" /\ retval' = Head(port)
     \/ UNCHANGED <<tpc, retval>>
  /\ UNCHANGED <<drained, owed, crowded>>

(* Time is up, whether bytes still wait or not.                            *)
Timeout ==
  /\ tpc = "read"
  /\ tpc' = "idle" /\ retval' = "timeout"
  /\ UNCHANGED <<drained, port, owed, crowded>>

AtNext == AtCall \/ Throw \/ Send \/ ModemAnswers \/ ReadByte \/ Timeout

AtSpec == AtInit /\ [][AtNext]_atvars

-----------------------------------------------------------------------------
(* Every variable of the channel keeps its type.                           *)
AtTypeOK ==
  /\ tpc \in {"idle", "drain", "read"} /\ drained \in 0 .. DrainMin
  /\ retval \in {"none", "own", "old", "timeout", "failed"}
  /\ port \in Seq({"own", "old"}) /\ Len(port) <= MaxWaiting
  /\ owed \in Seq({"own", "old"}) /\ Len(owed) <= MaxOwed
  /\ crowded \in BOOLEAN

(* A call is told the answer to an earlier command, one that ran into its  *)
(* timeout or was not read to the end, only if more bytes waited as it     *)
(* began than send_atcmd() has time to throw away, or the modem was still  *)
(* to send some: what it does find the time for is never taken for more.   *)
AnswerIsOwn == retval = "old" => crowded
=============================================================================
