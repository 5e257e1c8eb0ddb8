------------------------------- MODULE Xmodem -------------------------------
(***************************************************************************)
(* The bootloader's XMODEM receiver (bootloader/myboot/xmodem.c) at the    *)
(* grain of the bytes it takes from the serial port, with a sender that    *)
(* keeps the protocol at the other end of a line that changes and loses    *)
(* bytes.  A byte is known by its place in the file and by the command it  *)
(* looks like where the receiver waits for one: any byte may be an EOT, a  *)
(* CAN or a SOH, the number of a block as well (4, 24 and 1 are).  A block *)
(* has BlockSize bytes of data, and its check sum is right for these bytes *)
(* only; no other byte passes for a block's number or its complement.      *)
(***************************************************************************)
EXTENDS Integers, Sequences

CONSTANTS
  NBlocks,     (* the length of the file in blocks                         *)
  BlockSize,   (* XMODEM_BLOCK_SIZE                                        *)
  Width,       (* the block numbers there are: 256 for an unsigned char    *)
  Looks,       (* which bytes look like which command, as the file has it  *)
  MaxFaults,   (* a bound on the faults of the line                        *)
  MaxNaks,     (* the NAKs that wait for the sender, at most               *)
  MaxLine      (* a bound on the bytes that wait where the sender goes on  *)

ASSUME XmodemAssumption ==
  {NBlocks, BlockSize, MaxNaks, MaxLine} \subseteq Nat \ {0} /\ Width \in Nat \ {0, 1} /\ MaxFaults \in Nat

Blocks == 1 .. NBlocks
Commands == {"SOH", "EOT", "CAN", "none"}

Byte(what, b) == [what |-> what, b |-> b]

(* The bytes that are no commands where they belong, those that the line   *)
(* has changed among them.                                                 *)
Noise == {Byte("noise", n) : n \in {0, 1}}
Ordinary ==
  {Byte(what, n) : what \in {"number", "complement"}, n \in 0 .. (Width - 1)}
    \cup {Byte(what, b) : what \in {"data", "sum"}, b \in Blocks} \cup Noise

ASSUME LooksAssumption == Looks \subseteq [Ordinary -> Commands]

(* What a sender puts on the line for a block, and at the end.             *)
Packet(b) ==
  <<Byte("SOH", b), Byte("number", b % Width), Byte("complement", b % Width)>>
    \o [n \in 1 .. BlockSize |-> Byte("data", b)] \o <<Byte("sum", b)>>
End == <<Byte("EOT", 0)>>

VARIABLES
  (* xmodem_recv() *)
  xpc,         (* which byte it waits for                                  *)
  receiving, block_number,
  got,         (* the blocks before buf                                    *)
  datas,       (* the bytes of data read at buf                            *)
  (* the sender and the line *)
  sending,     (* the block the sender is at, NBlocks + 1 for EOT, or 0    *)
  line, back,  (* bytes on the way to the receiver, and to the sender      *)
  looks,       (* what the bytes of this file look like                    *)
  faults       (* the faults there have been                               *)

linevars == <<sending, line, back, looks, faults>>
recvvars == <<xpc, receiving, block_number, got, datas>>
xvars == <<recvvars, linevars>>

XmodemInit ==
  /\ xpc = "command" /\ receiving = FALSE /\ block_number = 1
  /\ got = <<>> /\ datas = <<>>
  /\ sending = 0 /\ line = <<>> /\ back = <<>>
  /\ looks \in Looks /\ faults = 0

Finished == xpc \in {"ok", "failed"}

-----------------------------------------------------------------------------
(* The sender: a block again for each NAK, the next for an ACK, and the    *)
(* same again when nothing more comes.                                     *)

Put(n) == line' = line \o (IF n \in Blocks THEN Packet(n) ELSE End)

SenderHears ==
  /\ back # <<>> /\ Len(line) < MaxLine
  /\ back' = Tail(back)
  /\ LET n == IF sending = 0 \/ (Head(back) = "ACK" /\ sending <= NBlocks)
                THEN sending + 1 ELSE sending
         over == sending = NBlocks + 1 /\ Head(back) = "ACK"
     IN  /\ sending' = n
         /\ IF over THEN UNCHANGED line ELSE Put(n)
  /\ UNCHANGED <<recvvars, looks, faults>>

SenderTimeout ==
  /\ sending # 0 /\ line = <<>> /\ back = <<>> /\ ~Finished
  /\ Put(sending)
  /\ UNCHANGED <<recvvars, sending, back, looks, faults>>

(* The line: one byte changes or is lost, in either direction.             *)
ByteChanges ==
  /\ faults < MaxFaults /\ line # <<>>
  /\ \E byte \in Noise : line' = <<byte>> \o Tail(line)
  /\ faults' = faults + 1
  /\ UNCHANGED <<recvvars, sending, back, looks>>

ByteLost ==
  /\ faults < MaxFaults /\ line # <<>>
  /\ line' = Tail(line)
  /\ faults' = faults + 1
  /\ UNCHANGED <<recvvars, sending, back, looks>>

ReplyLost ==
  /\ faults < MaxFaults /\ back # <<>>
  /\ back' = Tail(back)
  /\ faults' = faults + 1
  /\ UNCHANGED <<recvvars, sending, line, looks>>

-----------------------------------------------------------------------------
(* The receiver                                                            *)

(* xmodem_wait() asks again and again, until the first block begins.       *)
XmodemWait ==
  /\ xpc = "command" /\ ~receiving /\ line = <<>>
  /\ Len(back) < MaxNaks
  /\ back' = Append(back, "NAK")
  /\ UNCHANGED <<recvvars, sending, line, looks, faults>>

LooksLike(byte) == IF byte.what \in {"SOH", "EOT"} THEN byte.what ELSE looks[byte]

(* serial_recv_byte()                                                      *)
RecvByte(l) ==
  /\ xpc = l /\ line # <<>>
  /\ line' = Tail(line)
  /\ UNCHANGED <<sending, looks, faults>>

Answer(a) == back' = Append(back, a)

(* A mutant of CommandEOT: the receiver waits for more.                    *)
CommandEOT_Waits ==
  /\ RecvByte("command") /\ LooksLike(Head(line)) = "EOT"
  /\ UNCHANGED <<recvvars, back>>

(* The size that is returned is that of the blocks, less their padding.    *)
CommandEOT ==
  /\ RecvByte("command") /\ LooksLike(Head(line)) = "EOT"
  /\ Answer("ACK")
  /\ xpc' = "ok"
  /\ UNCHANGED <<receiving, block_number, got, datas>>

(* XMODEM_CAN, and whatever is no command once blocks have come.           *)
CommandBad ==
  /\ RecvByte("command")
  /\ \/ LooksLike(Head(line)) = "CAN"
     \/ LooksLike(Head(line)) = "none" /\ receiving
  /\ xpc' = "failed"
  /\ UNCHANGED <<receiving, block_number, got, datas, back>>

CommandIgnored ==
  /\ RecvByte("command") /\ LooksLike(Head(line)) = "none" /\ ~receiving
  /\ UNCHANGED <<recvvars, back>>

CommandSOH ==
  /\ RecvByte("command") /\ LooksLike(Head(line)) = "SOH"
  /\ receiving' = TRUE /\ xpc' = "number" /\ datas' = <<>>
  /\ UNCHANGED <<block_number, got, back>>

(* xmodem_read_block() gives up at the first byte it does not expect and   *)
(* leaves the others of the block to be taken for commands.                *)
NotThisBlock ==
  /\ IF Len(back) < MaxNaks THEN Answer("NAK") ELSE UNCHANGED back
  /\ xpc' = "command"
  /\ UNCHANGED <<receiving, block_number, got, datas>>

ReadNumber ==
  /\ RecvByte("number")
  /\ IF Head(line) = Byte("number", block_number)
       THEN xpc' = "complement" /\ UNCHANGED <<receiving, block_number, got, datas, back>>
       ELSE NotThisBlock

ReadComplement ==
  /\ RecvByte("complement")
  /\ IF Head(line) = Byte("complement", block_number)
       THEN xpc' = "data" /\ UNCHANGED <<receiving, block_number, got, datas, back>>
       ELSE NotThisBlock

ReadData ==
  /\ RecvByte("data")
  /\ datas' = Append(datas, Head(line))
  /\ xpc' = IF Len(datas) + 1 = BlockSize THEN "sum" ELSE "data"
  /\ UNCHANGED <<receiving, block_number, got, back>>

SumIsRight ==
  \E b \in Blocks :
    Head(line) = Byte("sum", b) /\ datas = [n \in 1 .. BlockSize |-> Byte("data", b)]

(* A mutant of ReadSum: the sum is not compared.                           *)
ReadSum_Any ==
  /\ RecvByte("sum")
  /\ xpc' = "command"
  /\ got' = Append(got, datas)
  /\ block_number' = (block_number + 1) % Width
  /\ datas' = <<>> /\ Answer("ACK")
  /\ UNCHANGED receiving

(* A mutant of ReadSum: the block number has more than eight bits.         *)
ReadSum_Wide ==
  /\ RecvByte("sum")
  /\ IF SumIsRight
       THEN /\ xpc' = "command"
            /\ got' = Append(got, datas)
            /\ block_number' = block_number + 1
            /\ datas' = <<>> /\ Answer("ACK")
            /\ UNCHANGED receiving
       ELSE NotThisBlock

ReadSum ==
  /\ RecvByte("sum")
  /\ IF SumIsRight
       THEN /\ xpc' = "command"
            /\ got' = Append(got, datas)
            /\ block_number' = (block_number + 1) % Width
            /\ datas' = <<>> /\ Answer("ACK")
            /\ UNCHANGED receiving
       ELSE NotThisBlock

Command == CommandEOT \/ CommandBad \/ CommandIgnored \/ CommandSOH
XmodemRecv == Command \/ ReadNumber \/ ReadComplement \/ ReadData \/ ReadSum
Sender == SenderHears \/ SenderTimeout
Line == ByteChanges \/ ByteLost \/ ReplyLost

XmodemNext == XmodemRecv \/ XmodemWait \/ Sender \/ Line

XmodemSpec == XmodemInit /\ [][XmodemNext]_xvars

-----------------------------------------------------------------------------
(* Every variable of the transfer keeps its type.                          *)
XmodemTypeOK ==
  /\ xpc \in {"command", "number", "complement", "data", "sum", "ok", "failed"}
  /\ receiving \in BOOLEAN /\ block_number \in 0 .. (Width - 1)
  /\ Len(datas) <= BlockSize
  /\ sending \in 0 .. (NBlocks + 1)
  /\ looks \in Looks /\ faults \in 0 .. MaxFaults

(* What is in memory is the beginning of the file, each block once and in  *)
(* its place, whatever the line did, however often blocks were sent again  *)
(* and whatever bytes were taken for commands.  When the receiver says     *)
(* that the transfer is complete it is the whole file only if nothing but  *)
(* the sender's EOT is an EOT: the number of block 4 is one, and without   *)
(* the SOH before it the first three blocks are reported as the file.      *)
ImageIsFile ==
  /\ \A k \in DOMAIN got : got[k] = [n \in 1 .. BlockSize |-> Byte("data", k)]
  /\ xpc = "ok" /\ (\A byte \in Ordinary : looks[byte] # "EOT") => Len(got) = NBlocks
=============================================================================
