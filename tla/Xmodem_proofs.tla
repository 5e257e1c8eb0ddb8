--------------------------- MODULE Xmodem_proofs ---------------------------
(***************************************************************************)
(* What the XMODEM receiver leaves in memory, for every length of a file,  *)
(* every size of a block, every range of block numbers and any number of   *)
(* faults on the line.                                                     *)
(***************************************************************************)
EXTENDS Xmodem, SequenceTheorems, TLAPS

-----------------------------------------------------------------------------
(* Block numbers: two blocks that follow each other have different ones.   *)

(* n divided by w gives q and leaves r.                                    *)
Divides(n, w, q, r) ==
  w \in Nat \ {0} /\ q \in Int /\ r \in 0 .. (w - 1) /\ n \in Nat /\ n = w * q + r

(* A remainder is known by a quotient that goes with it.                   *)
LEMMA Remainder ==
  ASSUME NEW w, NEW q, NEW r, NEW n, Divides(n, w, q, r)
  PROVE  n % w = r
<1>0. w \in Nat \ {0} /\ q \in Int /\ r \in 0 .. (w - 1) /\ n \in Nat /\ n = w * q + r
  BY DEF Divides
<1> DEFINE p == n \div w
           s == n % w
           d == p - q
<1>1. p \in Int /\ s \in 0 .. (w - 1) /\ n = w * p + s
  BY <1>0
<1>2. d \in Int /\ w * d = r - s
  <2> HIDE DEF p, s
  <2> QED
    BY <1>0, <1>1
<1>3. d < 1
  <2>1. d >= 1 => w * d >= w
    <3> HIDE DEF d
    <3> QED
      BY <1>0, <1>2
  <2> HIDE DEF s, d
  <2> QED
    BY <2>1, <1>0, <1>1, <1>2
<1>4. d > -1
  <2>1. d <= -1 => w * d <= -w
    <3> HIDE DEF d
    <3> QED
      BY <1>0, <1>2
  <2> HIDE DEF s, d
  <2> QED
    BY <2>1, <1>0, <1>1, <1>2
<1>5. d = 0
  <2> HIDE DEF d
  <2> QED
    BY <1>0, <1>2, <1>3, <1>4
<1>6. r = s
  <2> HIDE DEF s, d
  <2> QED
    BY <1>0, <1>1, <1>2, <1>5
<1> QED
  BY <1>6

(* The number of the next block is got by adding one to that of this       *)
(* block, and is another number.                                           *)
LEMMA NumbersDiffer ==
  ASSUME NEW n \in Nat, NEW w \in Nat \ {0, 1}
  PROVE  /\ n % w \in 0 .. (w - 1)
         /\ (n + 1) % w = ((n % w) + 1) % w
         /\ (n + 1) % w # n % w
<1> DEFINE q == n \div w
           s == n % w
<1>1. q \in Int /\ s \in 0 .. (w - 1) /\ n = w * q + s
  OBVIOUS
<1>2. w \in Nat \ {0} /\ s + 1 \in Nat /\ s + 1 # s
  <2> HIDE DEF q, s
  <2> QED
    BY <1>1
<1>3. CASE s = w - 1
  <2> HIDE DEF q, s
  <2>1. Divides(n + 1, w, q + 1, 0) /\ Divides(s + 1, w, 1, 0)
    <3>1. n + 1 = w * (q + 1) + 0 /\ s + 1 = w * 1 + 0
      BY <1>1, <1>2, <1>3
    <3> QED
      BY <1>1, <1>2, <3>1 DEF Divides
  <2>2. (n + 1) % w = 0 /\ (s + 1) % w = 0
    BY <2>1, Remainder, Zenon
  <2>3. s # 0
    BY <1>3
  <2> QED
    BY <2>2, <2>3, <1>1 DEF s
<1>4. CASE s # w - 1
  <2> HIDE DEF q, s
  <2>1. Divides(n + 1, w, q, s + 1) /\ Divides(s + 1, w, 0, s + 1)
    <3>1. s + 1 \in 0 .. (w - 1) /\ n + 1 = w * q + (s + 1) /\ s + 1 = w * 0 + (s + 1)
      BY <1>1, <1>4
    <3> QED
      BY <1>1, <1>2, <3>1 DEF Divides
  <2>2. (n + 1) % w = s + 1 /\ (s + 1) % w = s + 1
    BY <2>1, Remainder, Zenon
  <2> QED
    BY <1>1, <1>2, <2>2 DEF s
<1> QED
  BY <1>1, <1>3, <1>4

-----------------------------------------------------------------------------
(* The line.  What is on it is the rest of block k, the last that was      *)
(* taken, and then the block after it: the sender goes on for an ACK only, *)
(* and each block is acknowledged once.  A block that is being read (r)    *)
(* has everything before it behind it.                                     *)

Kinds == {"SOH", "number", "complement", "data", "sum", "EOT", "noise"}
Bytes == [what : Kinds, b : Nat]

Of(b) ==
  CASE b \in Blocks ->
         {Byte("SOH", b), Byte("number", b % Width), Byte("complement", b % Width),
          Byte("data", b), Byte("sum", b)} \cup Noise
    [] b = NBlocks + 1 -> {Byte("EOT", 0)} \cup Noise
    [] OTHER -> Noise

(* The first c bytes of l are of block k, the others of the next.          *)
Cut(l, k, c) ==
  /\ \A i \in 1 .. c : l[i] \in Of(k)
  /\ \A i \in (c + 1) .. Len(l) : l[i] \in Of(k + 1)

OnLine(l, k, r, s) ==
  \E c \in 0 .. Len(l) :
    /\ Cut(l, k, c)
    /\ c # Len(l) => s = k + 1
    /\ r => c = 0

(* A byte is what it was made of.                                          *)
LEMMA ByteFields ==
  ASSUME NEW w \in Kinds, NEW n \in Nat
  PROVE  Byte(w, n) \in Bytes /\ Byte(w, n).what = w /\ Byte(w, n).b = n
BY DEF Byte, Bytes

(* What a byte of block b tells of it.                                     *)
LEMMA OfFacts ==
  ASSUME NEW b \in Nat, b <= NBlocks + 1
  PROVE  /\ Of(b) \subseteq Bytes
         /\ Noise \subseteq Of(b)
         /\ \A x \in Of(b) : x.what \in {"SOH", "data", "sum"} => x.b = b /\ b \in Blocks
         /\ \A x \in Of(b) :
              x.what \in {"number", "complement"} => x.b = b % Width /\ b \in Blocks
         /\ \A x \in Of(b) : x.what = "EOT" => b = NBlocks + 1
         /\ \A x \in Of(b) : x.what \notin {"SOH", "EOT"} => x \in Ordinary
<1> USE XmodemAssumption
<1>0. \A x \in Noise : x \in Bytes /\ x.what = "noise" /\ x \in Ordinary
  BY ByteFields DEF Noise, Kinds, Ordinary
<1>1. CASE b \in Blocks
  <2>1. b % Width \in Nat /\ b % Width \in 0 .. (Width - 1)
    BY <1>1, NumbersDiffer DEF Blocks
  <2>2. b # NBlocks + 1 /\ b \in Nat
    BY <1>1 DEF Blocks
  <2>3. Of(b) = {Byte("SOH", b), Byte("number", b % Width), Byte("complement", b % Width),
                 Byte("data", b), Byte("sum", b)} \cup Noise
    BY <1>1, <2>2 DEF Of
  <2>4. \A w \in Kinds : /\ Byte(w, b) \in Bytes /\ Byte(w, b).what = w /\ Byte(w, b).b = b
                          /\ Byte(w, b % Width) \in Bytes /\ Byte(w, b % Width).what = w
                          /\ Byte(w, b % Width).b = b % Width
    BY <2>1, <2>2, ByteFields
  <2>5. \A x \in Of(b) :
          \/ x \in Noise \/ x = Byte("SOH", b) \/ x = Byte("data", b) \/ x = Byte("sum", b)
          \/ x = Byte("number", b % Width) \/ x = Byte("complement", b % Width)
    BY <2>3
  <2>6. Noise \subseteq Of(b)
    BY <2>3
  <2>7. {Byte("number", b % Width), Byte("complement", b % Width), Byte("data", b), Byte("sum", b)}
          \subseteq Ordinary
    BY <1>1, <2>1 DEF Ordinary
  <2> QED
    BY <1>0, <1>1, <2>2, <2>4, <2>5, <2>6, <2>7 DEF Kinds
<1>2. CASE b = NBlocks + 1
  <2>1. b \notin Blocks
    BY <1>2 DEF Blocks
  <2>2. Of(b) = {Byte("EOT", 0)} \cup Noise
    BY <1>2, <2>1 DEF Of
  <2>3. Byte("EOT", 0) \in Bytes /\ Byte("EOT", 0).what = "EOT"
    BY ByteFields DEF Kinds
  <2> QED
    BY <1>0, <1>2, <2>2, <2>3
<1>3. CASE b \notin Blocks /\ b # NBlocks + 1
  <2>1. Of(b) = Noise
    BY <1>3 DEF Of
  <2> QED
    BY <1>0, <2>1
<1> QED
  BY <1>1, <1>2, <1>3

(* A packet, or the end of a transfer, is made of bytes of its block.      *)
LEMMA PacketOf ==
  ASSUME NEW n \in 1 .. (NBlocks + 1),
         NEW p, p = IF n \in Blocks THEN Packet(n) ELSE End
  PROVE  p \in Seq(Bytes) /\ \A i \in 1 .. Len(p) : p[i] \in Of(n)
<1> USE XmodemAssumption
<1>1. CASE n \in Blocks
  <2> DEFINE a == <<Byte("SOH", n), Byte("number", n % Width), Byte("complement", n % Width)>>
             d == [i \in 1 .. BlockSize |-> Byte("data", n)]
             e == <<Byte("sum", n)>>
  <2>0. Of(n) \subseteq Bytes /\ n \in Nat
    BY <1>1, OfFacts DEF Blocks
  <2>1. {Byte("SOH", n), Byte("number", n % Width), Byte("complement", n % Width),
         Byte("data", n), Byte("sum", n)} \subseteq Of(n)
    <3>1. n # NBlocks + 1
      BY <1>1 DEF Blocks
    <3> QED
      BY <1>1, <3>1 DEF Of
  <2>2. a \in Seq(Of(n)) /\ e \in Seq(Of(n))
    BY <2>1
  <2>3. d \in Seq(Of(n))
    BY <2>1
  <2>4. p = (a \o d) \o e
    BY <1>1 DEF Packet
  <2>5. p \in Seq(Of(n))
    <3> HIDE DEF a, d, e
    <3> QED
      BY ONLY <2>2, <2>3, <2>4, ConcatProperties
  <2> QED
    BY <2>0, <2>5, ElementOfSeq
<1>2. CASE n \notin Blocks
  <2>1. n = NBlocks + 1
    BY <1>2 DEF Blocks
  <2>2. p = <<Byte("EOT", 0)>> /\ Of(n) = {Byte("EOT", 0)} \cup Noise
    BY <1>2, <2>1 DEF End, Of
  <2>3. Byte("EOT", 0) \in Bytes
    BY ByteFields DEF Kinds
  <2>4. p \in Seq(Bytes) /\ Len(p) = 1 /\ p[1] = Byte("EOT", 0)
    <3>1. p = <<Byte("EOT", 0)>>
      BY <2>2
    <3>2. Byte("EOT", 0) \in Bytes
      BY <2>3
    <3> QED
      BY ONLY <3>1, <3>2
  <2> QED
    BY <2>2, <2>4
<1> QED
  BY <1>1, <1>2

(* A byte that is taken, or lost, leaves the others in order.              *)
LEMMA TailOnLine ==
  ASSUME NEW l \in Seq(Bytes), l # <<>>, NEW k \in Nat, NEW r \in BOOLEAN, NEW s \in Nat,
         OnLine(l, k, r, s)
  PROVE  OnLine(Tail(l), k, r, s)
<1>1. PICK c \in 0 .. Len(l) : Cut(l, k, c) /\ (c # Len(l) => s = k + 1) /\ (r => c = 0)
  BY DEF OnLine
<1> DEFINE d == IF c = 0 THEN 0 ELSE c - 1
           n == Len(l)
           t == Tail(l)
           m == Len(t)
<1>2. n \in Nat \ {0} /\ c \in 0 .. n
  BY EmptySeq
<1>3. m = n - 1 /\ \A i \in 1 .. m : t[i] = l[i + 1]
  BY HeadTailProperties
<1>4. /\ \A i \in 1 .. c : l[i] \in Of(k)
      /\ \A i \in (c + 1) .. n : l[i] \in Of(k + 1)
  BY <1>1 DEF Cut
<1>5. /\ \A i \in 1 .. d : t[i] \in Of(k)
      /\ \A i \in (d + 1) .. m : t[i] \in Of(k + 1)
      /\ d \in 0 .. m /\ (d # m => c # n) /\ (c = 0 => d = 0)
  <2> HIDE DEF n, t, m
  <2>1. d \in 0 .. m /\ (d # m => c # n) /\ (c = 0 => d = 0)
    BY <1>2, <1>3
  <2>2. \A i \in 1 .. d : i + 1 \in 1 .. c /\ i \in 1 .. m
    BY <1>2, <1>3
  <2>3. \A i \in (d + 1) .. m : i + 1 \in (c + 1) .. n /\ i \in 1 .. m
    BY <1>2, <1>3
  <2> HIDE DEF d
  <2> QED
    BY <1>3, <1>4, <2>1, <2>2, <2>3
<1> HIDE DEF d
<1> QED
  BY <1>1, <1>5 DEF OnLine, Cut

(* So does a byte that changes.                                            *)
LEMMA NoiseOnLine ==
  ASSUME NEW l \in Seq(Bytes), l # <<>>, NEW k \in Nat, k <= NBlocks,
         NEW r \in BOOLEAN, NEW s \in Nat, OnLine(l, k, r, s), NEW x \in Noise
  PROVE  /\ <<x>> \o Tail(l) \in Seq(Bytes)
         /\ OnLine(<<x>> \o Tail(l), k, r, s)
<1> DEFINE m == <<x>> \o Tail(l)
<1>0. x \in Bytes /\ x \in Of(k) /\ x \in Of(k + 1)
  BY OfFacts, XmodemAssumption
<1>1. PICK c \in 0 .. Len(l) : Cut(l, k, c) /\ (c # Len(l) => s = k + 1) /\ (r => c = 0)
  BY DEF OnLine
<1>2. Len(l) \in Nat \ {0}
  BY EmptySeq
<1>3. /\ Tail(l) \in Seq(Bytes) /\ Len(Tail(l)) = Len(l) - 1
      /\ \A i \in 1 .. Len(Tail(l)) : Tail(l)[i] = l[i + 1]
  BY HeadTailProperties
<1>4. <<x>> \in Seq(Bytes) /\ Len(<<x>>) = 1 /\ <<x>>[1] = x
  BY <1>0
<1>5. /\ m \in Seq(Bytes) /\ Len(m) = 1 + Len(Tail(l))
      /\ \A i \in 1 .. 1 + Len(Tail(l)) :
           m[i] = IF i <= 1 THEN <<x>>[i] ELSE Tail(l)[i - 1]
  BY ONLY <1>3, <1>4, ConcatProperties
<1> HIDE DEF m
<1>6. Len(m) = Len(l) /\ m[1] = x /\ \A i \in 2 .. Len(l) : m[i] = l[i]
  BY <1>2, <1>3, <1>4, <1>5
<1>7. Cut(m, k, c)
  BY <1>0, <1>1, <1>2, <1>6 DEF Cut
<1>8. OnLine(m, k, r, s)
  BY <1>1, <1>6, <1>7 DEF OnLine
<1> QED
  BY <1>5, <1>8 DEF m

(* So does the block the sender is at, behind what it has sent before.     *)
LEMMA PutOnLine ==
  ASSUME NEW l \in Seq(Bytes), NEW k \in Nat, NEW r \in BOOLEAN, NEW s \in {k, k + 1},
         s \in 1 .. (NBlocks + 1), r => s = k + 1, OnLine(l, k, r, s),
         NEW p, p = IF s \in Blocks THEN Packet(s) ELSE End
  PROVE  l \o p \in Seq(Bytes) /\ OnLine(l \o p, k, r, s)
<1>1. p \in Seq(Bytes) /\ \A i \in 1 .. Len(p) : p[i] \in Of(s)
  BY PacketOf
<1>2. PICK c \in 0 .. Len(l) : Cut(l, k, c) /\ (c # Len(l) => s = k + 1) /\ (r => c = 0)
  BY DEF OnLine
<1> DEFINE m == l \o p
           n == Len(l)
           o == Len(p)
           d == IF s = k THEN n + o ELSE c
<1>3. n \in Nat /\ o \in Nat /\ c \in 0 .. n
  BY <1>1, LenProperties
<1>4. /\ m \in Seq(Bytes) /\ Len(m) = n + o
      /\ \A i \in 1 .. n + o : m[i] = IF i <= n THEN l[i] ELSE p[i - n]
  BY ONLY <1>1, l \in Seq(Bytes), ConcatProperties
<1>5. /\ \A i \in 1 .. c : l[i] \in Of(k)
      /\ \A i \in (c + 1) .. n : l[i] \in Of(k + 1)
      /\ \A i \in 1 .. o : p[i] \in Of(s)
      /\ s # k + 1 => c = n
  BY <1>1, <1>2 DEF Cut
<1>6. d \in 0 .. (n + o) /\ (d # n + o => s = k + 1) /\ (r => d = 0)
  <2> HIDE DEF n, o
  <2> QED
    BY <1>2, <1>3
<1>7. \A i \in 1 .. n + o : m[i] \in (IF i <= d THEN Of(k) ELSE Of(k + 1))
  <2> SUFFICES ASSUME NEW i \in 1 .. n + o
               PROVE  m[i] \in (IF i <= d THEN Of(k) ELSE Of(k + 1))
    OBVIOUS
  <2> HIDE DEF n, o, m
  <2>1. CASE i <= n
    BY <1>3, <1>4, <1>5, <2>1
  <2>2. CASE i > n
    <3>1. i - n \in 1 .. o /\ m[i] = p[i - n]
      BY <1>3, <1>4, <2>2
    <3> QED
      BY <1>3, <1>5, <2>2, <3>1
  <2> QED
    BY <1>3, <2>1, <2>2
<1>8. Cut(m, k, d)
  <2> HIDE DEF n, o, m, d
  <2>1. /\ \A i \in 1 .. d : i \in 1 .. n + o /\ i <= d
        /\ \A i \in (d + 1) .. n + o : i \in 1 .. n + o /\ ~(i <= d)
    BY <1>3, <1>6
  <2> QED
    BY <1>4, <1>7, <2>1 DEF Cut
<1> HIDE DEF m, d
<1> QED
  BY <1>4, <1>6, <1>8 DEF OnLine, m

(* The byte at the head of the line is of block k or of the next.          *)
LEMMA HeadOnLine ==
  ASSUME NEW l \in Seq(Bytes), l # <<>>, NEW k \in Nat, NEW r \in BOOLEAN, NEW s \in Nat,
         OnLine(l, k, r, s)
  PROVE  /\ Head(l) \in Of(k) \cup Of(k + 1)
         /\ r => Head(l) \in Of(k + 1)
<1>1. PICK c \in 0 .. Len(l) : Cut(l, k, c) /\ (r => c = 0)
  BY DEF OnLine
<1>2. Len(l) \in Nat \ {0} /\ Head(l) = l[1]
  BY EmptySeq
<1> QED
  BY <1>1, <1>2 DEF Cut

(* The number of the next block is behind all that is left of block k.     *)
LEMMA NumberOnLine ==
  ASSUME NEW l \in Seq(Bytes), l # <<>>, NEW k \in 0 .. NBlocks, NEW s \in Nat,
         OnLine(l, k, FALSE, s), Head(l) = Byte("number", (k + 1) % Width)
  PROVE  s = k + 1 /\ OnLine(l, k, TRUE, s)
<1> USE XmodemAssumption
<1>1. PICK c \in 0 .. Len(l) : Cut(l, k, c) /\ (c # Len(l) => s = k + 1)
  BY DEF OnLine
<1>2. Len(l) \in Nat \ {0} /\ Head(l) = l[1]
  BY EmptySeq
<1>3. l[1] \notin Of(k)
  <2>1. (k + 1) % Width # k % Width /\ (k + 1) % Width \in Nat
    <3>1. k \in Nat /\ k + 1 \in Nat
      OBVIOUS
    <3>2. (k + 1) % Width # k % Width
      BY <3>1, NumbersDiffer
    <3>3. (k + 1) % Width \in 0 .. (Width - 1)
      BY <3>1, NumbersDiffer
    <3> QED
      BY <3>2, <3>3
  <2>2. l[1].what = "number" /\ l[1].b = (k + 1) % Width
    BY <1>2, <2>1, ByteFields DEF Kinds
  <2> QED
    BY <2>1, <2>2, OfFacts
<1>4. c = 0
  BY <1>1, <1>2, <1>3 DEF Cut
<1> QED
  BY <1>1, <1>2, <1>4 DEF OnLine

(* When a block is taken, it is the last that was taken.                   *)
LEMMA TakenOnLine ==
  ASSUME NEW l \in Seq(Bytes), NEW k \in Nat, OnLine(l, k, TRUE, k + 1)
  PROVE  OnLine(l, k + 1, FALSE, k + 1)
<1>1. \A i \in 1 .. Len(l) : l[i] \in Of(k + 1)
  BY DEF OnLine, Cut
<1>2. Len(l) \in 0 .. Len(l)
  BY LenProperties
<1>3. Cut(l, k + 1, Len(l))
  BY <1>1, <1>2 DEF Cut
<1> QED
  BY <1>2, <1>3 DEF OnLine

-----------------------------------------------------------------------------
(* The transfer.  The sender is at the block that was taken last, whose    *)
(* ACK is on its way or lost, or at the next one; so it is never ahead of  *)
(* the receiver, and a number that is right can only be the next block's.  *)

Reading == xpc \in {"complement", "data", "sum"}

Kept ==
  /\ XmodemTypeOK
  /\ line \in Seq(Bytes) /\ back \in Seq({"ACK", "NAK"})
  /\ datas \in Seq(Bytes) /\ (xpc = "data" => Len(datas) < BlockSize)
  /\ xpc \in {"number", "complement"} => datas = <<>>
  /\ got \in Seq(Seq(Bytes)) /\ Len(got) <= NBlocks
  /\ block_number = (Len(got) + 1) % Width

Replies ==
  /\ sending \in {Len(got), Len(got) + 1}
  /\ sending = 0 => line = <<>>
  /\ sending \in {0, Len(got) + 1} => \A i \in 1 .. Len(back) : back[i] # "ACK"
  /\ \A i, j \in 1 .. Len(back) : back[i] = "ACK" /\ back[j] = "ACK" => i = j
  /\ Reading => sending = Len(got) + 1

Window == Replies /\ OnLine(line, Len(got), Reading, sending)

XmodemInv == Kept /\ ImageIsFile /\ (~Finished => Window)

(* The transfer starts so.                                                 *)
LEMMA XmodemInvInit == XmodemInit => XmodemInv
<1> SUFFICES ASSUME XmodemInit
             PROVE  XmodemInv
  OBVIOUS
<1> USE XmodemAssumption DEF XmodemInit
<1>1. 1 % Width = 1 /\ 1 \in 0 .. (Width - 1)
  <2>1. Divides(1, Width, 0, 1) /\ 1 \in 0 .. (Width - 1)
    BY DEF Divides
  <2> QED
    BY <2>1, Remainder, Zenon
<1>2. Len(got) = 0 /\ Len(line) = 0 /\ Len(back) = 0 /\ Len(datas) = 0
  OBVIOUS
<1>3. Kept
  <2>1. XmodemTypeOK
    <3>1. Len(datas) <= BlockSize
      BY <1>2
    <3>2. sending \in 0 .. (NBlocks + 1) /\ faults \in 0 .. MaxFaults
      OBVIOUS
    <3> QED
      BY <1>1, <3>1, <3>2 DEF XmodemTypeOK
  <2>2. line \in Seq(Bytes) /\ back \in Seq({"ACK", "NAK"}) /\ datas \in Seq(Bytes)
    OBVIOUS
  <2>3. got \in Seq(Seq(Bytes)) /\ Len(got) <= NBlocks
    BY <1>2
  <2>4. block_number = (Len(got) + 1) % Width
    BY <1>1, <1>2
  <2> QED
    BY <2>1, <2>2, <2>3, <2>4 DEF Kept
<1>4. ImageIsFile
  BY <1>2 DEF ImageIsFile
<1>5. Replies
  BY <1>2 DEF Replies, Reading
<1>6. OnLine(line, Len(got), Reading, sending)
  BY <1>2 DEF OnLine, Cut, Reading
<1> QED
  BY <1>3, <1>4, <1>5, <1>6 DEF XmodemInv, Window

(* What the sender and the line do keeps it so.                            *)
LEMMA SenderStep == XmodemInv /\ (Sender \/ Line) => XmodemInv'
<1> SUFFICES ASSUME XmodemInv, Sender \/ Line
             PROVE  XmodemInv'
  OBVIOUS
<1> USE XmodemAssumption
<1>1. Kept /\ ImageIsFile /\ (~Finished => Window)
  BY DEF XmodemInv
<1>2. UNCHANGED recvvars /\ UNCHANGED looks
  BY DEF Sender, Line, SenderHears, SenderTimeout, ByteChanges, ByteLost, ReplyLost
<1>3. ImageIsFile' /\ Finished' = Finished /\ Reading' = Reading
  BY <1>1, <1>2 DEF ImageIsFile, Finished, Reading, recvvars
<1>4. Len(got) \in 0 .. NBlocks
  BY <1>1 DEF Kept
<1>5. CASE SenderHears
  <2> DEFINE n == IF sending = 0 \/ (Head(back) = "ACK" /\ sending <= NBlocks)
                    THEN sending + 1 ELSE sending
             p == IF n \in Blocks THEN Packet(n) ELSE End
  <2>1. sending' = n /\ n \in 1 .. (NBlocks + 1) /\ faults' = faults
    BY <1>1, <1>5 DEF SenderHears, Kept, XmodemTypeOK
  <2>2. /\ back # <<>> /\ back' = Tail(back) /\ back' \in Seq({"ACK", "NAK"})
        /\ Len(back) \in Nat \ {0} /\ Len(back') = Len(back) - 1
        /\ \A i \in 1 .. Len(back') : back'[i] = back[i + 1]
    BY <1>1, <1>5, HeadTailProperties, EmptySeq DEF SenderHears, Kept
  <2>3. line' = line \/ line' = line \o p
    BY <1>5 DEF SenderHears, Put
  <2>4. p \in Seq(Bytes)
    BY <2>1, PacketOf
  <2>5. Kept'
    <3>1. line' \in Seq(Bytes)
      <4>1. line \in Seq(Bytes)
        BY <1>1 DEF Kept
      <4> QED
        BY ONLY <2>3, <2>4, <4>1, ConcatProperties
    <3> QED
      BY <1>1, <1>2, <2>1, <2>2, <3>1 DEF Kept, XmodemTypeOK, recvvars
  <2>6. ASSUME ~Finished
        PROVE  Window'
    <3>1. Replies /\ OnLine(line, Len(got), Reading, sending)
      BY <1>1, <2>6 DEF Window
    <3>2. Head(back) = back[1] /\ 1 \in 1 .. Len(back)
      BY <2>2
    <3>3. n \in {Len(got), Len(got) + 1} /\ (Reading => n = Len(got) + 1)
      BY <1>4, <3>1, <3>2 DEF Replies
    <3>4. Replies'
      <4>1. \A i \in 1 .. Len(back') : i + 1 \in 1 .. Len(back) /\ i + 1 # 1
        BY <2>2
      <4>2. \A i, j \in 1 .. Len(back') : i + 1 = j + 1 => i = j
        BY <2>2
      <4>3. sending' = Len(got) + 1 => \A i \in 1 .. Len(back') : back'[i] # "ACK"
        <5>1. CASE sending = n
          BY <1>4, <2>1, <2>2, <3>1, <4>1, <5>1 DEF Replies
        <5>2. CASE sending # n
          BY <1>4, <2>1, <2>2, <3>1, <3>2, <4>1, <5>2 DEF Replies
        <5> QED
          BY <5>1, <5>2
      <4>4. \A i, j \in 1 .. Len(back') : back'[i] = "ACK" /\ back'[j] = "ACK" => i = j
        BY <2>2, <3>1, <4>1, <4>2 DEF Replies
      <4> QED
        BY <1>2, <1>3, <1>4, <2>1, <3>3, <4>3, <4>4 DEF Replies, recvvars
    <3>5. OnLine(line, Len(got), Reading, n)
      <4>1. CASE n = sending
        BY <3>1, <4>1
      <4>2. CASE n # sending
        <5>1. n = Len(got) + 1
          BY <1>4, <3>1, <3>3, <4>2 DEF Replies
        <5> QED
          BY <3>1, <5>1 DEF OnLine
      <4> QED
        BY <4>1, <4>2
    <3>6. OnLine(line', Len(got), Reading, n)
      <4>1. line \in Seq(Bytes) /\ Len(got) \in Nat /\ Reading \in BOOLEAN
        BY <1>1, <1>4 DEF Kept, Reading
      <4>2. OnLine(line \o p, Len(got), Reading, n)
        <5> HIDE DEF n
        <5> QED
          BY <2>1, <3>3, <3>5, <4>1, PutOnLine
      <4> QED
        BY <2>3, <3>5, <4>2
    <3> QED
      BY <1>2, <1>3, <2>1, <3>4, <3>6 DEF Window, recvvars
  <2> QED
    BY <1>3, <2>5, <2>6 DEF XmodemInv
<1>6. CASE SenderTimeout
  <2> DEFINE p == IF sending \in Blocks THEN Packet(sending) ELSE End
  <2>1. ~Finished /\ sending \in 1 .. (NBlocks + 1) /\ line' = line \o p
        /\ UNCHANGED <<sending, back, faults>>
    BY <1>1, <1>6 DEF SenderTimeout, Put, Kept, XmodemTypeOK
  <2>2. Replies /\ OnLine(line, Len(got), Reading, sending)
    BY <1>1, <2>1 DEF Window
  <2>3. line' \in Seq(Bytes) /\ OnLine(line', Len(got), Reading, sending)
    <3>1. line \in Seq(Bytes) /\ Len(got) \in Nat /\ Reading \in BOOLEAN
      BY <1>1, <1>4 DEF Kept, Reading
    <3>2. sending \in {Len(got), Len(got) + 1} /\ (Reading => sending = Len(got) + 1)
      BY <2>2 DEF Replies
    <3> QED
      BY <2>1, <2>2, <3>1, <3>2, PutOnLine
  <2>4. Kept'
    BY <1>1, <1>2, <2>1, <2>3 DEF Kept, XmodemTypeOK, recvvars
  <2>5. Replies'
    <3>1. sending' # 0 /\ sending' = sending /\ back' = back /\ got' = got
      BY <1>2, <2>1 DEF recvvars
    <3> QED
      BY ONLY <1>3, <2>2, <3>1 DEF Replies
  <2> QED
    BY <1>2, <1>3, <2>1, <2>3, <2>4, <2>5 DEF XmodemInv, Window, recvvars
<1>7. CASE ByteChanges \/ ByteLost
  <2>1. /\ line # <<>> /\ UNCHANGED <<sending, back>> /\ faults' = faults + 1 /\ faults < MaxFaults
        /\ line' = Tail(line) \/ \E x \in Noise : line' = <<x>> \o Tail(line)
    BY <1>7 DEF ByteChanges, ByteLost
  <2>2. line \in Seq(Bytes)
    BY <1>1 DEF Kept
  <2>3. \A x \in Noise : x \in Bytes
    BY ByteFields DEF Noise, Kinds
  <2>4. line' \in Seq(Bytes)
    <3>1. Tail(line) \in Seq(Bytes) /\ \A x \in Noise : <<x>> \in Seq(Bytes)
      BY <2>1, <2>2, <2>3, HeadTailProperties
    <3> QED
      BY ONLY <2>1, <3>1, ConcatProperties
  <2>5. Kept'
    <3>1. faults' \in 0 .. MaxFaults
      BY <1>1, <2>1 DEF Kept, XmodemTypeOK
    <3> QED
      BY <1>1, <1>2, <2>1, <2>4, <3>1 DEF Kept, XmodemTypeOK, recvvars
  <2>6. ASSUME ~Finished
        PROVE  Window'
    <3>1. Replies /\ OnLine(line, Len(got), Reading, sending)
      BY <1>1, <2>6 DEF Window
    <3>2. Len(got) \in Nat /\ Len(got) <= NBlocks /\ Reading \in BOOLEAN /\ sending \in Nat
      BY <1>1, <1>4 DEF Reading, Kept, XmodemTypeOK
    <3>3. OnLine(Tail(line), Len(got), Reading, sending)
      BY <2>1, <2>2, <3>1, <3>2, TailOnLine
    <3>4. \A x \in Noise : OnLine(<<x>> \o Tail(line), Len(got), Reading, sending)
      BY <2>1, <2>2, <3>1, <3>2, NoiseOnLine
    <3>5. OnLine(line', Len(got), Reading, sending)
      BY <2>1, <3>3, <3>4
    <3>6. Replies'
      BY <1>2, <1>3, <2>1, <3>1 DEF Replies, recvvars
    <3> QED
      BY <1>2, <1>3, <2>1, <3>5, <3>6 DEF Window, recvvars
  <2> QED
    BY <1>3, <2>5, <2>6 DEF XmodemInv
<1>8. CASE ReplyLost
  <2>1. back # <<>> /\ UNCHANGED <<sending, line>> /\ faults' \in 0 .. MaxFaults
    BY <1>1, <1>8 DEF ReplyLost, Kept, XmodemTypeOK
  <2>2. /\ back' \in Seq({"ACK", "NAK"})
        /\ Len(back) \in Nat \ {0} /\ Len(back') = Len(back) - 1
        /\ \A i \in 1 .. Len(back') : back'[i] = back[i + 1]
    BY <1>1, <1>8, HeadTailProperties, EmptySeq DEF ReplyLost, Kept
  <2>3. Kept'
    BY <1>1, <1>2, <2>1, <2>2 DEF Kept, XmodemTypeOK, recvvars
  <2>4. ASSUME ~Finished
        PROVE  Window'
    <3>1. Replies /\ OnLine(line, Len(got), Reading, sending)
      BY <1>1, <2>4 DEF Window
    <3>2. /\ \A i \in 1 .. Len(back') : i + 1 \in 1 .. Len(back)
          /\ \A i, j \in 1 .. Len(back') : i + 1 = j + 1 => i = j
      BY <2>2
    <3>3. Replies'
      BY <1>2, <1>3, <2>1, <2>2, <3>1, <3>2 DEF Replies, recvvars
    <3> QED
      BY <1>2, <1>3, <2>1, <3>1, <3>3 DEF Window, recvvars
  <2> QED
    BY <1>3, <2>3, <2>4 DEF XmodemInv
<1> QED
  BY <1>5, <1>6, <1>7, <1>8 DEF Sender, Line

(* A NAK asks for nothing new.                                             *)
LEMMA NakReplies ==
  ASSUME XmodemInv, ~Finished, UNCHANGED <<sending, got>>, line' \in {line, Tail(line)},
         sending = 0 => line' = <<>>,
         back' \in {back, Append(back, "NAK")}, Reading' => sending = Len(got) + 1
  PROVE  back' \in Seq({"ACK", "NAK"}) /\ Replies'
<1>1. back \in Seq({"ACK", "NAK"}) /\ Replies
  BY DEF XmodemInv, Kept, Window
<1>2. CASE back' = back
  BY <1>1, <1>2 DEF Replies
<1>3. CASE back' = Append(back, "NAK")
  <2>1. /\ back' \in Seq({"ACK", "NAK"}) /\ Len(back') = Len(back) + 1 /\ Len(back) \in Nat
        /\ \A i \in 1 .. Len(back) : back'[i] = back[i]
        /\ back'[Len(back) + 1] = "NAK"
    BY <1>1, <1>3, AppendProperties, LenProperties
  <2>2. \A i \in 1 .. Len(back') : back'[i] = "ACK" => i \in 1 .. Len(back) /\ back[i] = "ACK"
    BY <2>1
  <2> QED
    BY <1>1, <2>1, <2>2 DEF Replies
<1> QED
  BY <1>2, <1>3

(* A byte that is no part of the next block leaves what has been taken.    *)
LEMMA LeftStep ==
  ASSUME XmodemInv, ~Finished, line # <<>>, line' = Tail(line),
         UNCHANGED <<sending, looks, faults, block_number, got>>, receiving' \in BOOLEAN,
         xpc' \in {"command", "number", "failed"}, datas' \in {datas, <<>>},
         xpc' = "number" => datas' = <<>>,
         back' \in {back, Append(back, "NAK")}
  PROVE  XmodemInv'
<1> USE XmodemAssumption
<1>1. Kept /\ ImageIsFile /\ Replies /\ OnLine(line, Len(got), Reading, sending)
  BY DEF XmodemInv, Window
<1>2. line \in Seq(Bytes) /\ Len(got) \in Nat /\ sending \in Nat /\ Reading \in BOOLEAN
  BY <1>1 DEF Kept, XmodemTypeOK, Reading
<1>3. line' \in Seq(Bytes) /\ Reading' = FALSE /\ sending # 0
  BY <1>1, <1>2, HeadTailProperties DEF Reading, Replies
<1>4. OnLine(line', Len(got), FALSE, sending)
  <2>1. OnLine(line', Len(got), Reading, sending)
    BY <1>1, <1>2, TailOnLine
  <2> QED
    BY <2>1 DEF OnLine
<1>5. Replies' /\ back' \in Seq({"ACK", "NAK"})
  BY <1>3, NakReplies
<1>6. Kept'
  <2>1. datas' \in Seq(Bytes) /\ Len(datas') <= BlockSize
    <3>1. CASE datas' = datas
      BY <1>1, <3>1 DEF Kept, XmodemTypeOK
    <3>2. CASE datas' = <<>>
      <4>1. Len(datas') = 0
        BY <3>2
      <4> QED
        BY <3>2, <4>1
    <3> QED
      BY <3>1, <3>2
  <2> QED
    BY <1>1, <1>3, <1>5, <2>1 DEF Kept, XmodemTypeOK
<1>7. ImageIsFile'
  BY <1>1 DEF ImageIsFile
<1> QED
  BY <1>3, <1>4, <1>5, <1>6, <1>7 DEF XmodemInv, Window

(* A byte of the block that is being read brings it forward.               *)
LEMMA ReadingStep ==
  ASSUME XmodemInv, line # <<>>, line' = Tail(line), Reading', ~Finished,
         Reading \/ Head(line) = Byte("number", block_number),
         UNCHANGED <<sending, looks, faults, block_number, got, receiving, back>>,
         datas' \in Seq(Bytes), Len(datas') <= BlockSize,
         xpc' = "data" => Len(datas') < BlockSize, xpc' = "complement" => datas' = <<>>
  PROVE  XmodemInv'
<1> USE XmodemAssumption
<1>1. Kept /\ ImageIsFile /\ Replies /\ OnLine(line, Len(got), Reading, sending)
  BY DEF XmodemInv, Window
<1>2. line \in Seq(Bytes) /\ Len(got) \in 0 .. NBlocks /\ sending \in Nat
  BY <1>1 DEF Kept, XmodemTypeOK
<1>3. sending = Len(got) + 1 /\ OnLine(line, Len(got), TRUE, sending)
  <2>1. CASE Reading
    BY <1>1, <2>1 DEF Replies, OnLine
  <2>2. CASE ~Reading
    <3>1. Head(line) = Byte("number", (Len(got) + 1) % Width)
      BY <1>1, <2>2 DEF Kept
    <3>2. OnLine(line, Len(got), FALSE, sending)
      BY <1>1 DEF OnLine
    <3> QED
      BY <1>2, <3>1, <3>2, NumberOnLine
  <2> QED
    BY <2>1, <2>2
<1>4. OnLine(line', Len(got), TRUE, sending) /\ line' \in Seq(Bytes)
  <2>1. Len(got) \in Nat /\ TRUE \in BOOLEAN
    BY <1>2
  <2>2. line' \in Seq(Bytes)
    BY <1>2, HeadTailProperties
  <2> QED
    BY <1>2, <1>3, <2>1, <2>2, TailOnLine
<1>5. Replies'
  BY <1>1, <1>2, <1>3 DEF Replies
<1>6. Kept'
  BY <1>1, <1>4 DEF Kept, XmodemTypeOK, Reading
<1>7. ImageIsFile'
  BY <1>1 DEF ImageIsFile, Reading
<1> QED
  BY <1>4, <1>5, <1>6, <1>7 DEF XmodemInv, Window, Reading

(* The block that is taken is the next one of the file.                    *)
LEMMA TakenStep ==
  ASSUME XmodemInv, RecvByte("sum"), SumIsRight,
         xpc' = "command", got' = Append(got, datas), datas' = <<>>, Answer("ACK"),
         block_number' = (block_number + 1) % Width, UNCHANGED receiving
  PROVE  XmodemInv'
<1> USE XmodemAssumption
<1> DEFINE k == Len(got)
<1>1. /\ Kept /\ ImageIsFile /\ Replies /\ OnLine(line, k, TRUE, sending)
      /\ sending = k + 1 /\ k \in 0 .. NBlocks
  <2>1. Reading = TRUE /\ ~Finished
    BY DEF RecvByte, Reading, Finished
  <2>2. Kept /\ ImageIsFile /\ Replies /\ OnLine(line, k, Reading, sending)
    BY <2>1 DEF XmodemInv, Window
  <2>3. k \in 0 .. NBlocks
    BY <2>2, LenProperties DEF Kept
  <2>4. sending = k + 1
    BY <2>1, <2>2 DEF Replies
  <2> QED
    BY <2>1, <2>2, <2>3, <2>4
<1>2. /\ line # <<>> /\ line' = Tail(line) /\ UNCHANGED <<sending, looks, faults>>
      /\ line \in Seq(Bytes) /\ sending \in Nat
  BY <1>1 DEF RecvByte, Kept, XmodemTypeOK
<1>3. k + 1 \in Blocks /\ datas = [n \in 1 .. BlockSize |-> Byte("data", k + 1)]
  <2>1. PICK b \in Blocks :
          Head(line) = Byte("sum", b) /\ datas = [n \in 1 .. BlockSize |-> Byte("data", b)]
    BY DEF SumIsRight
  <2>2. Head(line) \in Of(k + 1)
    <3>1. k \in Nat /\ TRUE \in BOOLEAN
      BY <1>1
    <3> HIDE DEF k
    <3> QED
      BY <1>1, <1>2, <3>1, HeadOnLine
  <2>3. Head(line).what = "sum" /\ Head(line).b = b
    BY <2>1, ByteFields DEF Kinds, Blocks
  <2>4. b = k + 1
    BY <1>1, <2>2, <2>3, OfFacts
  <2> QED
    BY <2>1, <2>4
<1>4. /\ got' \in Seq(Seq(Bytes)) /\ Len(got') = k + 1 /\ got'[k + 1] = datas
      /\ \A i \in 1 .. k : got'[i] = got[i]
  BY <1>1, AppendProperties DEF Kept
<1>5. Kept'
  <2>1. block_number' = (k + 2) % Width /\ block_number' \in 0 .. (Width - 1)
    <3>1. k + 1 \in Nat /\ k + 2 = (k + 1) + 1 /\ k + 2 \in Nat
      BY <1>1
    <3>2. block_number' = (((k + 1) % Width) + 1) % Width
      BY <1>1 DEF Kept
    <3>3. (k + 2) % Width = (((k + 1) % Width) + 1) % Width
      BY <3>1, NumbersDiffer
    <3>4. (k + 2) % Width \in 0 .. (Width - 1)
      BY <3>1, NumbersDiffer
    <3> QED
      BY <3>2, <3>3, <3>4
  <2>2. back' \in Seq({"ACK", "NAK"})
    BY <1>1, AppendProperties DEF Kept, Answer
  <2>3. line' \in Seq(Bytes)
    BY <1>2, HeadTailProperties
  <2>4. datas' \in Seq(Bytes) /\ Len(datas') = 0
    OBVIOUS
  <2>5. Len(got') <= NBlocks /\ Len(got') + 1 = k + 2
    BY <1>1, <1>3, <1>4 DEF Blocks
  <2> QED
    BY <1>1, <1>2, <1>4, <2>1, <2>2, <2>3, <2>4, <2>5 DEF Kept, XmodemTypeOK
<1>6. ImageIsFile'
  <2>1. DOMAIN got = 1 .. k /\ DOMAIN got' = 1 .. k + 1
    BY <1>1, <1>4, LenProperties DEF Kept
  <2>2. \A i \in 1 .. k + 1 : got'[i] = [n \in 1 .. BlockSize |-> Byte("data", i)]
    <3>1. \A i \in 1 .. k : got[i] = [n \in 1 .. BlockSize |-> Byte("data", i)]
      BY <1>1, <2>1 DEF ImageIsFile
    <3>2. \A i \in 1 .. k + 1 : i \in 1 .. k \/ i = k + 1
      BY <1>1
    <3> QED
      BY <1>3, <1>4, <3>1, <3>2
  <2> QED
    BY <2>1, <2>2 DEF ImageIsFile
<1>7. Replies'
  <2>1. /\ Len(back') = Len(back) + 1 /\ Len(back) \in Nat
        /\ \A i \in 1 .. Len(back) : back'[i] = back[i]
    BY <1>1, AppendProperties, LenProperties DEF Kept, Answer
  <2>2. \A i \in 1 .. Len(back) : back[i] # "ACK"
    BY <1>1 DEF Replies
  <2>3. \A i \in 1 .. Len(back') : back'[i] = "ACK" => i = Len(back) + 1
    BY <2>1, <2>2
  <2> HIDE DEF k
  <2> QED
    BY <1>1, <1>2, <1>4, <2>3 DEF Replies, Reading
<1>8. OnLine(line', k + 1, FALSE, sending)
  <2>1. k \in Nat /\ Tail(line) \in Seq(Bytes) /\ OnLine(Tail(line), k, TRUE, sending)
    <3>1. k \in Nat /\ TRUE \in BOOLEAN
      BY <1>1
    <3>2. Tail(line) \in Seq(Bytes)
      BY <1>2, HeadTailProperties
    <3> HIDE DEF k
    <3> QED
      BY <1>1, <1>2, <3>1, <3>2, TailOnLine
  <2> HIDE DEF k
  <2> QED
    BY <1>1, <1>2, <2>1, TakenOnLine
<1>9. Reading' = FALSE
  BY DEF Reading
<1> QED
  BY <1>2, <1>4, <1>5, <1>6, <1>7, <1>8, <1>9 DEF XmodemInv, Window

(* The receiver says that it has all when it has, if no other byte looks   *)
(* like the end.                                                           *)
LEMMA EotStep == XmodemInv /\ CommandEOT => XmodemInv'
<1> SUFFICES ASSUME XmodemInv, CommandEOT
             PROVE  XmodemInv'
  OBVIOUS
<1> USE XmodemAssumption
<1>1. /\ xpc = "command" /\ line # <<>> /\ line' = Tail(line) /\ LooksLike(Head(line)) = "EOT"
      /\ xpc' = "ok" /\ back' = Append(back, "ACK")
      /\ UNCHANGED <<receiving, block_number, got, datas, sending, looks, faults>>
  BY DEF CommandEOT, RecvByte, Answer
<1>2. Kept /\ ImageIsFile /\ OnLine(line, Len(got), Reading, sending)
  BY <1>1 DEF XmodemInv, Window, Finished
<1>3. line \in Seq(Bytes) /\ Len(got) \in 0 .. NBlocks /\ sending \in Nat /\ Reading \in BOOLEAN
  BY <1>2 DEF Kept, XmodemTypeOK, Reading
<1>4. Kept'
  <2>1. line' \in Seq(Bytes) /\ back' \in Seq({"ACK", "NAK"})
    BY <1>1, <1>2, <1>3, HeadTailProperties, AppendProperties DEF Kept
  <2> QED
    BY <1>1, <1>2, <2>1 DEF Kept, XmodemTypeOK
<1>5. (\A byte \in Ordinary : looks[byte] # "EOT") => Len(got) = NBlocks
  <2> SUFFICES ASSUME \A byte \in Ordinary : looks[byte] # "EOT"
               PROVE  Len(got) = NBlocks
    OBVIOUS
  <2>1. PICK k \in {Len(got), Len(got) + 1} : Head(line) \in Of(k)
    BY <1>1, <1>2, <1>3, HeadOnLine
  <2>2. k \in Nat /\ k <= NBlocks + 1
    BY <1>3
  <2>3. Head(line).what = "EOT"
    <3>1. Head(line).what \notin {"SOH", "EOT"} => Head(line) \in Ordinary
      BY <2>1, <2>2, OfFacts
    <3> QED
      BY <1>1, <3>1 DEF LooksLike
  <2>4. k = NBlocks + 1
    BY <2>1, <2>2, <2>3, OfFacts
  <2> QED
    BY <1>3, <2>4
<1>6. ImageIsFile' /\ Finished'
  BY <1>1, <1>2, <1>5 DEF ImageIsFile, Finished
<1> QED
  BY <1>4, <1>6 DEF XmodemInv

(* Every step of the receiver keeps it so.                                 *)
LEMMA ReceiverStep == XmodemInv /\ (XmodemRecv \/ XmodemWait) => XmodemInv'
<1> SUFFICES ASSUME XmodemInv, XmodemRecv \/ XmodemWait
             PROVE  XmodemInv'
  OBVIOUS
<1> USE XmodemAssumption DEF RecvByte, Answer, NotThisBlock, recvvars
<1>1. Kept
  BY DEF XmodemInv
<1>2. CASE CommandEOT
  BY <1>2, EotStep
<1>3. CASE CommandBad \/ CommandIgnored \/ CommandSOH
  <2>1. ~Finished /\ receiving' \in BOOLEAN /\ xpc' \in {"command", "number", "failed"}
    BY <1>1, <1>3 DEF CommandBad, CommandIgnored, CommandSOH, Finished, Kept, XmodemTypeOK
  <2>2. /\ line # <<>> /\ line' = Tail(line) /\ datas' \in {datas, <<>>} /\ back' = back
        /\ xpc' = "number" => datas' = <<>>
        /\ UNCHANGED <<sending, looks, faults, block_number, got>>
    BY <1>3 DEF CommandBad, CommandIgnored, CommandSOH
  <2> QED
    BY <2>1, <2>2, LeftStep
<1>4. CASE ReadNumber \/ ReadComplement
  <2>1. /\ line # <<>> /\ line' = Tail(line) /\ ~Finished
        /\ UNCHANGED <<sending, looks, faults, block_number, got, receiving, datas>>
    BY <1>4 DEF ReadNumber, ReadComplement, Finished
  <2>2. CASE NotThisBlock
    BY <1>1, <2>1, <2>2, LeftStep DEF Kept, XmodemTypeOK
  <2>3. CASE ~NotThisBlock
    <3>1. /\ xpc' \in {"complement", "data"} /\ back' = back
          /\ Reading \/ Head(line) = Byte("number", block_number)
          /\ xpc \in {"number", "complement"}
      BY <1>4, <2>3 DEF ReadNumber, ReadComplement, Reading
    <3>2. datas' = <<>> /\ Len(datas') = 0 /\ datas' \in Seq(Bytes) /\ Reading'
      BY <1>1, <2>1, <3>1 DEF Kept, Reading
    <3>3. Len(datas') <= BlockSize /\ Len(datas') < BlockSize
      BY <3>2
    <3> QED
      BY <2>1, <3>1, <3>2, <3>3, ReadingStep
  <2> QED
    BY <2>2, <2>3
<1>5. CASE ReadData
  <2>1. /\ line # <<>> /\ line' = Tail(line) /\ ~Finished /\ Reading /\ xpc = "data"
        /\ datas' = Append(datas, Head(line)) /\ xpc' \in {"data", "sum"}
        /\ xpc' = "data" => Len(datas) + 1 # BlockSize
        /\ UNCHANGED <<sending, looks, faults, block_number, got, receiving, back>>
    BY <1>5 DEF ReadData, Finished, Reading
  <2>2. datas \in Seq(Bytes) /\ Len(datas) < BlockSize /\ line \in Seq(Bytes)
    BY <1>1, <2>1 DEF Kept
  <2>3. datas' \in Seq(Bytes) /\ Len(datas') = Len(datas) + 1 /\ Len(datas) \in Nat
    BY <2>1, <2>2, HeadTailProperties, AppendProperties, LenProperties
  <2>4. Len(datas') <= BlockSize /\ (xpc' = "data" => Len(datas') < BlockSize)
    BY <2>1, <2>2, <2>3
  <2>5. Reading'
    BY <2>1 DEF Reading
  <2> QED
    BY <2>1, <2>3, <2>4, <2>5, ReadingStep
<1>6. CASE ReadSum
  <2>1. CASE SumIsRight
    BY <1>6, <2>1, TakenStep DEF ReadSum
  <2>2. CASE ~SumIsRight
    <3>1. /\ line # <<>> /\ line' = Tail(line) /\ ~Finished
          /\ UNCHANGED <<sending, looks, faults>> /\ NotThisBlock
      BY <1>6, <2>2 DEF ReadSum, Finished
    <3> QED
      BY <1>1, <3>1, LeftStep DEF Kept, XmodemTypeOK
  <2> QED
    BY <2>1, <2>2
<1>7. CASE XmodemWait
  <2>1. /\ ~Finished /\ ~Finished' /\ line = <<>> /\ back' = Append(back, "NAK")
        /\ UNCHANGED <<recvvars, sending, line, looks, faults>>
    BY <1>7 DEF XmodemWait, Finished
  <2>2. Replies /\ OnLine(line, Len(got), Reading, sending) /\ ImageIsFile
    BY <2>1 DEF XmodemInv, Window
  <2>3. Reading' = Reading
    BY <2>1 DEF Reading
  <2>4. Replies' /\ back' \in Seq({"ACK", "NAK"})
    BY <2>1, <2>2, <2>3, NakReplies DEF Replies
  <2>5. Kept' /\ ImageIsFile'
    BY <1>1, <2>1, <2>2, <2>4 DEF Kept, XmodemTypeOK, ImageIsFile
  <2> QED
    BY <2>1, <2>2, <2>3, <2>4, <2>5 DEF XmodemInv, Window
<1> QED
  BY <1>2, <1>3, <1>4, <1>5, <1>6, <1>7 DEF XmodemRecv, Command

(* Together: the invariant, for every behaviour.                           *)
LEMMA XmodemInductive == XmodemSpec => []XmodemInv
<1>1. XmodemInv /\ [XmodemNext]_xvars => XmodemInv'
  <2> SUFFICES ASSUME XmodemInv, [XmodemNext]_xvars
               PROVE  XmodemInv'
    OBVIOUS
  <2>1. CASE UNCHANGED xvars
    <3>1. UNCHANGED <<xpc, receiving, block_number, got, datas, sending, line, back, looks, faults>>
      BY <2>1 DEF xvars, recvvars, linevars
    <3>2. Kept' = Kept /\ ImageIsFile' = ImageIsFile /\ Finished' = Finished /\ Reading' = Reading
      BY <3>1 DEF Kept, XmodemTypeOK, ImageIsFile, Finished, Reading
    <3>3. Replies' = Replies
      BY <3>1, <3>2 DEF Replies
    <3> QED
      BY <3>1, <3>2, <3>3 DEF XmodemInv, Window
  <2> QED
    BY <2>1, SenderStep, ReceiverStep DEF XmodemNext
<1> QED
  BY <1>1, XmodemInvInit, PTL DEF XmodemSpec

(* The bootloader keeps every variable of a transfer in its type: a block  *)
(* is never longer than its buffer, nor a block number wider than a byte.  *)
THEOREM XmodemTypes == XmodemSpec => []XmodemTypeOK
<1>1. XmodemInv => XmodemTypeOK
  BY DEF XmodemInv, Kept
<1> QED
  BY <1>1, XmodemInductive, PTL

(* What xmodem_recv() leaves in memory is the beginning of the file, each  *)
(* block once and in its place, whatever is lost, changed, sent again or   *)
(* taken for a command.  That it is the whole file when it says so, is so  *)
(* only where no number, complement, data byte, check sum or changed byte  *)
(* is an EOT: block 4's number is.                                         *)
THEOREM ImageRight == XmodemSpec => []ImageIsFile
<1>1. XmodemInv => ImageIsFile
  BY DEF XmodemInv
<1> QED
  BY <1>1, XmodemInductive, PTL

(* Until a transfer is over the sender is at the block that was taken last *)
(* or at the next one: never so far away that a block number modulo 256    *)
(* could be taken for another, and never behind what an ACK said.          *)
SenderInStep == ~Finished => sending \in {Len(got), Len(got) + 1}

THEOREM InStep == XmodemSpec => []SenderInStep
<1>1. XmodemInv => SenderInStep
  BY DEF XmodemInv, Window, Replies, SenderInStep
<1> QED
  BY <1>1, XmodemInductive, PTL

(* What xmodem_recv() has written stays: a step leaves buf as it is or     *)
(* moves it past the next block of the file, and nothing is written after  *)
(* the transfer is over.                                                   *)
CopyStep ==
  /\ ~Finished
  /\ got' = Append(got, [n \in 1 .. BlockSize |-> Byte("data", Len(got) + 1)])

THEOREM CopiesInOrder == XmodemSpec => [][CopyStep]_got
<1>1. XmodemInv /\ XmodemInv' /\ [XmodemNext]_xvars => [CopyStep]_got
  <2> SUFFICES ASSUME XmodemInv, XmodemInv', [XmodemNext]_xvars, got' # got
               PROVE  CopyStep
    OBVIOUS
  <2>1. ReadSum /\ SumIsRight
    BY DEF XmodemNext, XmodemRecv, Command, Sender, Line, xvars, recvvars, linevars,
           SenderHears, SenderTimeout, ByteChanges, ByteLost, ReplyLost, XmodemWait,
           CommandEOT, CommandBad, CommandIgnored, CommandSOH, NotThisBlock,
           ReadNumber, ReadComplement, ReadData, ReadSum
  <2>2. got' = Append(got, datas) /\ got \in Seq(Seq(Bytes)) /\ datas \in Seq(Bytes)
    BY <2>1 DEF ReadSum, XmodemInv, Kept
  <2>3. Len(got') = Len(got) + 1 /\ got'[Len(got) + 1] = datas /\ Len(got) + 1 \in DOMAIN got'
    BY <2>2
  <2>4. datas = [n \in 1 .. BlockSize |-> Byte("data", Len(got) + 1)]
    BY <2>3 DEF XmodemInv, ImageIsFile
  <2>5. ~Finished
    BY <2>1 DEF ReadSum, RecvByte, Finished
  <2> QED
    BY <2>2, <2>4, <2>5 DEF CopyStep
<1> QED
  BY <1>1, XmodemInductive, PTL DEF XmodemSpec
=============================================================================
