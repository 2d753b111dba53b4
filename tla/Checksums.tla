------------------------------ MODULE Checksums ------------------------------
(***************************************************************************)
(* compute_udp_checksum and compute_icmp_checksum of                       *)
(* vika5/puzzlesolver.cpp and checksumCalc of vika5/puzzlesolver1.cpp,     *)
(* loop by loop, next to the Internet checksum of RFC 1071 they are meant  *)
(* to compute.                                                             *)
(*                                                                         *)
(* The machine is little-endian: a 16-bit load sees the two bytes of a     *)
(* word of the packet exchanged.  compute_udp_checksum swaps them back     *)
(* with ntohs(); compute_icmp_checksum adds them as they are and its       *)
(* caller stores the result as it is; checksumCalc puts a word together    *)
(* from its bytes.  A byte holds one of Half values, a word one of         *)
(* Half * Half, and the accumulator two words.                             *)
(***************************************************************************)
EXTENDS Integers, Sequences

CONSTANTS
  Half,       \* values of a byte: 256 in the code
  MaxWords    \* bound: whole words of the buffer

\* A buffer is at most as long as the length field of its packet can say, half
\* as many words as a word has values: its sum fits the accumulator.
ASSUME WidthAssumption ==
  Half \in Nat \ {0, 1} /\ MaxWords \in 0..(Half * Half)

VARIABLES
  algorithm,  \* which function runs: "udp", "icmp" or "first"
  words,      \* the buffer's whole words, as big-endian numbers
  tail,       \* its odd last byte, or -1
  next,       \* words added so far, one more with the tail
  sum,
  result      \* the returned uint16_t, or -1 before the return

vars == <<algorithm, words, tail, next, sum, result>>

Word == Half * Half
Mask == Word - 1
Wide == Word * Word
Words == 0..Mask
Bytes == 0..(Half - 1)

\* The number a load sees in the two bytes of w, and ntohs().
Swap(w) == ((w % Half) * Half) + (w \div Half)

\* Every variable stays in its range.
TypeOK ==
  /\ algorithm \in {"udp", "icmp", "first"}
  /\ words \in Seq(Words)
  /\ tail \in Bytes \cup {-1}
  /\ next \in 0..(Len(words) + 1)
  /\ sum \in 0..(Wide - 1)
  /\ result \in Words \cup {-1}

Init ==
  /\ algorithm \in {"udp", "icmp", "first"}
  /\ \E k \in 0..MaxWords : words \in [1..k -> Words]
  /\ tail \in Bytes \cup {-1}
  /\ next = 0
  /\ sum = 0
  /\ result = -1

\* What one iteration adds for a word, and what the odd byte adds.
Addend(w) ==
  CASE algorithm = "udp" -> Swap(Swap(w))
    [] algorithm = "icmp" -> Swap(w)
    [] algorithm = "first" -> w

\* Seeded fault: the odd byte is padded on the wrong side.
TailRightAligned(b) == IF algorithm = "udp" THEN b ELSE b * Half

TailAddend(b) ==
  CASE algorithm = "udp" -> Swap(b)
    [] algorithm = "icmp" -> b
    [] algorithm = "first" -> b * Half

AddWord ==
  /\ result = -1
  /\ next < Len(words)
  /\ sum' = (sum + Addend(words[next + 1])) % Wide
  /\ next' = next + 1
  /\ UNCHANGED <<algorithm, words, tail, result>>

\* (sum >> 16) + (sum & 0xFFFF)
Fold(s) == (s \div Word) + (s % Word)

\* (uint16_t)~s
Complement(s) == Mask - (s % Word)

\* compute_udp_checksum folds once.
UdpResult(s) == Complement(Fold(s))

\* Seeded fault: the second carry is dropped.
IcmpFoldsOnce(s) == Complement(Fold(s))

\* compute_icmp_checksum adds the carry of the first fold.
IcmpResult(s) == Complement(Fold(s) + (Fold(s) \div Word))

\* Seeded fault: a checksum of zero is returned as it is.
KeepsZero(s) == Complement(s)

\* checksumCalc returns all ones instead of zero, which means "no checksum".
FirstResult(s) == IF Complement(s) = 0 THEN Mask ELSE Complement(s)

AddTail ==
  /\ result = -1
  /\ next = Len(words)
  /\ sum' = (sum + (IF tail = -1 THEN 0 ELSE TailAddend(tail))) % Wide
  /\ next' = next + 1
  /\ UNCHANGED <<algorithm, words, tail, result>>

\* Everything has been added.
Added == result = -1 /\ next = Len(words) + 1

\* checksumCalc folds until no carry is left.
FoldCarry ==
  /\ Added
  /\ algorithm = "first"
  /\ sum >= Word
  /\ sum' = Fold(sum)
  /\ UNCHANGED <<algorithm, words, tail, next, result>>

Return ==
  /\ Added
  /\ algorithm = "first" => sum < Word
  /\ result' = CASE algorithm = "udp" -> UdpResult(sum)
                 [] algorithm = "icmp" -> IcmpResult(sum)
                 [] algorithm = "first" -> FirstResult(sum)
  /\ UNCHANGED <<algorithm, words, tail, next, sum>>

Next == AddWord \/ AddTail \/ FoldCarry \/ Return

Spec == Init /\ [][Next]_vars

-----------------------------------------------------------------------------
(* RFC 1071.                                                               *)

\* The one's complement sum of numbers whose plain sum is s: carries are
\* brought back until none is left.
OnesSum(s) == IF s = 0 THEN 0 ELSE ((s - 1) % Mask) + 1

\* The sums of the first k words.
Sums(ws) ==
  LET total[k \in 0..Len(ws)] == IF k = 0 THEN 0 ELSE total[k - 1] + ws[k]
  IN  total

\* The sum of a buffer's big-endian words, an odd byte padded with a zero.
BufferSum(ws, b) == Sums(ws)[Len(ws)] + (IF b = -1 THEN 0 ELSE b * Half)

InternetChecksum(ws, b) == Mask - OnesSum(BufferSum(ws, b))

-----------------------------------------------------------------------------

\* Stored as it is returned, the ICMP result is the Internet checksum of the
\* packet in network byte order, although it was added up in host order.
IcmpIsChecksum ==
  algorithm = "icmp" /\ result # -1 =>
    Swap(result) = InternetChecksum(words, tail)

\* The UDP result, folded once, is the checksum exactly when that fold does
\* not carry itself.
UdpIsChecksumUnlessCarry ==
  algorithm = "udp" /\ result # -1 =>
    (result = InternetChecksum(words, tail) <=> Fold(sum) < Word)

\* checksumCalc, which folds until no carry is left, returns the checksum of a
\* UDP datagram for every buffer: never zero, which would mean "none".
FirstIsUdpChecksum ==
  algorithm = "first" /\ result # -1 =>
    LET checksum == InternetChecksum(words, tail)
    IN  result = IF checksum = 0 THEN Mask ELSE checksum
=============================================================================
