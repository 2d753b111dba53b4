--------------------------- MODULE ChecksumSearch ---------------------------
(***************************************************************************)
(* The search of solve_checksum_port in vika5/puzzlesolver.cpp: the two    *)
(* data bytes of the inner packet run through all values until             *)
(* compute_udp_checksum returns the checksum the service asked for, and    *)
(* the packet is sent.                                                     *)
(*                                                                         *)
(* words is the packet before the data: pseudo header and UDP header.  The *)
(* call of compute_udp_checksum before the loop, with zero data, has left  *)
(* their sum in sum; each call in the loop adds the data to the same sum.  *)
(***************************************************************************)
EXTENDS Checksums

VARIABLES
  requested,  \* the checksum the service asked for, or -1 before the search
  i,
  check,      \* the check field of the inner UDP header
  sent        \* the packet has been handed to sendto()

search == <<requested, i, check, sent>>

SearchInit ==
  /\ Init
  /\ requested = -1
  /\ i = 0
  /\ check = 0
  /\ sent = FALSE

\* The request has been parsed and the packet is laid out.
Begin ==
  /\ algorithm = "udp" /\ tail = -1 /\ result # -1
  /\ requested = -1
  /\ requested' \in Words
  /\ UNCHANGED <<vars, i, check, sent>>

\* compute_udp_checksum with data holding value: *data = i stores host order.
Calculated(value) == UdpResult((sum + Addend(Swap(value))) % Wide)

\* Seeded fault: i is a signed 16-bit number.
SignedEnd == Word \div 2

SearchEnd == Word

Searching == requested # -1 /\ ~sent

Mismatch ==
  /\ Searching
  /\ i < SearchEnd
  /\ Calculated(i) # requested
  /\ i' = i + 1
  /\ UNCHANGED <<vars, requested, check, sent>>

\* The first value that matches ends the loop; the packet is sent.
Match ==
  /\ Searching
  /\ i < SearchEnd
  /\ Calculated(i) = requested
  /\ check' = Calculated(i)
  /\ sent' = TRUE
  /\ UNCHANGED <<vars, requested, i>>

\* So it is when no value matched, with no checksum in it.
NoMatch ==
  /\ Searching
  /\ i = SearchEnd
  /\ sent' = TRUE
  /\ UNCHANGED <<vars, requested, i, check>>

Search == Begin \/ Mismatch \/ Match \/ NoMatch

SearchNext == (Next /\ UNCHANGED search) \/ Search

SearchSpec == SearchInit /\ [][SearchNext]_<<vars, search>>

-----------------------------------------------------------------------------

\* The data bytes the loop has left in the packet, as the host loads them.
LastData == IF i = SearchEnd THEN i - 1 ELSE i

\* The packet carries the requested checksum and it is the one RFC 1071 gives.
Valid ==
  /\ check = requested
  /\ InternetChecksum(Append(words, Swap(LastData)), -1) = requested

\* "an encapsulated, valid UDP IPv4 packet, that has a valid UDP checksum": so
\* it is exactly when the sum the checksum complements is larger than the
\* carries of the fixed words, or equal to them and they leave no low word.
SentIsValidUnlessCarry ==
  LET target == Mask - requested
      carries == sum \div Word
  IN  sent => (Valid <=> \/ target > carries
                         \/ target = carries /\ sum % Word = 0)
=============================================================================
