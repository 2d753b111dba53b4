---------------------------- MODULE MCChecksums ----------------------------
(***************************************************************************)
(* The checksum functions and the search for TLC: bytes of two bits.       *)
(***************************************************************************)
EXTENDS ChecksumSearch
=============================================================================
