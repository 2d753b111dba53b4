-------------------------- MODULE MCDatagramExample --------------------------
(***************************************************************************)
(* Instances of the UDP example for TLC.                                   *)
(***************************************************************************)
EXTENDS DatagramExample

\* The end of the list of example_client.cpp: a message that is cut, the empty
\* one and, behind it, one that fits.
ShortList == <<28, 0, 4>>
=============================================================================
