----------------------------- MODULE MCKnocking -----------------------------
(***************************************************************************)
(* Instances of the port knocking for TLC.                                 *)
(***************************************************************************)
EXTENDS Knocking

CONSTANTS a, b, c

\* One knock, a port knocked on twice, and three different ports.
SomePlans == {<<a>>, <<a, a>>, <<a, b, a>>, <<a, b, c>>}
=============================================================================
