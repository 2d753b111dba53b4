--------------------------- MODULE MCSelectServer ---------------------------
(***************************************************************************)
(* Instances of the select server for TLC.                                 *)
(***************************************************************************)
EXTENDS SelectServerRefinement, TLC

\* Connections are interchangeable.
Symmetry == Permutations(Conns)

\* What the stack may hold where openSockets will be.
CleanStack == {{}}
StdStack == {{0, 2}}
DirtyStack == {{}, {0, 2}, {3, 4, 7}}
LengthUsable == {TRUE}
AnyLength == BOOLEAN
=============================================================================
