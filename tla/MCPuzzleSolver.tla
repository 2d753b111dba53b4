--------------------------- MODULE MCPuzzleSolver ---------------------------
(***************************************************************************)
(* Instances of the solvers for TLC.                                       *)
(***************************************************************************)
EXTENDS SolverExchange
=============================================================================
