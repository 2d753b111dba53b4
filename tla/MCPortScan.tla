----------------------------- MODULE MCPortScan -----------------------------
(***************************************************************************)
(* Instances of the port probes for TLC.                                   *)
(***************************************************************************)
EXTENDS PortScan

\* The second port is silent, or every port answers.
Answering == {{1, 3}, {1, 2, 3}}

\* Nothing, or the greeting of the last port, to a local port used again.
Greetings == {{}, {[port |-> 3, local |-> 1]}}
=============================================================================
