---------------------------- MODULE MCRemoteShell ----------------------------
(***************************************************************************)
(* Instances of a remote shell session for TLC.                            *)
(***************************************************************************)
EXTENDS RemoteShell
=============================================================================
