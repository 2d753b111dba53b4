---------------------------- MODULE MCSecretPort ----------------------------
(***************************************************************************)
(* Instances of the S.E.C.R.E.T. exchange for TLC.                         *)
(***************************************************************************)
EXTENDS SecretPort
=============================================================================
