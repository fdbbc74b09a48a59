---------------------------- MODULE MCArguments -----------------------------
(***************************************************************************)
(* Instances of Arguments for TLC.                                         *)
(***************************************************************************)
EXTENDS Arguments
=============================================================================
