--------------------------- MODULE MCNonLocalExit ---------------------------
(***************************************************************************)
(* Instances of NonLocalExit for TLC.                                      *)
(***************************************************************************)
EXTENDS NonLocalExit
=============================================================================
