----------------------------- MODULE MCFraming ------------------------------
(***************************************************************************)
(* Instances of Framing for TLC.                                           *)
(***************************************************************************)
EXTENDS Framing
=============================================================================
