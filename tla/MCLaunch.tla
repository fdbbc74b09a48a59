------------------------------ MODULE MCLaunch ------------------------------
(***************************************************************************)
(* Instances of Launch for TLC: every mode, nested in another              *)
(* DrShadowStack or not.                                                   *)
(***************************************************************************)
EXTENDS Launch
=============================================================================
