---------------------------- MODULE MCExternalSS ----------------------------
(***************************************************************************)
(* Instances of ExternalSS for TLC.  The configurations choose the clients *)
(* and the bounds; the one of the false alarm also restricts the program   *)
(* to the well behaved ones.                                               *)
(***************************************************************************)
EXTENDS ExternalSS

\* Every return the program announces is the right one.
HonestStep ==
    \A c \in Client : goal[c] = NoAddr /\ goal'[c] # NoAddr => ~Corrupt(c)'

\* The executions of a program none of whose returns is ever corrupt.
HonestSpec == Init /\ [][Next /\ HonestStep]_vars
=============================================================================
