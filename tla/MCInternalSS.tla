---------------------------- MODULE MCInternalSS ----------------------------
(***************************************************************************)
(* Instances of InternalSS for TLC.  The configurations choose the         *)
(* threads, processes and addresses; the one of the false alarm also       *)
(* restricts the program to the well behaved ones.                         *)
(***************************************************************************)
EXTENDS InternalSS

\* Every return the program comes to is the right one.
HonestStep ==
    \A t \in Thread : goal[t] = NoAddr /\ goal'[t] # NoAddr => ~Corrupt(t)'

\* The executions of a program none of whose returns is ever corrupt.
HonestSpec == Init /\ [][Next /\ HonestStep]_vars
=============================================================================
