---------------------------- MODULE MessageQueue ----------------------------
(***************************************************************************)
(* What the client and the server take the unix socket between them for:   *)
(* a queue of whole messages one way and of Continues the other way.       *)
(* ExternalSS is written in these terms.                                   *)
(***************************************************************************)
EXTENDS Integers, Sequences

CONSTANT Message    \* what may be sent to the server

VARIABLES
    up,     \* messages under way to the server, oldest first
    down,   \* Continues under way to the clients
    last    \* the message the server handled last

vars == <<up, down, last>>

Init ==
    /\ up = <<>>
    /\ down = 0
    /\ last = <<>>

Send ==
    /\ \E m \in Message : up' = Append(up, m)
    /\ UNCHANGED <<down, last>>

\* The server handles one message, and may answer it.
Handle ==
    /\ up # <<>>
    /\ last' = <<Head(up)>>
    /\ up' = Tail(up)
    /\ down' \in {down, down + 1}

Continue ==
    /\ down > 0
    /\ down' = down - 1
    /\ UNCHANGED <<up, last>>

Next == Send \/ Handle \/ Continue

Spec == Init /\ [][Next]_vars
=============================================================================
