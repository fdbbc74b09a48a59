---------------------------- MODULE NonLocalExit ----------------------------
(***************************************************************************)
(* The internal mode under programs that leave calls without returning     *)
(* from them: longjmp, an exception, a switch of contexts, a jump out of a *)
(* signal handler.  event_app_instruction instruments calls and returns    *)
(* only, so the client sees none of it, and on_ret has no search for the   *)
(* frame that matches: what was abandoned stays on the shadow stack until  *)
(* a return takes it for its own.                                          *)
(*                                                                         *)
(* live is history: the calls a thread has open after its jumps.  frames,  *)
(* of InternalSS, are then the calls no return has been taken for,         *)
(* abandoned or not.                                                       *)
(***************************************************************************)
EXTENDS InternalSS

VARIABLE live   \* live[t]: the calls t has open, innermost last

jumpVars == <<vars, live>>

JumpInit == Init /\ live = [t \in Thread |-> <<>>]

Enters(t, f) == live' = [live EXCEPT ![t] = Append(@, f)]

\* A return leaves the innermost open call, whatever it was checked against.
Leaves(t) == live' = [live EXCEPT ![t] = IF @ = <<>> THEN <<>> ELSE Front(@)]

\* t jumps to where only its n outermost calls are open.
Longjmp(t, n) ==
    /\ Executing(t)
    /\ n < Len(live[t])
    /\ live' = [live EXCEPT ![t] = SubSeq(@, 1, n)]
    /\ UNCHANGED vars

JumpStep(t) ==
    \/ \E a \in Addr : OnCall(t, a) /\ Enters(t, a)
    \/ OnSignal(t) /\ Enters(t, WILDCARD)
    \/ OnRetPops(t) /\ Leaves(t)
    \/ \E kept \in BOOLEAN :
          ExecveSucceeds(t, kept) /\ live' = [live EXCEPT ![t] = <<>>]
    \/ \E c \in Children : Fork(t, c) /\ live' = [live EXCEPT ![c] = live[t]]
    \/ Step(t) /\ frames' = frames /\ live' = live
    \/ \E n \in 0 .. Len(live[t]) : Longjmp(t, n)

JumpNext == \E t \in Thread : JumpStep(t) \/ (Reap(t) /\ live' = live)

JumpSpec == JumpInit /\ [][JumpNext]_jumpVars

-----------------------------------------------------------------------------

\* s is r with some of its elements left out.  (SequencesExt!AllSubSeqs
\* without the fold, which no prover takes apart.)
Embeds(s, r) ==
    \E f \in [1 .. Len(s) -> 1 .. Len(r)] :
        /\ \A i, j \in 1 .. Len(s) : i < j => f[i] < f[j]
        /\ \A i \in 1 .. Len(s) : s[i] = r[f[i]]

\* What the client knows of t's calls, below it what it was made to forget.
Kept(t) == SubSeq(frames[t], 1, lost[t]) \o shadow[t]

\* However a thread jumps, signals and forks, every call it has open is on
\* its shadow stack in the right order (or was forgotten by an execve
\* attempt): on_call, on_ret and on_signal lose no call, they only fail to
\* drop some.
OpenCallsKept ==
    \A t \in Thread :
        status[t] \in {"running", "execing"} => Embeds(live[t], Kept(t))

\* The return t is at goes where its innermost open call returns.
Honest(t) == live[t] # <<>> /\ Last(live[t]) \in {goal[t], WILDCARD}

\* The top of what the client keeps for t was abandoned by a jump.
TopAbandoned(t) == Embeds(live[t], Front(frames[t]))

\* on_ret reports an honest return only if t jumped over the call on the top,
\* or an execve attempt made it forget every call.
HonestReportNeedsJump ==
    \A t \in Thread :
        Reported(t) /\ Honest(t) =>
            IF report[t] = "empty" THEN lost[t] > 0 ELSE TopAbandoned(t)

\* A return to a wrong address is executed only if t jumped over the call
\* whose entry on_ret takes for it: a jump out of a signal handler, say,
\* leaves a wildcard that lets the next return go anywhere.
WrongReturnNeedsJump ==
    [][\A t \in Thread :
          /\ status[t] = "running" /\ status'[t] = "running"
          /\ goal[t] # NoAddr /\ goal'[t] = NoAddr
          => Honest(t) \/ TopAbandoned(t)]_jumpVars
=============================================================================
