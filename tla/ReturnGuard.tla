---------------------------- MODULE ReturnGuard ----------------------------
(***************************************************************************)
(* What DrShadowStack promises about the return instructions of a          *)
(* protected program, without saying how it keeps the promise: there is no *)
(* shadow stack here, only the calls the program really has open.          *)
(*                                                                         *)
(* A thread that is about to execute a return to a target either returns,  *)
(* because the target is where its innermost open call (or a signal        *)
(* handler's frame, whose target is not known) returns to, or it is halted *)
(* and never executes again.  A return that is right is never halted,      *)
(* except for the calls that were open when the thread asked for an        *)
(* execve: those are forgotten, and stay forgotten when the execve fails.  *)
(*                                                                         *)
(* Nothing is promised of a thread that cuts itself off from the guard,    *)
(* which only the threads in Loose can do.                                 *)
(***************************************************************************)
EXTENDS Integers, Sequences

CONSTANTS
    Thread,     \* everything that executes instructions of the program
    Main,       \* the thread the program starts with
    Loose,      \* threads that can cut themselves off
    Addr,       \* return addresses
    WILDCARD,   \* stands for the unknown return target of a signal handler
    NoAddr      \* no return is being attempted

VARIABLES
    frames,     \* frames[t]: return addresses of t's open calls, oldest first
    lost,       \* lost[t]: how many of the oldest open calls are forgotten
    goal,       \* goal[t]: target of the return t is about to execute
    state       \* state[t]: whether t executes, was halted, or is gone

vars == <<frames, lost, goal, state>>

Frame == Addr \union {WILDCARD}

States == {"unborn", "running", "halted", "escaped", "gone"}

TypeOK ==
    /\ frames \in [Thread -> Seq(Frame)]
    /\ lost \in [Thread -> Nat]
    /\ goal \in [Thread -> Addr \union {NoAddr}]
    /\ state \in [Thread -> States]

\* t executes ordinary instructions: it is not in the middle of a return.
Executing(t) == state[t] = "running" /\ goal[t] = NoAddr

\* t is about to execute a return.
Returning(t) == state[t] = "running" /\ goal[t] # NoAddr

\* The pending return of t goes where t's innermost remembered call returns.
Allowed(t) ==
    /\ Len(frames[t]) > lost[t]
    /\ frames[t][Len(frames[t])] \in {goal[t], WILDCARD}

Init ==
    /\ frames = [t \in Thread |-> <<>>]
    /\ lost = [t \in Thread |-> 0]
    /\ goal = [t \in Thread |-> NoAddr]
    /\ state = [t \in Thread |-> IF t = Main THEN "running" ELSE "unborn"]

\* A call instruction, or the delivery of a signal (f is then WILDCARD).
Enter(t, f) ==
    /\ Executing(t)
    /\ frames' = [frames EXCEPT ![t] = Append(@, f)]
    /\ UNCHANGED <<lost, goal, state>>

\* t reaches a return instruction.  The target is whatever the program's own
\* stack holds: nothing says that it is the right one.
Attempt(t, a) ==
    /\ Executing(t)
    /\ goal' = [goal EXCEPT ![t] = a]
    /\ UNCHANGED <<frames, lost, state>>

Proceed(t) ==
    /\ Returning(t)
    /\ Allowed(t)
    /\ frames' = [frames EXCEPT ![t] = SubSeq(@, 1, Len(@) - 1)]
    /\ goal' = [goal EXCEPT ![t] = NoAddr]
    /\ UNCHANGED <<lost, state>>

Halt(t) ==
    /\ Returning(t)
    /\ ~Allowed(t)
    /\ state' = [state EXCEPT ![t] = "halted"]
    /\ UNCHANGED <<frames, lost, goal>>

\* t asks for an execve: every call open so far is forgotten.
Forget(t) ==
    /\ Executing(t)
    /\ lost' = [lost EXCEPT ![t] = Len(frames[t])]
    /\ UNCHANGED <<frames, goal, state>>

\* A thread created with an empty stack.
Spawn(u) ==
    /\ state[u] = "unborn"
    /\ state' = [state EXCEPT ![u] = "running"]
    /\ UNCHANGED <<frames, lost, goal>>

\* A forked child owns a copy of its parent's stack.
Copy(t, u) ==
    /\ Executing(t)
    /\ state[u] = "unborn"
    /\ frames' = [frames EXCEPT ![u] = frames[t]]
    /\ lost' = [lost EXCEPT ![u] = lost[t]]
    /\ state' = [state EXCEPT ![u] = "running"]
    /\ UNCHANGED goal

\* t becomes the only thread of a new program, the threads in S end.
Exec(t, S) ==
    /\ Executing(t)
    /\ t \notin S /\ \A u \in S : state[u] # "unborn"
    /\ frames' = [frames EXCEPT ![t] = <<>>]
    /\ lost' = [lost EXCEPT ![t] = 0]
    /\ state' = [u \in Thread |-> IF u \in S THEN "gone" ELSE state[u]]
    /\ UNCHANGED goal

\* t cuts itself off from the guard.
Escape(t) ==
    /\ t \in Loose
    /\ Executing(t)
    /\ state' = [state EXCEPT ![t] = "escaped"]
    /\ UNCHANGED <<frames, lost, goal>>

\* Whatever t does once it is cut off.
Stray(t) ==
    /\ state[t] = "escaped"
    /\ frames' \in [Thread -> Seq(Frame)]
    /\ lost' \in [Thread -> Nat]
    /\ goal' \in [Thread -> Addr \union {NoAddr}]
    /\ \A u \in Thread \ {t} : /\ frames'[u] = frames[u]
                               /\ lost'[u] = lost[u]
                               /\ goal'[u] = goal[u]
    /\ UNCHANGED state

\* The threads in S end: they exit, or their process is killed.
Vanish(S) ==
    /\ \A u \in S : state[u] # "unborn"
    /\ state' = [u \in Thread |-> IF u \in S THEN "gone" ELSE state[u]]
    /\ UNCHANGED <<frames, lost, goal>>

Next ==
    \/ \E t \in Thread :
          \/ \E f \in Frame : Enter(t, f)
          \/ \E a \in Addr : Attempt(t, a)
          \/ Proceed(t)
          \/ Halt(t)
          \/ Forget(t)
          \/ Spawn(t)
          \/ \E u \in Thread : Copy(t, u)
          \/ \E S \in SUBSET Thread : Exec(t, S)
          \/ Escape(t)
          \/ Stray(t)
    \/ \E S \in SUBSET Thread : Vanish(S)

Spec == Init /\ [][Next]_vars
=============================================================================
