---------------------------- MODULE Termination ----------------------------
(***************************************************************************)
(* How one process of DrShadowStack ends its process group, from a bad     *)
(* return or a failed assertion to killpg: the report, the printing of     *)
(* symbols, the assertion and logging functions and Group::terminate call  *)
(* each other, each of them may fail inside the other, signals interrupt   *)
(* the launcher and the server, and the threads of one client share the    *)
(* static flag terminate_already_called.  The process may be gone before   *)
(* it has called killpg: a thread still in the program ends it for all, or *)
(* a signal does that nothing handles.                                     *)
(*                                                                         *)
(* None of the functions on the way to killpg returns to its caller once   *)
(* it has failed, so a thread is described by the innermost one it is in.  *)
(* depth, signals and struck are history: they tell how a thread came to   *)
(* where it is and are never read by the code.                             *)
(***************************************************************************)
EXTENDS Integers, Sequences

CONSTANTS
    Thread,         \* the threads of a client
    Main,           \* the only thread of the launcher and of the server
    MaxSignals      \* bound on the signals Main takes; the clients leave the
                    \* signal handlers to the program

ASSUME SignalAssumption == MaxSignals \in Nat
ASSUME MainAssumption == Main \in Thread

VARIABLES
    pc,         \* pc[t]: where t is
    msg,        \* msg[t]: the terminate t is in was given a message
    flag,       \* terminate_already_called
    multi,      \* is_multi_thread_or_proccess: messages begin with the tid
    killed,     \* killpg( 0, SIGKILL ) was called
    todo,       \* todo[t]: what the report t is in has still to print
    client,     \* the process is a client, not the launcher or the server
    depth,      \* depth[t]: activations of Group::terminate t is in
    signals,    \* signals[t]: signals t took
    struck      \* a signal nothing handles ended the process

vars == <<pc, msg, flag, multi, killed, todo, client, depth, signals, struck>>

Places == {"run",       \* ordinary code
           "report",    \* on_ret or ret_handler, after a mismatch
           "err",       \* Utilities::err, about to log its message
           "handler",   \* default_signal_handler, about to log
           "enter",     \* terminate, about to test the flag
           "mark",      \* terminate found the flag unset
           "print",     \* terminate, about to log its message
           "flush",     \* terminate, about to flush the streams
           "kill",      \* kill_9_group, about to call killpg
           "spin",      \* kill_9_group, in its endless loop
           "gone"}      \* the thread or its process has ended

\* What a report prints: the line with the two addresses, and for a symbol
\* what Sym::print prints before and after it has looked the symbol up.
Lines == {"mismatch", "description", "symbol"}

EmptyReport == <<"description", "symbol", "mismatch">>

MismatchReport ==
    <<"mismatch", "description", "symbol", "description", "symbol">>

ServerReport == <<"mismatch">>

\* What the process may have to print.
Report ==
    IF client THEN {EmptyReport, MismatchReport} ELSE {ServerReport}

TypeOK ==
    /\ pc \in [Thread -> Places]
    /\ msg \in [Thread -> BOOLEAN]
    /\ flag \in BOOLEAN
    /\ multi \in BOOLEAN
    /\ killed \in BOOLEAN
    /\ todo \in [Thread -> Seq(Lines)]
    /\ client \in BOOLEAN
    /\ depth \in [Thread -> Nat]
    /\ signals \in [Thread -> 0 .. MaxSignals]
    /\ struck \in BOOLEAN

Init ==
    /\ pc = [t \in Thread |-> "run"]
    /\ msg = [t \in Thread |-> FALSE]
    /\ flag = FALSE
    /\ multi = FALSE
    /\ killed = FALSE
    /\ todo = [t \in Thread |-> <<>>]
    /\ client \in BOOLEAN
    /\ depth = [t \in Thread |-> 0]
    /\ signals = [t \in Thread |-> 0]
    /\ struck = FALSE

\* t calls Group::terminate, with a message iff m.
Call(t, m) ==
    /\ pc' = [pc EXCEPT ![t] = "enter"]
    /\ msg' = [msg EXCEPT ![t] = m]
    /\ todo' = [todo EXCEPT ![t] = <<>>]
    /\ depth' = [depth EXCEPT ![t] = @ + 1]

-----------------------------------------------------------------------------
(* The ordinary code. *)

\* enable_multi_thread_or_process_mode, once: by the launcher before it forks
\* and by a client before the program starts.
EnablesTids ==
    /\ ~multi
    /\ \A t \in Thread : pc[t] = "run"
    /\ multi' = TRUE
    /\ UNCHANGED <<pc, msg, flag, killed, todo, client, depth, signals, struck>>

\* An assertion fails, or err is called.
Fails(t) ==
    /\ pc[t] = "run"
    /\ pc' = [pc EXCEPT ![t] = "err"]
    /\ UNCHANGED <<msg, flag, multi, killed, todo, client, depth, signals, struck>>

\* terminate is called outright, with or without a message, or by the
\* destructor of a TerminateOnDestruction, which has one.
Terminates(t, m) ==
    /\ pc[t] = "run"
    /\ Call(t, m)
    /\ UNCHANGED <<flag, multi, killed, client, signals, struck>>

\* A return does not match the top of the stack, or the stack is empty.
Detects(t) ==
    /\ pc[t] = "run"
    /\ pc' = [pc EXCEPT ![t] = "report"]
    /\ \E r \in Report : todo' = [todo EXCEPT ![t] = r]
    /\ UNCHANGED <<msg, flag, multi, killed, client, depth, signals, struck>>

\* A signal with the default handler of Group::setup, at any point: even in
\* the endless loop.
Signal(t) ==
    /\ ~client
    /\ pc[t] # "gone"
    /\ signals[t] < MaxSignals
    /\ signals' = [signals EXCEPT ![t] = @ + 1]
    /\ pc' = [pc EXCEPT ![t] = "handler"]
    /\ todo' = [todo EXCEPT ![t] = <<>>]
    /\ UNCHANGED <<msg, flag, multi, killed, client, depth, struck>>

-----------------------------------------------------------------------------
(* Ends that do not come through terminate. *)

\* Only a client has several threads.
Active == IF client THEN Thread ELSE {Main}

Live(t) == pc[t] # "gone"

\* A thread of the program ends.
Exits(t) ==
    /\ pc[t] = "run"
    /\ pc' = [pc EXCEPT ![t] = "gone"]
    /\ UNCHANGED <<msg, flag, multi, killed, todo, client, depth, signals,
                   struck>>

\* A thread in its ordinary code ends the process, wherever its siblings are:
\* main returns, the program calls exit_group or becomes another image.
EndsProcess(t) ==
    /\ pc[t] = "run"
    /\ pc' = [u \in Thread |-> IF u \in Active THEN "gone" ELSE pc[u]]
    /\ UNCHANGED <<msg, flag, multi, killed, todo, client, depth, signals,
                   struck>>

\* A signal nothing handles ends the process: a SIGKILL from outside or a
\* SIGIO, which setup does not remap, for the launcher and the server, any
\* the program leaves to its default for a client.
IsStruck ==
    /\ \E t \in Active : Live(t)
    /\ struck' = TRUE
    /\ pc' = [u \in Thread |-> IF u \in Active THEN "gone" ELSE pc[u]]
    /\ UNCHANGED <<msg, flag, multi, killed, todo, client, depth, signals>>

-----------------------------------------------------------------------------
(* The report of a bad return. *)

ReportPrints(t, line) ==
    /\ pc[t] = "report"
    /\ todo[t] # <<>>
    /\ Head(todo[t]) = line
    /\ todo' = [todo EXCEPT ![t] = Tail(@)]
    /\ UNCHANGED <<pc, msg, flag, multi, killed, client, depth, signals, struck>>

\* on_ret and ret_handler log the two addresses.
LogsMismatch(t) == ReportPrints(t, "mismatch")

\* Sym::print says what it is about to look up.
Describes(t) == ReportPrints(t, "description")

\* Mutant of PrintsSymbol: giving up on a symbol gives up the report.
PrintsSymbolOrReturns(t) ==
    \/ ReportPrints(t, "symbol")
    \/ /\ pc[t] = "report"
       /\ todo[t] # <<>>
       /\ Head(todo[t]) = "symbol"
       /\ pc' = [pc EXCEPT ![t] = "run"]
       /\ todo' = [todo EXCEPT ![t] = <<>>]
       /\ UNCHANGED <<msg, flag, multi, killed, client, depth, signals, struck>>

\* The address is in no module, its lookup fails, its symbol is not found or
\* known: each is one line and a return to on_ret.
PrintsSymbol(t) == ReportPrints(t, "symbol")

\* The report is complete: terminate( nullptr ).
ReportTerminates(t) ==
    /\ pc[t] = "report"
    /\ todo[t] = <<>>
    /\ Call(t, FALSE)
    /\ UNCHANGED <<flag, multi, killed, client, signals, struck>>

-----------------------------------------------------------------------------
(* write_log, wherever it is called from. *)

\* get_tid fails: the tid is left out from now on and terminate is called
\* with a message.
TidFails(t) ==
    /\ pc[t] \in {"run", "report", "err", "handler", "print"}
    /\ multi
    /\ multi' = FALSE
    /\ Call(t, TRUE)
    /\ UNCHANGED <<flag, killed, client, signals, struck>>

\* write fails or is short: assert( false, nullptr ), so err( nullptr ), so
\* terminate( nullptr ).
WriteFails(t) ==
    /\ pc[t] \in {"run", "report", "err", "handler", "print"}
    /\ Call(t, FALSE)
    /\ UNCHANGED <<flag, multi, killed, client, signals, struck>>

\* err and the handler go on to terminate( nullptr ).
LogsThenTerminates(t) ==
    /\ pc[t] \in {"err", "handler"}
    /\ Call(t, FALSE)
    /\ UNCHANGED <<flag, multi, killed, client, signals, struck>>

-----------------------------------------------------------------------------
(* Group::terminate. *)

\* Mutant of TestFlag: terminate does not know that it is already running.
TestNothing(t) ==
    /\ pc[t] = "enter"
    /\ pc' = [pc EXCEPT ![t] = "mark"]
    /\ UNCHANGED <<msg, flag, multi, killed, todo, client, depth, signals, struck>>

TestFlag(t) ==
    /\ pc[t] = "enter"
    /\ pc' = [pc EXCEPT ![t] = IF flag THEN "kill" ELSE "mark"]
    /\ UNCHANGED <<msg, flag, multi, killed, todo, client, depth, signals, struck>>

\* Mutant of SetFlag: the flag is tested and never set.
SetNothing(t) ==
    /\ pc[t] = "mark"
    /\ pc' = [pc EXCEPT ![t] = IF msg[t] THEN "print" ELSE "flush"]
    /\ UNCHANGED <<msg, flag, multi, killed, todo, client, depth, signals, struck>>

SetFlag(t) ==
    /\ pc[t] = "mark"
    /\ flag' = TRUE
    /\ pc' = [pc EXCEPT ![t] = IF msg[t] THEN "print" ELSE "flush"]
    /\ UNCHANGED <<msg, multi, killed, todo, client, depth, signals, struck>>

Prints(t) ==
    /\ pc[t] = "print"
    /\ pc' = [pc EXCEPT ![t] = "flush"]
    /\ UNCHANGED <<msg, flag, multi, killed, todo, client, depth, signals, struck>>

Flushes(t) ==
    /\ pc[t] = "flush"
    /\ pc' = [pc EXCEPT ![t] = "kill"]
    /\ UNCHANGED <<msg, flag, multi, killed, todo, client, depth, signals, struck>>

\* Mutant of KillsGroup: no loop waits for the SIGKILL, so it returns.
KillsAndReturns(t) ==
    /\ pc[t] = "kill"
    /\ killed' = TRUE
    /\ pc' = [pc EXCEPT ![t] = "returned"]
    /\ UNCHANGED <<msg, flag, multi, todo, client, depth, signals, struck>>

KillsGroup(t) ==
    /\ pc[t] = "kill"
    /\ killed' = TRUE
    /\ pc' = [pc EXCEPT ![t] = "spin"]
    /\ UNCHANGED <<msg, flag, multi, todo, client, depth, signals, struck>>

-----------------------------------------------------------------------------

\* t has left its ordinary code.
OnWay(t) == pc[t] \notin {"run", "gone"}

\* What a thread on its way to killpg does next.
Advance(t) ==
    \/ OnWay(t) /\ (TidFails(t) \/ WriteFails(t))
    \/ LogsMismatch(t)
    \/ Describes(t)
    \/ PrintsSymbol(t)
    \/ ReportTerminates(t)
    \/ LogsThenTerminates(t)
    \/ TestFlag(t)
    \/ SetFlag(t)
    \/ Prints(t)
    \/ Flushes(t)
    \/ KillsGroup(t)

Step(t) ==
    \/ Fails(t)
    \/ \E m \in BOOLEAN : Terminates(t, m)
    \/ Detects(t)
    \/ Signal(t)
    \/ Exits(t)
    \/ EndsProcess(t)
    \/ pc[t] = "run" /\ (TidFails(t) \/ WriteFails(t))
    \/ Advance(t)

Next == EnablesTids \/ IsStruck \/ \E t \in Active : Step(t)

Spec == Init /\ [][Next]_vars

\* A thread on its way to killpg is scheduled.
FairSpec == Spec /\ \A t \in Thread : WF_vars(Advance(t))

-----------------------------------------------------------------------------
(* Properties *)

\* The flag bounds the recursion of terminate through the functions that
\* terminate on failure: without signals a thread enters it at most twice,
\* and each signal adds at most one.
RecursionBounded == \A t \in Thread : depth[t] <= signals[t] + 2

\* A message is only printed by the first terminate of a thread and those
\* its signals add, so printing that fails is never tried again by what its
\* own failure calls.
NoPrintInRecursion ==
    \A t \in Thread : pc[t] = "print" => depth[t] <= signals[t] + 1

\* Once a return was found bad, or anything else made a thread leave its
\* ordinary code, and no sibling is left in its own to end the process before
\* it, the group is killed, whatever fails or interrupts the thread on the
\* way: a report that cannot print its lines or look up its symbols does not
\* let the program go on.  Only a signal that nothing handles forestalls it.
KillReached ==
    \A t \in Thread :
        (OnWay(t) /\ \A u \in Active \ {t} : pc[u] # "run")
            ~> (killed \/ struck)
=============================================================================
