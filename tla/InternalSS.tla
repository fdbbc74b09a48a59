----------------------------- MODULE InternalSS -----------------------------
(***************************************************************************)
(* The internal mode of DrShadowStack: a DynamoRIO client inside every     *)
(* protected process keeps one shadow stack per thread in thread local     *)
(* storage, and kills the process group on the first bad return.           *)
(*                                                                         *)
(* Actors: the threads of the program, which call, return, take signals,   *)
(* clone, fork, execve and exit in any order; the client's callbacks, run  *)
(* by the thread that triggers them; and the kernel, which delivers the    *)
(* SIGKILL of killpg to one process at a time.                             *)
(*                                                                         *)
(* frames, lost and goal are history: the calls the program really has     *)
(* open, how many of them an execve attempt made the client forget, and    *)
(* the target of the return being checked.  The client never reads frames  *)
(* or lost.                                                                *)
(***************************************************************************)
EXTENDS Integers, Sequences, SequencesExt

CONSTANTS
    Main,       \* the thread drrun starts
    Workers,    \* threads clone may create
    Children,   \* first threads of the processes fork may create
    Daemons,    \* the children that may call setsid
    Addr,       \* return addresses
    WILDCARD,   \* (app_pc) -1
    NoAddr,     \* no return is being executed
    MaxDepth    \* bound on the number of open calls of a thread

ASSUME ThreadAssumption ==
    /\ Main \notin Workers \union Children
    /\ Workers \intersect Children = {}
    /\ Daemons \subseteq Children

ASSUME AddrAssumption ==
    /\ WILDCARD \notin Addr
    /\ NoAddr \notin Addr \union {WILDCARD}

Thread == {Main} \union Workers \union Children

Frame == Addr \union {WILDCARD}

VARIABLES
    status,     \* status[t]: what t is doing
    report,     \* report[t]: why t entered Group::terminate
    proc,       \* proc[t]: the process of t, named after its first thread
    pgid,       \* pgid[p]: the process group of process p
    sigkill,    \* processes with a SIGKILL they have not died of yet
    sockEnv,    \* sockEnv[p]: DR_SS_ENV_SOCK is in p's environment
    shadow,     \* shadow[t]: the std::stack in t's TLS field, top last
    allocated,  \* threads whose TLS field is set
    frames, lost, goal

kernelVars == <<proc, pgid, sigkill, sockEnv>>
clientVars == <<shadow, allocated>>
historyVars == <<frames, lost, goal>>
vars == <<status, report, kernelVars, clientVars, historyVars>>

Statuses == {"unborn",      \* not created yet
             "starting",    \* in dr_client_main, before the program runs
             "running",     \* in the program, or in a callback
             "execing",     \* between the pre and the post execve event
             "terminating", \* in Group::terminate, before killpg
             "spinning",    \* in the endless loop of kill_9_group
             "dead"}

Reports == {"none",
            "empty",        \* on_ret found an empty shadow stack
            "mismatch",     \* on_ret found another address on the top
            "assert"}       \* an assertion of the client failed

TypeOK ==
    /\ status \in [Thread -> Statuses]
    /\ report \in [Thread -> Reports]
    /\ proc \in [Thread -> Thread]
    /\ pgid \in [Thread -> Thread]
    /\ sigkill \subseteq Thread
    /\ sockEnv \in [Thread -> BOOLEAN]
    /\ shadow \in [Thread -> Seq(Frame)]
    /\ allocated \subseteq Thread
    /\ frames \in [Thread -> Seq(Frame)]
    /\ lost \in [Thread -> Nat]
    /\ goal \in [Thread -> Addr \union {NoAddr}]

Live(t) == status[t] \notin {"unborn", "dead"}

Siblings(t) == {u \in Thread \ {t} : Live(u) /\ proc[u] = proc[t]}

\* The live processes of group g.
Members(g) == {proc[u] : u \in {v \in Thread : Live(v) /\ pgid[proc[v]] = g}}

\* t executes instructions of the program and is not at a return.
Executing(t) == status[t] = "running" /\ goal[t] = NoAddr

Init ==
    /\ status = [t \in Thread |-> IF t = Main THEN "starting" ELSE "unborn"]
    /\ report = [t \in Thread |-> "none"]
    /\ proc = [t \in Thread |-> t]
    /\ pgid = [p \in Thread |-> p]
    /\ sigkill = {}
    /\ sockEnv = [p \in Thread |-> TRUE]
    /\ shadow = [t \in Thread |-> <<>>]
    /\ allocated = {}
    /\ frames = [t \in Thread |-> <<>>]
    /\ lost = [t \in Thread |-> 0]
    /\ goal = [t \in Thread |-> NoAddr]

-----------------------------------------------------------------------------
(* Helpers of the client. *)

\* t enters Group::terminate because of r.
EnterTerminate(t, r) ==
    /\ status' = [status EXCEPT ![t] = "terminating"]
    /\ report' = [report EXCEPT ![t] = r]

\* shadow_stack->get().push( f ): the field is set on first use.
PushShadow(t, f) ==
    /\ shadow' = [shadow EXCEPT ![t] = Append(@, f)]
    /\ allocated' = allocated \union {t}

\* Mutant of TopAllows: any return is allowed while a call is open.
TopAllowsAny(t) == shadow[t] # <<>>

\* The two ways on_ret lets the return happen.
TopAllows(t) == shadow[t] # <<>> /\ Last(shadow[t]) \in {goal[t], WILDCARD}

-----------------------------------------------------------------------------
(* Start of the client in a fresh program image. *)

\* dr_client_main with a valid mode: the only check that depends on the
\* program is that DR_SS_ENV_SOCK survived the execve.
ClientMain(t) ==
    /\ status[t] = "starting"
    /\ IF sockEnv[proc[t]]
       THEN /\ status' = [status EXCEPT ![t] = "running"]
            /\ UNCHANGED report
       ELSE EnterTerminate(t, "assert")
    /\ UNCHANGED <<kernelVars, clientVars, historyVars>>

-----------------------------------------------------------------------------
(* The program's instructions, with the callback each one triggers. *)

OnCall(t, a) ==
    /\ Executing(t)
    /\ Len(frames[t]) < MaxDepth
    /\ frames' = [frames EXCEPT ![t] = Append(@, a)]
    /\ PushShadow(t, a)
    /\ UNCHANGED <<status, report, kernelVars, lost, goal>>

\* Mutant of OnSignal: the signal is not seen.
OnSignalUnseen(t) ==
    /\ Executing(t)
    /\ Len(frames[t]) < MaxDepth
    /\ frames' = [frames EXCEPT ![t] = Append(@, WILDCARD)]
    /\ UNCHANGED <<status, report, kernelVars, clientVars, lost, goal>>

\* Mutant of OnSignal: what is pushed is not a target a return can match.
OnSignalPushesNull(t) ==
    /\ Executing(t)
    /\ Len(frames[t]) < MaxDepth
    /\ frames' = [frames EXCEPT ![t] = Append(@, WILDCARD)]
    /\ PushShadow(t, NoAddr)
    /\ UNCHANGED <<status, report, kernelVars, lost, goal>>

\* A signal handler is entered: nobody called it, so any target will do.
OnSignal(t) ==
    /\ Executing(t)
    /\ Len(frames[t]) < MaxDepth
    /\ frames' = [frames EXCEPT ![t] = Append(@, WILDCARD)]
    /\ PushShadow(t, WILDCARD)
    /\ UNCHANGED <<status, report, kernelVars, lost, goal>>

\* t reaches a ret instruction whose target, read from the program's own
\* stack, is a: the right one or not.
ReachRet(t, a) ==
    /\ Executing(t)
    /\ goal' = [goal EXCEPT ![t] = a]
    /\ UNCHANGED <<status, report, kernelVars, clientVars, frames, lost>>

OnRetPops(t) ==
    /\ status[t] = "running" /\ goal[t] # NoAddr
    /\ TopAllows(t)
    /\ shadow' = [shadow EXCEPT ![t] = Front(@)]
    /\ allocated' = allocated \union {t}
    /\ frames' = [frames EXCEPT ![t] = Front(@)]
    /\ goal' = [goal EXCEPT ![t] = NoAddr]
    /\ UNCHANGED <<status, report, kernelVars, lost>>

OnRetReports(t) ==
    /\ status[t] = "running" /\ goal[t] # NoAddr
    /\ ~TopAllows(t)
    /\ EnterTerminate(t, IF shadow[t] = <<>> THEN "empty" ELSE "mismatch")
    /\ allocated' = allocated \union {t}
    /\ UNCHANGED <<kernelVars, shadow, historyVars>>

\* drmgr_set_tls_field fails the first time t needs its shadow stack.
TlsFails(t) ==
    /\ status[t] = "running"
    /\ t \notin allocated
    /\ EnterTerminate(t, "assert")
    /\ UNCHANGED <<kernelVars, clientVars, historyVars>>

-----------------------------------------------------------------------------
(* execve: on_execve runs before the system call, and after it when the    *)
(* system call returned, which it does only when it failed.                *)

ClearShadow(t) ==
    /\ shadow' = [shadow EXCEPT ![t] = <<>>]
    /\ allocated' = allocated \union {t}

PreExecve(t) ==
    /\ Executing(t)
    /\ ClearShadow(t)
    /\ lost' = [lost EXCEPT ![t] = Len(frames[t])]
    /\ status' = [status EXCEPT ![t] = "execing"]
    /\ UNCHANGED <<report, kernelVars, frames, goal>>

ExecveFails(t) ==
    /\ status[t] = "execing"
    /\ ClearShadow(t)
    /\ status' = [status EXCEPT ![t] = "running"]
    /\ UNCHANGED <<report, kernelVars, historyVars>>

\* The new image has one thread, no TLS field, no open call, and the
\* environment the program passed: kept says if DR_SS_ENV_SOCK is in it.
ExecveSucceeds(t, kept) ==
    /\ status[t] = "execing"
    /\ proc[t] \notin sigkill
    /\ status' = [u \in Thread |-> IF u = t THEN "starting"
                                   ELSE IF u \in Siblings(t) THEN "dead"
                                   ELSE status[u]]
    /\ sockEnv' = [sockEnv EXCEPT ![proc[t]] = @ /\ kept]
    /\ shadow' = [shadow EXCEPT ![t] = <<>>]
    /\ allocated' = allocated \ {t}
    /\ frames' = [frames EXCEPT ![t] = <<>>]
    /\ lost' = [lost EXCEPT ![t] = 0]
    /\ UNCHANGED <<report, proc, pgid, sigkill, goal>>

-----------------------------------------------------------------------------
(* Processes and threads.  The client hooks none of these system calls:    *)
(* a forked child inherits the TLS field with the rest of the memory, a    *)
(* cloned thread has an unset one.                                         *)

\* Mutant of Fork: the child's TLS field is unset, as a cloned thread's is.
ForkFreshTls(t, c) ==
    /\ Executing(t)
    /\ proc[t] \notin sigkill
    /\ status[c] = "unborn"
    /\ status' = [status EXCEPT ![c] = "running"]
    /\ pgid' = [pgid EXCEPT ![c] = pgid[proc[t]]]
    /\ sockEnv' = [sockEnv EXCEPT ![c] = sockEnv[proc[t]]]
    /\ frames' = [frames EXCEPT ![c] = frames[t]]
    /\ lost' = [lost EXCEPT ![c] = lost[t]]
    /\ UNCHANGED <<report, proc, sigkill, clientVars, goal>>

Fork(t, c) ==
    /\ Executing(t)
    /\ proc[t] \notin sigkill
    /\ status[c] = "unborn"
    /\ status' = [status EXCEPT ![c] = "running"]
    /\ pgid' = [pgid EXCEPT ![c] = pgid[proc[t]]]
    /\ sockEnv' = [sockEnv EXCEPT ![c] = sockEnv[proc[t]]]
    /\ shadow' = [shadow EXCEPT ![c] = shadow[t]]
    /\ allocated' = IF t \in allocated THEN allocated \union {c} ELSE allocated
    /\ frames' = [frames EXCEPT ![c] = frames[t]]
    /\ lost' = [lost EXCEPT ![c] = lost[t]]
    /\ UNCHANGED <<report, proc, sigkill, goal>>

Clone(t, w) ==
    /\ Executing(t)
    /\ proc[t] \notin sigkill
    /\ status[w] = "unborn"
    /\ status' = [status EXCEPT ![w] = "running"]
    /\ proc' = [proc EXCEPT ![w] = proc[t]]
    /\ UNCHANGED <<report, pgid, sigkill, sockEnv, clientVars, historyVars>>

ThreadExit(t) ==
    /\ Executing(t)
    /\ status' = [status EXCEPT ![t] = "dead"]
    /\ UNCHANGED <<report, kernelVars, clientVars, historyVars>>

\* exit_group: t takes every thread of its process with it, whatever they
\* are doing.
ExitProcess(t) ==
    /\ Executing(t)
    /\ status' = [u \in Thread |-> IF u \in Siblings(t) \union {t}
                                   THEN "dead" ELSE status[u]]
    /\ UNCHANGED <<report, kernelVars, clientVars, historyVars>>

\* The program leaves the group it was started in.
Setsid(t) ==
    /\ Executing(t)
    /\ proc[t] \in Daemons
    /\ pgid[proc[t]] # proc[t]
    /\ pgid' = [pgid EXCEPT ![proc[t]] = proc[t]]
    /\ UNCHANGED <<status, report, proc, sigkill, sockEnv,
                   clientVars, historyVars>>

-----------------------------------------------------------------------------
(* The end. *)

\* Mutant of Terminate: kill instead of killpg.
TerminateSelf(t) ==
    /\ status[t] = "terminating"
    /\ sigkill' = sigkill \union {proc[t]}
    /\ status' = [status EXCEPT ![t] = "spinning"]
    /\ UNCHANGED <<report, proc, pgid, sockEnv, clientVars, historyVars>>

\* Mutant of Terminate: the loop is entered before killpg.
TerminateSpins(t) ==
    /\ status[t] = "terminating"
    /\ status' = [status EXCEPT ![t] = "spinning"]
    /\ UNCHANGED <<report, kernelVars, clientVars, historyVars>>

\* killpg( 0, SIGKILL ), then the endless loop.
Terminate(t) ==
    /\ status[t] = "terminating"
    /\ sigkill' = sigkill \union Members(pgid[proc[t]])
    /\ status' = [status EXCEPT ![t] = "spinning"]
    /\ UNCHANGED <<report, proc, pgid, sockEnv, clientVars, historyVars>>

\* The kernel gets to process p and every thread of it dies.
Reap(p) ==
    /\ p \in sigkill
    /\ sigkill' = sigkill \ {p}
    /\ status' = [u \in Thread |-> IF Live(u) /\ proc[u] = p
                                   THEN "dead" ELSE status[u]]
    /\ UNCHANGED <<report, proc, pgid, sockEnv, clientVars, historyVars>>

Step(t) ==
    \/ ClientMain(t)
    \/ \E a \in Addr : OnCall(t, a) \/ ReachRet(t, a)
    \/ OnSignal(t)
    \/ OnRetPops(t)
    \/ OnRetReports(t)
    \/ TlsFails(t)
    \/ PreExecve(t)
    \/ ExecveFails(t)
    \/ \E kept \in BOOLEAN : ExecveSucceeds(t, kept)
    \/ \E c \in Children : Fork(t, c)
    \/ \E w \in Workers : Clone(t, w)
    \/ ThreadExit(t)
    \/ ExitProcess(t)
    \/ Setsid(t)
    \/ Terminate(t)

Next == \E t \in Thread : Step(t) \/ Reap(t)

Spec == Init /\ [][Next]_vars

\* A thread that is being stopped is scheduled until it has called killpg,
\* and the kernel delivers every SIGKILL.  Nothing is assumed of the program.
FairSpec ==
    /\ Spec
    /\ \A t \in Thread : WF_vars(Terminate(t)) /\ WF_vars(Reap(t))

-----------------------------------------------------------------------------
(* Safety *)

\* The shadow stack of a thread that runs the program is exactly the calls
\* it has open, minus the ones forgotten by an execve attempt.  Calls,
\* signals, returns, forks, clones and execves of all threads together
\* (on_call, on_ret, on_signal, on_execve and the TLS they share) keep it so.
Lockstep ==
    \A t \in Thread :
        status[t] \in {"running", "execing"} =>
            /\ Len(frames[t]) = lost[t] + Len(shadow[t])
            /\ \A i \in 1 .. Len(shadow[t]) :
                   shadow[t][i] = frames[t][lost[t] + i]

Reported(t) == report[t] \in {"empty", "mismatch"}

\* The return t is at does not go where its innermost open call returns.
Corrupt(t) ==
    \/ frames[t] = <<>>
    \/ Last(frames[t]) \notin {goal[t], WILDCARD}

\* on_ret reports a return only if it is corrupt, or if all the calls open
\* in the thread were forgotten by an execve attempt.
OnlyBadReturnsReported ==
    \A t \in Thread :
        Reported(t) => Corrupt(t) \/ (lost[t] > 0 /\ Len(frames[t]) = lost[t])

\* README.md:5 reads: the group is terminated if the program attempts to
\* return to a corrupted address.  This says: only then.
OnlyCorruptReturnsReported == \A t \in Thread : Reported(t) => Corrupt(t)

\* Once kill_9_group spins, every process that is in its group has a SIGKILL
\* pending: no fork slips past killpg.
NoSurvivorBehindKillpg ==
    \A t \in Thread :
        status[t] = "spinning" => Members(pgid[proc[t]]) \subseteq sigkill

-----------------------------------------------------------------------------
(* Refinement: what a thread may do, seen without the shadow stack. *)

GuardState ==
    [t \in Thread |->
        CASE status[t] = "unborn" -> "unborn"
          [] status[t] \in {"starting", "running", "execing"} -> "running"
          [] status[t] \in {"terminating", "spinning"} /\ Reported(t) -> "halted"
          [] OTHER -> "gone"]

Guard == INSTANCE ReturnGuard WITH Loose <- {}, state <- GuardState

\* The internal mode implements ReturnGuard: deciding by the shadow stack is
\* deciding by the real call stack, and a halted thread never runs again.
RefinesGuard == Guard!Spec

-----------------------------------------------------------------------------
(* Liveness *)

\* The group of t is dead.
GroupDead(t) == Members(pgid[proc[t]]) = {}

\* A report made by the only thread of its process always ends in the death
\* of that process's whole group.  (A signal sent from outside that ends the
\* process on its way to killpg is the subject of module Termination.)
ReportKillsGroup ==
    \A t \in Thread :
        (status[t] = "terminating" /\ Reported(t) /\ Siblings(t) = {})
            ~> GroupDead(t)

\* README.md:5: "If the program attempts to return to a corrupted return
\* address, DrShadowStack will terminate the entire process group (which it
\* sets up)", for any thread of any protected process: Main's group is the
\* one DrShadowStack sets up.
ReportKillsProgram ==
    \A t \in Thread :
        (status[t] = "terminating" /\ Reported(t)) ~> (Members(Main) = {})
=============================================================================
