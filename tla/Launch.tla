------------------------------- MODULE Launch -------------------------------
(***************************************************************************)
(* How a protected program comes to life: DrShadowStack sets up its group, *)
(* reads its arguments and, in the internal mode, becomes drrun itself; in *)
(* the external mode it creates the server socket, forks, lets the child   *)
(* become drrun and accepts one connection.  Then every program image,     *)
(* the first one and those of later execves, starts in dr_client_main,     *)
(* which finds out from two environment variables what to do: the first    *)
(* connects, the others go on with the file descriptor of the first.       *)
(*                                                                         *)
(* A connection is named after the process that made it.  What a started   *)
(* program does is in InternalSS and ExternalSS: here it forks, execves,   *)
(* leaves its process group and exits.                                     *)
(***************************************************************************)
EXTENDS Integers, FiniteSets

CONSTANTS
    Server,     \* the process main runs in
    First,      \* the process start_external_client forks
    Others,     \* processes the program may fork
    Unset, Empty, Stale     \* values of DR_SS_ENV_FD that name no connection

ASSUME ProcessAssumption ==
    /\ Server # First
    /\ {Server, First} \intersect Others = {}
    /\ {Unset, Empty, Stale} \intersect ({Server, First} \union Others) = {}
    /\ Cardinality({Unset, Empty, Stale}) = 3

Process == {Server, First} \union Others

Fd == Process \union {Unset, Empty, Stale}

\* prot_int is accepted by SSMode and implemented nowhere.
Mode == {"int", "ext", "prot_int", "invalid"}

VARIABLES
    mode,       \* the mode argument
    grp,        \* grp[p]: the process group of p, named after its leader
    place,      \* place[p]: what process p executes
    envSock,    \* envSock[p]: DR_SS_ENV_SOCK is in the environment of p
    envFd,      \* envFd[p]: DR_SS_ENV_FD in the environment of p
    remapped,   \* processes in which default_signal_handler is installed
    sock,       \* sock[p]: the client's socket and its own DR_SS_ENV_FD
    queue,      \* connections not accepted yet
    peer,       \* the connection the server accepted, Unset before
    sigkill     \* processes killpg sent a SIGKILL to

envVars == <<envSock, envFd>>
netVars == <<queue, peer>>
vars == <<mode, grp, place, envVars, remapped, sock, netVars, sigkill>>

Places == {"unborn",
           "setup",         \* run_before_everything, before setsid
           "remap",         \* Group::setup, after setsid
           "main",          \* main, before the mode is known
           "start",         \* start_program
           "listen",        \* start_external_client, before the fork
           "accept",        \* QS::accept_client
           "serve",         \* start_external_shadow_stack
           "drrun",         \* drrun, before it runs the client
           "client",        \* dr_client_main
           "program",       \* the protected program
           "failing",       \* Group::terminate, before killpg
           "spinning",      \* kill_9_group, after killpg
           "struck",        \* ended by a signal nothing handles
           "gone"}

TypeOK ==
    /\ mode \in Mode
    /\ grp \in [Process -> Process]
    /\ place \in [Process -> Places]
    /\ envSock \in [Process -> BOOLEAN]
    /\ envFd \in [Process -> Fd]
    /\ remapped \subseteq Process
    /\ sock \in [Process -> Fd]
    /\ queue \subseteq Process
    /\ peer \in Process \union {Unset}
    /\ sigkill \subseteq Process

Live(p) == place[p] \notin {"unborn", "struck", "gone"}

\* The live processes of the group g.
Members(g) == {p \in Process : Live(p) /\ grp[p] = g}

\* DrShadowStack may itself be started by a protected program: its
\* environment then holds both variables.
Init ==
    /\ mode \in Mode
    /\ grp = [p \in Process |-> Server]
    /\ place = [p \in Process |-> IF p = Server THEN "setup" ELSE "unborn"]
    /\ \E nested \in BOOLEAN :
          /\ envSock = [p \in Process |-> nested]
          /\ envFd = [p \in Process |-> IF nested THEN Stale ELSE Unset]
    /\ remapped = {}
    /\ sock = [p \in Process |-> Unset]
    /\ queue = {}
    /\ peer = Unset
    /\ sigkill = {}

Goto(p, where) ==
    /\ place' = [place EXCEPT ![p] = where]
    /\ UNCHANGED <<mode, grp, remapped, sigkill>>

-----------------------------------------------------------------------------
(* DrShadowStack. *)

\* Group::setup: setsid makes DrShadowStack the leader of a group.  It fails
\* when it is one already, which is not looked at.
GroupSetup ==
    /\ place[Server] = "setup"
    /\ Goto(Server, "remap")
    /\ UNCHANGED <<envVars, sock, netVars>>

\* Mutant of RemapSignals: the default handlers stay.
RemapNothing ==
    /\ place[Server] = "remap"
    /\ Goto(Server, "main")
    /\ UNCHANGED <<envVars, sock, netVars>>

\* Group::setup, second half: set_default_signal_handler, for all signals but
\* those in no_change: SIGKILL cannot be handled, and SIGIO, whose default is
\* the end of the process, is left alone.
RemapSignals ==
    /\ place[Server] = "remap"
    /\ place' = [place EXCEPT ![Server] = "main"]
    /\ remapped' = {Server}
    /\ UNCHANGED <<mode, grp, envVars, sock, netVars, sigkill>>

\* main: the arguments are read, both variables are deleted and the mode
\* decides.
Main ==
    /\ place[Server] = "main"
    /\ Goto(Server, CASE mode = "int" -> "start"
                      [] mode = "ext" -> "listen"
                      [] OTHER -> "failing")
    /\ envSock' = IF mode = "invalid" THEN envSock
                  ELSE [envSock EXCEPT ![Server] = FALSE]
    /\ envFd' = IF mode = "invalid" THEN envFd
                ELSE [envFd EXCEPT ![Server] = Unset]
    /\ UNCHANGED <<sock, netVars>>

\* start_external_client: the socket listens before the fork.
ForkFirst ==
    /\ place[Server] = "listen"
    /\ Server \notin sigkill
    /\ place' = [place EXCEPT ![Server] = "accept", ![First] = "start"]
    /\ envSock' = [envSock EXCEPT ![First] = envSock[Server]]
    /\ envFd' = [envFd EXCEPT ![First] = envFd[Server]]
    /\ remapped' = remapped \union {First}
    /\ UNCHANGED <<mode, grp, sock, netVars, sigkill>>

\* start_program: both variables are set, overwriting what was there, and
\* execvp succeeds, which takes the handlers away.
StartProgram(p) ==
    /\ place[p] = "start"
    /\ place' = [place EXCEPT ![p] = "drrun"]
    /\ envSock' = [envSock EXCEPT ![p] = TRUE]
    /\ envFd' = [envFd EXCEPT ![p] = Empty]
    /\ remapped' = remapped \ {p}
    /\ UNCHANGED <<mode, grp, sock, netVars, sigkill>>

\* Mutant of Accept: the server reads from a descriptor that is not the one
\* accept returned.
AcceptWrongFd ==
    /\ place[Server] = "accept"
    /\ \E c \in queue :
          /\ peer' = Stale
          /\ queue' = queue \ {c}
    /\ Goto(Server, "serve")
    /\ UNCHANGED <<envVars, sock>>

Accept ==
    /\ place[Server] = "accept"
    /\ \E c \in queue :
          /\ peer' = c
          /\ queue' = queue \ {c}
    /\ Goto(Server, "serve")
    /\ UNCHANGED <<envVars, sock>>

\* Mutant of ServerSeesEnd: the server too holds the client end.
ServerHoldsBothEnds ==
    /\ place[Server] = "serve"
    /\ \A p \in Process : ~Live(p)
    /\ Goto(Server, "failing")
    /\ UNCHANGED <<envVars, sock, netVars>>

\* recv returns 0: no process holds the client end any more.  Every process
\* but the server does, as First connects before it can fork.
ServerSeesEnd ==
    /\ place[Server] = "serve"
    /\ \A p \in Process \ {Server} : ~Live(p)
    /\ Goto(Server, "failing")
    /\ UNCHANGED <<envVars, sock, netVars>>

-----------------------------------------------------------------------------
(* drrun and the client. *)

DrrunInjects(p) ==
    /\ place[p] = "drrun"
    /\ Goto(p, "client")
    /\ UNCHANGED <<envVars, sock, netVars>>

\* drrun cannot start the target, for example because there is none.  The
\* server ignores SIGCHLD.
DrrunExits(p) ==
    /\ place[p] = "drrun"
    /\ Goto(p, "gone")
    /\ UNCHANGED <<envVars, sock, netVars>>

\* dr_client_main, InternalSS::setup.
SetupInternal(p) ==
    /\ place[p] = "client" /\ mode = "int"
    /\ Goto(p, IF envSock[p] THEN "program" ELSE "failing")
    /\ UNCHANGED <<envVars, sock, netVars>>

\* Mutant of SetupConnects: the socket is made and not connected.
SetupForgetsConnect(p) ==
    /\ place[p] = "client" /\ mode = "ext"
    /\ envSock[p] /\ envFd[p] = Empty
    /\ Goto(p, "program")
    /\ sock' = [sock EXCEPT ![p] = p]
    /\ UNCHANGED <<envVars, netVars>>

\* dr_client_main, ExternalSS::setup with an empty DR_SS_ENV_FD.
SetupConnects(p) ==
    /\ place[p] = "client" /\ mode = "ext"
    /\ envSock[p] /\ envFd[p] = Empty
    /\ Goto(p, "program")
    /\ sock' = [sock EXCEPT ![p] = p]
    /\ queue' = queue \union {p}
    /\ UNCHANGED <<envVars, peer>>

\* dr_client_main, ExternalSS::setup with a file descriptor in it.
SetupReuses(p) ==
    /\ place[p] = "client" /\ mode = "ext"
    /\ envSock[p] /\ envFd[p] \notin {Unset, Empty}
    /\ Goto(p, "program")
    /\ sock' = [sock EXCEPT ![p] = envFd[p]]
    /\ UNCHANGED <<envVars, netVars>>

\* dr_client_main with one of the variables missing: getenv() failed.
SetupFails(p) ==
    /\ place[p] = "client" /\ mode = "ext"
    /\ ~envSock[p] \/ envFd[p] = Unset
    /\ Goto(p, "failing")
    /\ UNCHANGED <<envVars, sock, netVars>>

-----------------------------------------------------------------------------
(* The program.  Its processes are taken to have one thread here. *)

\* Mutant of Execve: DR_SS_ENV_FD is passed as the program has it.
ExecveKeepsFd(p, s, f) ==
    /\ place[p] = "program"
    /\ envSock' = [envSock EXCEPT ![p] = @ /\ s]
    /\ envFd' = [envFd EXCEPT ![p] = IF ~f THEN Unset ELSE @]
    /\ Goto(p, IF mode = "ext" /\ envFd'[p] = Unset THEN "gone" ELSE "client")
    /\ sock' = [sock EXCEPT ![p] = Unset]
    /\ UNCHANGED netVars

\* execve with an environment that keeps what s and f say of the original
\* one.  In the external mode on_execve first puts the client's socket in
\* DR_SS_ENV_FD, and crashes when the variable is not there.
\* A failed execve leaves only the variable rewritten, and the next one
\* rewrites it again.
Execve(p, s, f) ==
    /\ place[p] = "program"
    /\ envSock' = [envSock EXCEPT ![p] = @ /\ s]
    /\ envFd' = [envFd EXCEPT ![p] = IF ~f THEN Unset
                                     ELSE IF mode = "ext" THEN sock[p] ELSE @]
    /\ Goto(p, IF mode = "ext" /\ envFd'[p] = Unset THEN "gone" ELSE "client")
    /\ sock' = [sock EXCEPT ![p] = Unset]
    /\ UNCHANGED netVars

\* The child is in the group of its parent; fork fails with a SIGKILL pending.
Fork(p, q) ==
    /\ place[p] = "program"
    /\ p \notin sigkill
    /\ q \in Others /\ place[q] = "unborn"
    /\ place' = [place EXCEPT ![q] = "program"]
    /\ grp' = [grp EXCEPT ![q] = grp[p]]
    /\ envSock' = [envSock EXCEPT ![q] = envSock[p]]
    /\ envFd' = [envFd EXCEPT ![q] = envFd[p]]
    /\ sock' = [sock EXCEPT ![q] = sock[p]]
    /\ UNCHANGED <<mode, remapped, netVars, sigkill>>

\* setsid, or setpgid( 0, 0 ), called by the program: it fails for the leader
\* of a group.  A process that joins the group of another is left out.
Setsid(p) ==
    /\ place[p] = "program"
    /\ p \notin sigkill
    /\ grp[p] # p
    /\ grp' = [grp EXCEPT ![p] = p]
    /\ UNCHANGED <<mode, place, envVars, remapped, sock, netVars, sigkill>>

\* exit_event, and the end of the process; the assertion in it is in Fails.
ProgramExits(p) ==
    /\ place[p] = "program"
    /\ Goto(p, "gone")
    /\ UNCHANGED <<envVars, sock, netVars>>

\* A log file that cannot be opened, --help or --version end DrShadowStack or
\* the client without terminating the group.
EarlyExit(p) ==
    /\ place[p] \in {"setup", "main", "client"}
    /\ Goto(p, "gone")
    /\ UNCHANGED <<envVars, sock, netVars>>

-----------------------------------------------------------------------------
(* Failure. *)

\* An assertion of DrShadowStack or the client fails (socket, bind, listen,
\* fork, setenv, execvp, accept, recv, connect, write, drmgr_init ...), a
\* terminate is reached, or an armed TerminateOnDestruction is destroyed.
Fails(p) ==
    /\ place[p] \in {"setup", "remap", "main", "start", "listen", "accept",
                     "serve", "client", "program"}
    /\ Goto(p, "failing")
    /\ UNCHANGED <<envVars, sock, netVars>>

\* A fatal signal of those Group::setup remaps: default_signal_handler
\* terminates the group, but only before execvp puts the default back; drrun
\* and the program die alone.  Those that arrive while a process terminates
\* are in module Termination.
FatalSignal(p) ==
    /\ Live(p)
    /\ place[p] \notin {"failing", "spinning"}
    /\ Goto(p, IF p \in remapped THEN "failing" ELSE "gone")
    /\ UNCHANGED <<envVars, sock, netVars>>

\* A signal nothing handles, wherever p is, ends p alone: a SIGKILL from
\* elsewhere or a SIGIO, which set_default_signal_handler leaves out; in a
\* client that terminates any other the program has no handler for.
UnhandledSignal(p) ==
    /\ Live(p)
    /\ Goto(p, "struck")
    /\ UNCHANGED <<envVars, sock, netVars>>

\* Mutant of KillsGroup: kill instead of killpg.
KillsSelf(p) ==
    /\ place[p] = "failing"
    /\ place' = [place EXCEPT ![p] = "spinning"]
    /\ sigkill' = sigkill \union {p}
    /\ UNCHANGED <<mode, grp, envVars, remapped, sock, netVars>>

\* killpg( 0, SIGKILL ): the group p is in.  What else is in it, when setsid
\* failed or was not reached, is left out.
KillsGroup(p) ==
    /\ place[p] = "failing"
    /\ place' = [place EXCEPT ![p] = "spinning"]
    /\ sigkill' = sigkill \union Members(grp[p])
    /\ UNCHANGED <<mode, grp, envVars, remapped, sock, netVars>>

Reap(p) ==
    /\ p \in sigkill
    /\ Live(p)
    /\ Goto(p, "gone")
    /\ UNCHANGED <<envVars, sock, netVars>>

-----------------------------------------------------------------------------

Setup(p) ==
    \/ StartProgram(p)
    \/ DrrunInjects(p)
    \/ DrrunExits(p)
    \/ SetupInternal(p)
    \/ SetupConnects(p)
    \/ SetupReuses(p)
    \/ SetupFails(p)

ServerStep ==
    \/ GroupSetup
    \/ RemapSignals
    \/ Main
    \/ ForkFirst
    \/ Accept
    \/ ServerSeesEnd

Next ==
    \/ ServerStep
    \/ \E p \in Process :
          \/ Setup(p)
          \/ \E s, f \in BOOLEAN : Execve(p, s, f)
          \/ \E q \in Others : Fork(p, q)
          \/ ProgramExits(p)
          \/ EarlyExit(p)
          \/ Fails(p)
          \/ Setsid(p)
          \/ FatalSignal(p)
          \/ UnhandledSignal(p)
          \/ KillsGroup(p)
          \/ Reap(p)

Spec == Init /\ [][Next]_vars

\* Everything but the program is scheduled, and SIGKILLs are delivered.
FairSpec ==
    /\ Spec
    /\ WF_vars(ServerStep)
    /\ \A p \in Process :
          WF_vars(Setup(p)) /\ WF_vars(KillsGroup(p)) /\ WF_vars(Reap(p))

-----------------------------------------------------------------------------
(* Properties *)

\* Every image of the program, after any number of forks and execves and
\* whatever DrShadowStack inherited, reports to the one connection the
\* server accepts (ExternalSS::setup, on_execve, start_program).
OneConnection ==
    /\ mode = "ext" =>
          \A p \in Process :
             place[p] = "program" => sock[p] \in {peer} \union queue
    /\ Cardinality(queue \union ({peer} \ {Unset})) <= 1

\* A process of the program that stayed in the group DrShadowStack set up, and
\* that killpg has not reached, runs in a mode the client implements, and in
\* the external mode only while the server is there: no order of failures
\* or fatal signals leaves it without a guard, only the end of the server by a
\* signal that cannot be handled or that setup leaves out (Group::setup, fork
\* and the server's blocking calls).
NoUnguardedProgram ==
    \A p \in Process :
        place[p] = "program" /\ p \notin sigkill /\ grp[p] = Server =>
            \/ mode = "int"
            \/ /\ mode = "ext"
               /\ place[Server] \in {"accept", "serve", "failing", "struck"}

AllGone == \A p \in Process : ~Live(p)

\* A failure anywhere ends everything in the group of the process that fails:
\* DrShadowStack, the server that may be blocked in accept, drrun and the
\* program, but for processes that left the group and signals that end the
\* failing process first.
FailureEndsGroup ==
    \A p \in Process :
        place[p] = "failing" ~> (Members(grp[p]) = {} \/ place[p] = "struck")

\* The server only waits forever for a connection when the process that
\* was to make it ended before it did.
AcceptEnds ==
    place[Server] = "accept" ~>
        place[Server] # "accept" \/ (~Live(First) /\ queue = {})

\* start_external_shadow_stack and start_external_client: after a connection
\* was made, accepted or not, the server ends when the program has.
ServerEndsWithProgram ==
    (queue \union ({peer} \ {Unset}) # {} /\ \A p \in Process \ {Server} : ~Live(p))
        ~> AllGone
=============================================================================
