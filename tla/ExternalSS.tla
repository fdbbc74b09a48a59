----------------------------- MODULE ExternalSS -----------------------------
(***************************************************************************)
(* The external mode of DrShadowStack: the DynamoRIO client of every       *)
(* protected process reports calls, signals, returns and execves over one  *)
(* unix stream socket to a server, which keeps one shadow stack and lets   *)
(* each return continue or terminates the process group.                   *)
(*                                                                         *)
(* The connection is made once, by the first process; forks, clones and    *)
(* execves of the program share it and are not announced to the server     *)
(* (the FORK and THRD messages are never sent).  Its descriptor is in the  *)
(* program's own table, where the program may close or replace it.         *)
(*                                                                         *)
(* A message is written by one write and read by one recv, so the socket   *)
(* is a queue of whole messages in each direction: module Framing.         *)
(*                                                                         *)
(* History variables: frames, lost and goal as in InternalSS; culprit, the *)
(* client whose return the server refused; the sender of a message and the *)
(* addressee of a Continue, which the bytes on the socket do not carry.    *)
(***************************************************************************)
EXTENDS Integers, Sequences, FiniteSets, SequencesExt

CONSTANTS
    Main,       \* the thread that made the connection
    Workers,    \* threads clone may create
    Children,   \* first threads of the processes fork may create; a name in
                \* both sets is taken by whichever comes first
    Addr,       \* return addresses
    WILDCARD,   \* (char *) -1
    NoAddr,     \* no return is being executed
    NoClient,   \* the server refused no return
    MaxDepth,   \* bound on the number of open calls of a client
    SockCap     \* messages the socket holds before write blocks

ASSUME ClientAssumption ==
    /\ Main \notin Workers \union Children
    /\ NoClient \notin {Main} \union Workers \union Children

ASSUME AddrAssumption ==
    /\ WILDCARD \notin Addr
    /\ NoAddr \notin Addr \union {WILDCARD}

ASSUME CapAssumption == SockCap \in Nat \ {0}

Client == {Main} \union Workers \union Children

Frame == Addr \union {WILDCARD}

Message ==
    [type : {"CALL", "RET-"}, addr : Addr, from : Client]
        \union [type : {"NEWS", "EXEC"}, from : Client]

VARIABLES
    status,     \* status[c]: what thread c of the program is doing
    proc,       \* proc[c]: the process of c, named after its first thread
    held,       \* processes whose descriptor is still the socket
    toServer,   \* messages written by the clients, oldest first
    toClient,   \* Continue messages: whose return each one approves
    stk,        \* the server's shadow stack, top last
    srv,        \* what the server is doing
    alarm,      \* why the server entered Group::terminate
    culprit,    \* the client whose return the server refused
    killed,     \* killpg was called: every process has a SIGKILL pending
    frames, lost, goal

socketVars == <<toServer, toClient>>
serverVars == <<stk, srv, alarm, culprit>>
historyVars == <<frames, lost, goal>>
vars == <<status, proc, held, socketVars, serverVars, killed, historyVars>>

Statuses == {"unborn", "running",
             "waiting",     \* RET sent, in recv_msg<Continue>
             "astray",      \* the same, on a descriptor that is not the socket
             "execing",     \* between the pre and the post execve event
             "failing",     \* in Group::terminate, before killpg
             "spinning",    \* in the endless loop of kill_9_group
             "dead"}

ServerStates == {"serving", "terminating", "spinning", "dead"}

Alarms == {"none",
           "empty", "mismatch",     \* ret_handler refused a return
           "exited",                \* recv returned 0: all clients are gone
           "broken"}                \* recv or write failed

TypeOK ==
    /\ status \in [Client -> Statuses]
    /\ proc \in [Client -> Client]
    /\ held \subseteq Client
    /\ toServer \in Seq(Message)
    /\ toClient \in Seq(Client)
    /\ stk \in Seq(Frame)
    /\ srv \in ServerStates
    /\ alarm \in Alarms
    /\ culprit \in Client \union {NoClient}
    /\ killed \in BOOLEAN
    /\ frames \in [Client -> Seq(Frame)]
    /\ lost \in [Client -> Nat]
    /\ goal \in [Client -> Addr \union {NoAddr}]

Live(c) == status[c] \notin {"unborn", "dead"}

\* Some process still holds the client end of the socket: in its table, or
\* because one of its threads is in recv.
Connected ==
    \E c \in Client : Live(c) /\ (proc[c] \in held \/ status[c] = "waiting")

\* The server still holds its end.
ServerUp == srv # "dead"

Siblings(c) == {d \in Client \ {c} : Live(d) /\ proc[d] = proc[c]}

Init ==
    /\ status = [c \in Client |-> IF c = Main THEN "running" ELSE "unborn"]
    /\ proc = [c \in Client |-> c]
    /\ held = Client
    /\ toServer = <<>>
    /\ toClient = <<>>
    /\ stk = <<>>
    /\ srv = "serving"
    /\ alarm = "none"
    /\ culprit = NoClient
    /\ killed = FALSE
    /\ frames = [c \in Client |-> <<>>]
    /\ lost = [c \in Client |-> 0]
    /\ goal = [c \in Client |-> NoAddr]

-----------------------------------------------------------------------------
(* Client side. *)

\* send_msg that writes all of m, after waiting for room.  Once the program
\* has put another file in the place of the socket, m ends up there.
Send(m) ==
    \/ /\ proc[m.from] \in held
       /\ ServerUp
       /\ Len(toServer) < SockCap
       /\ toServer' = Append(toServer, m)
       /\ UNCHANGED toClient
    \/ /\ proc[m.from] \notin held
       /\ UNCHANGED socketVars

OnCall(c, a) ==
    /\ status[c] = "running"
    /\ Len(frames[c]) < MaxDepth
    /\ Send([type |-> "CALL", addr |-> a, from |-> c])
    /\ frames' = [frames EXCEPT ![c] = Append(@, a)]
    /\ UNCHANGED <<status, proc, held, serverVars, killed, lost, goal>>

OnSignal(c) ==
    /\ status[c] = "running"
    /\ Len(frames[c]) < MaxDepth
    /\ Send([type |-> "NEWS", from |-> c])
    /\ frames' = [frames EXCEPT ![c] = Append(@, WILDCARD)]
    /\ UNCHANGED <<status, proc, held, serverVars, killed, lost, goal>>

\* First half of on_ret: the return to a is announced.
OnRetSends(c, a) ==
    /\ status[c] = "running"
    /\ Send([type |-> "RET-", addr |-> a, from |-> c])
    /\ status' = [status EXCEPT ![c] =
                     IF proc[c] \in held THEN "waiting" ELSE "astray"]
    /\ goal' = [goal EXCEPT ![c] = a]
    /\ UNCHANGED <<proc, held, serverVars, killed, frames, lost>>

\* on_ret comes back and the return is executed: the innermost call of c is
\* over, forgotten or not.
ReturnExecuted(c) ==
    /\ status' = [status EXCEPT ![c] = "running"]
    /\ frames' = [frames EXCEPT ![c] = Front(@)]
    /\ lost' = [lost EXCEPT ![c] = IF @ < Len(frames[c])
                                   THEN @ ELSE Len(Front(frames[c]))]
    /\ goal' = [goal EXCEPT ![c] = NoAddr]

\* Mutant of OnRetContinues: recv takes everything that is in the socket.
OnRetDrains(c) ==
    /\ status[c] = "waiting"
    /\ toClient # <<>>
    /\ toClient' = <<>>
    /\ ReturnExecuted(c)
    /\ UNCHANGED <<proc, held, toServer, serverVars, killed>>

\* Second half of on_ret: the first Continue in the socket is taken, for
\* whomever it was written, and the return is executed.
OnRetContinues(c) ==
    /\ status[c] = "waiting"
    /\ toClient # <<>>
    /\ toClient' = Tail(toClient)
    /\ ReturnExecuted(c)
    /\ UNCHANGED <<proc, held, toServer, serverVars, killed>>

\* Mutant of RecvFails: the length recv returned is not checked.
RecvUnchecked(c) ==
    /\ status[c] = "waiting"
    /\ toClient = <<>>
    /\ ~ServerUp
    /\ ReturnExecuted(c)
    /\ UNCHANGED <<proc, held, socketVars, serverVars, killed>>

\* recv_msg returns 0 when the server is gone: assertion failure.
RecvFails(c) ==
    /\ status[c] = "waiting"
    /\ toClient = <<>>
    /\ ~ServerUp
    /\ status' = [status EXCEPT ![c] = "failing"]
    /\ UNCHANGED <<proc, held, socketVars, serverVars, killed, historyVars>>

\* recv comes back short, interrupted by a signal: assertion failure.
RecvInterrupted(c) ==
    /\ status[c] = "waiting"
    /\ status' = [status EXCEPT ![c] = "failing"]
    /\ UNCHANGED <<proc, held, socketVars, serverVars, killed, historyVars>>

\* recv_msg on a socket of the program's own, from which twelve bytes that
\* begin with the header of Continue arrive: the return is executed, and
\* nobody has checked it.
AstrayContinues(c) ==
    /\ status[c] = "astray"
    /\ ReturnExecuted(c)
    /\ UNCHANGED <<proc, held, socketVars, serverVars, killed>>

\* The same recv_msg on what is no socket, or when anything else arrives.  Or
\* nothing ever does, and the client stays where it is.
AstrayFails(c) ==
    /\ status[c] = "astray"
    /\ status' = [status EXCEPT ![c] = "failing"]
    /\ UNCHANGED <<proc, held, socketVars, serverVars, killed, historyVars>>

\* Any send_msg when the server is gone, EPIPE, when the descriptor is closed
\* or not one to write to, or when a signal interrupts the wait for room.
WriteFails(c) ==
    /\ status[c] \in {"running", "execing"}
    /\ ~ServerUp \/ proc[c] \notin held \/ Len(toServer) = SockCap
    /\ status' = [status EXCEPT ![c] = "failing"]
    /\ UNCHANGED <<proc, held, socketVars, serverVars, killed, historyVars>>

\* The same write in a program that took back the SIGPIPE it inherited as
\* ignored: the signal ends the process before the assertion can fail.
WriteRaisesSigpipe(c) ==
    /\ status[c] \in {"running", "execing"}
    /\ ~ServerUp /\ proc[c] \in held
    /\ status' = [d \in Client |-> IF d \in Siblings(c) \union {c}
                                   THEN "dead" ELSE status[d]]
    /\ UNCHANGED <<proc, held, socketVars, serverVars, killed, historyVars>>

\* The program closes the descriptor, or puts another file in its place.
DropSocket(c) ==
    /\ status[c] = "running"
    /\ proc[c] \in held
    /\ held' = held \ {proc[c]}
    /\ UNCHANGED <<status, proc, socketVars, serverVars, killed, historyVars>>

-----------------------------------------------------------------------------
(* execve: on_execve sends EXEC, then walks the environment passed to the  *)
(* system call up to DR_SS_ENV_FD, before the call and after a failed one. *)

PreExecve(c) ==
    /\ status[c] = "running"
    /\ Send([type |-> "EXEC", from |-> c])
    /\ status' = [status EXCEPT ![c] = "execing"]
    /\ lost' = [lost EXCEPT ![c] = Len(frames[c])]
    /\ UNCHANGED <<proc, held, serverVars, killed, frames, goal>>

\* The environment has no DR_SS_ENV_FD: the walk reads past its end and the
\* process crashes.
EnvWalkCrashes(c) ==
    /\ status[c] = "execing"
    /\ status' = [d \in Client |-> IF d \in Siblings(c) \union {c}
                                   THEN "dead" ELSE status[d]]
    /\ UNCHANGED <<proc, held, socketVars, serverVars, killed, historyVars>>

ExecveFails(c) ==
    /\ status[c] = "execing"
    /\ Send([type |-> "EXEC", from |-> c])
    /\ status' = [status EXCEPT ![c] = "running"]
    /\ UNCHANGED <<proc, held, serverVars, killed, historyVars>>

\* The new image finds the socket's number in DR_SS_ENV_FD and goes on with
\* the same connection.
ExecveSucceeds(c) ==
    /\ status[c] = "execing"
    /\ ~killed
    /\ status' = [d \in Client |-> IF d = c THEN "running"
                                   ELSE IF d \in Siblings(c) THEN "dead"
                                   ELSE status[d]]
    /\ frames' = [frames EXCEPT ![c] = <<>>]
    /\ lost' = [lost EXCEPT ![c] = 0]
    /\ UNCHANGED <<proc, held, socketVars, serverVars, killed, goal>>

-----------------------------------------------------------------------------
(* Processes and threads, none of which the server hears of. *)

Fork(c, d) ==
    /\ status[c] = "running"
    /\ ~killed
    /\ status[d] = "unborn"
    /\ status' = [status EXCEPT ![d] = "running"]
    /\ frames' = [frames EXCEPT ![d] = frames[c]]
    /\ lost' = [lost EXCEPT ![d] = lost[c]]
    /\ held' = IF proc[c] \in held THEN held ELSE held \ {d}
    /\ UNCHANGED <<proc, socketVars, serverVars, killed, goal>>

Clone(c, d) ==
    /\ status[c] = "running"
    /\ ~killed
    /\ status[d] = "unborn"
    /\ status' = [status EXCEPT ![d] = "running"]
    /\ proc' = [proc EXCEPT ![d] = proc[c]]
    /\ UNCHANGED <<held, socketVars, serverVars, killed, historyVars>>

ThreadExit(c) ==
    /\ status[c] = "running"
    /\ status' = [status EXCEPT ![c] = "dead"]
    /\ UNCHANGED <<proc, held, socketVars, serverVars, killed, historyVars>>

\* exit_group by c.  The other threads end wherever they are: in
\* particular between sending RET and receiving Continue.
ExitProcess(c) ==
    /\ status[c] = "running"
    /\ status' = [d \in Client |-> IF d \in Siblings(c) \union {c}
                                   THEN "dead" ELSE status[d]]
    /\ UNCHANGED <<proc, held, socketVars, serverVars, killed, historyVars>>

-----------------------------------------------------------------------------
(* The server: one iteration of the loop in start_external_shadow_stack    *)
(* per message.                                                            *)

Receive(type) ==
    /\ srv = "serving"
    /\ toServer # <<>>
    /\ Head(toServer).type = type
    /\ toServer' = Tail(toServer)

\* Group::terminate on the server, because of reason.
Raise(reason) ==
    /\ srv' = "terminating"
    /\ alarm' = reason

CallHandler ==
    /\ Receive("CALL")
    /\ stk' = Append(stk, Head(toServer).addr)
    /\ UNCHANGED <<status, proc, held, toClient, srv, alarm, culprit,
                   killed, historyVars>>

\* Mutant of AddWildcard: what is pushed is not a target a return can match.
AddNull ==
    /\ Receive("NEWS")
    /\ stk' = Append(stk, NoAddr)
    /\ UNCHANGED <<status, proc, held, toClient, srv, alarm, culprit,
                   killed, historyVars>>

AddWildcard ==
    /\ Receive("NEWS")
    /\ stk' = Append(stk, WILDCARD)
    /\ UNCHANGED <<status, proc, held, toClient, srv, alarm, culprit,
                   killed, historyVars>>

\* Mutant of ClearStack: an if where the loop is.
PopOnce ==
    /\ Receive("EXEC")
    /\ stk' = IF stk = <<>> THEN <<>> ELSE Front(stk)
    /\ UNCHANGED <<status, proc, held, toClient, srv, alarm, culprit,
                   killed, historyVars>>

ClearStack ==
    /\ Receive("EXEC")
    /\ stk' = <<>>
    /\ UNCHANGED <<status, proc, held, toClient, srv, alarm, culprit,
                   killed, historyVars>>

\* Mutant of TopAllows: any return is allowed while a call is open.
TopAllowsAny(a) == stk # <<>>

\* Mutant of TopAllows: a wildcard is an address like the others.
TopAllowsExact(a) == stk # <<>> /\ Last(stk) = a

TopAllows(a) == stk # <<>> /\ Last(stk) \in {a, WILDCARD}

RetHandlerRefuses ==
    /\ Receive("RET-")
    /\ ~TopAllows(Head(toServer).addr)
    /\ Raise(IF stk = <<>> THEN "empty" ELSE "mismatch")
    /\ culprit' = Head(toServer).from
    /\ UNCHANGED <<status, proc, held, toClient, stk, killed, historyVars>>

\* Mutant of RetHandlerContinues: no Continue is written.
RetHandlerSilent ==
    /\ Receive("RET-")
    /\ TopAllows(Head(toServer).addr)
    /\ stk' = Front(stk)
    /\ UNCHANGED <<status, proc, held, toClient, srv, alarm, culprit,
                   killed, historyVars>>

RetHandlerContinues ==
    /\ Receive("RET-")
    /\ TopAllows(Head(toServer).addr)
    /\ stk' = Front(stk)
    /\ IF Connected
       THEN /\ toClient' = Append(toClient, Head(toServer).from)
            /\ UNCHANGED <<srv, alarm>>
       ELSE \* write( sock, Continue ) fails: nobody is left to read it.
            /\ Raise("broken")
            /\ UNCHANGED toClient
    /\ UNCHANGED <<status, proc, held, culprit, killed, historyVars>>

\* Mutant of ServerSeesEnd: an empty socket is taken for a closed one.
ServerSeesPause ==
    /\ srv = "serving"
    /\ toServer = <<>>
    /\ Raise(IF toClient = <<>> THEN "exited" ELSE "broken")
    /\ UNCHANGED <<status, proc, held, socketVars, stk, culprit,
                   killed, historyVars>>

\* recv when nothing is left to read and nobody is left to write: 0 bytes, or
\* an error when the clients left a Continue unread.
ServerSeesEnd ==
    /\ srv = "serving"
    /\ toServer = <<>>
    /\ ~Connected
    /\ Raise(IF toClient = <<>> THEN "exited" ELSE "broken")
    /\ UNCHANGED <<status, proc, held, socketVars, stk, culprit,
                   killed, historyVars>>

\* The server dies alone: a SIGKILL from outside, the OOM killer.
ServerCrashes ==
    /\ ServerUp
    /\ srv' = "dead"
    /\ UNCHANGED <<status, proc, held, socketVars, stk, alarm, culprit,
                   killed, historyVars>>

-----------------------------------------------------------------------------
(* The end: killpg( 0, SIGKILL ) by whoever terminates, then the kernel    *)
(* ends one process after the other.                                       *)

ServerKillsGroup ==
    /\ srv = "terminating"
    /\ srv' = "spinning"
    /\ killed' = TRUE
    /\ UNCHANGED <<status, proc, held, socketVars, stk, alarm,
                   culprit, historyVars>>

ClientKillsGroup(c) ==
    /\ status[c] = "failing"
    /\ status' = [status EXCEPT ![c] = "spinning"]
    /\ killed' = TRUE
    /\ UNCHANGED <<proc, held, socketVars, serverVars, historyVars>>

ReapServer ==
    /\ killed /\ ServerUp
    /\ srv' = "dead"
    /\ UNCHANGED <<status, proc, held, socketVars, stk, alarm, culprit,
                   killed, historyVars>>

Reap(p) ==
    /\ killed
    /\ \E c \in Client : Live(c) /\ proc[c] = p
    /\ status' = [c \in Client |-> IF Live(c) /\ proc[c] = p
                                   THEN "dead" ELSE status[c]]
    /\ UNCHANGED <<proc, held, socketVars, serverVars, killed, historyVars>>

-----------------------------------------------------------------------------

ClientStep(c) ==
    \/ \E a \in Addr : OnCall(c, a) \/ OnRetSends(c, a)
    \/ OnSignal(c)
    \/ OnRetContinues(c)
    \/ RecvFails(c)
    \/ RecvInterrupted(c)
    \/ AstrayContinues(c)
    \/ AstrayFails(c)
    \/ WriteFails(c)
    \/ WriteRaisesSigpipe(c)
    \/ DropSocket(c)
    \/ PreExecve(c)
    \/ EnvWalkCrashes(c)
    \/ ExecveFails(c)
    \/ ExecveSucceeds(c)
    \/ \E d \in Children : Fork(c, d)
    \/ \E d \in Workers : Clone(c, d)
    \/ ThreadExit(c)
    \/ ExitProcess(c)
    \/ ClientKillsGroup(c)

ServerStep ==
    \/ CallHandler
    \/ AddWildcard
    \/ ClearStack
    \/ RetHandlerRefuses
    \/ RetHandlerContinues
    \/ ServerSeesEnd
    \/ ServerKillsGroup

Next ==
    \/ \E c \in Client : ClientStep(c) \/ Reap(c)
    \/ ServerStep
    \/ ServerCrashes
    \/ ReapServer

Spec == Init /\ [][Next]_vars

\* The server and every client that has something to do for the shadow stack
\* are scheduled, and the kernel delivers SIGKILLs.  Nothing is assumed of
\* the program: it may never call, return or exit again.
FairSpec ==
    /\ Spec
    /\ WF_vars(ServerStep)
    /\ WF_vars(ReapServer)
    /\ \A c \in Client :
          /\ WF_vars(OnRetContinues(c))
          /\ WF_vars(RecvFails(c))
          /\ WF_vars(ClientKillsGroup(c))
          /\ WF_vars(Reap(c))

-----------------------------------------------------------------------------
(* Safety *)

Corrupt(c) ==
    \/ frames[c] = <<>>
    \/ Last(frames[c]) \notin {goal[c], WILDCARD}

\* The calls of c that are open and not forgotten by an execve attempt.
Remembered(c) == SubSeq(frames[c], lost[c] + 1, Len(frames[c]))

\* What the server does to its stack for message m.
Handle(s, m) ==
    CASE m.type = "CALL" -> Append(s, m.addr)
      [] m.type = "NEWS" -> Append(s, WILDCARD)
      [] m.type = "EXEC" -> <<>>
      [] m.type = "RET-" -> Front(s)

\* The server's stack once it has handled the messages of q, s being the one
\* it starts from.
Final(s, q) ==
    LET after[i \in 0 .. Len(q)] ==
            IF i = 0 THEN s ELSE Handle(after[i - 1], q[i])
    IN  after[Len(q)]

\* With one client, until the program drops the socket: the server's stack,
\* once it has handled what is still under way, is the client's remembered
\* calls, less the one a pending return leaves (call_handler, add_wildcard,
\* clear_stack and ret_handler against the client's on_call, on_signal,
\* on_execve and on_ret).
LockstepAcrossSocket ==
    srv = "serving" /\ Main \in held =>
        Final(stk, toServer) =
            IF goal[Main] # NoAddr THEN Front(Remembered(Main))
                                   ELSE Remembered(Main)

Refused == alarm \in {"empty", "mismatch"}

\* README.md:5: only a program that returns to a corrupted address is
\* terminated, or one whose calls were all forgotten by an execve attempt.
\* Claimed there for threads and forks as well.
OnlyBadReturnsRefused ==
    Refused => \/ Corrupt(culprit)
               \/ lost[culprit] > 0 /\ Len(frames[culprit]) = lost[culprit]

\* README.md:5: a return to a corrupted address is never executed, as long as
\* the process still has the socket.  Claimed there for threads and forks as
\* well.
NoCorruptReturnExecuted ==
    [][\A c \in Client :
          goal[c] # NoAddr /\ goal'[c] = NoAddr /\ proc[c] \in held
              => ~Corrupt(c)]_vars

Waiting == {c \in Client : status[c] = "waiting"}

PendingReturns == {i \in 1 .. Len(toServer) : toServer[i].type = "RET-"}

\* No client waits for a Continue nobody will write: whoever takes whose
\* Continue, and whoever dies waiting, there are as many answers under way
\* as clients waiting.
NoWaiterForgotten ==
    srv = "serving" =>
        Cardinality(Waiting) <= Cardinality(PendingReturns) + Len(toClient)

\* What the server reports when nobody is left is how the program ended,
\* whichever clients took each other's Continue and died meanwhile: "Client
\* Disconnected" only if no return was left unexecuted by a process that had
\* the socket, the failure of recv or write only if a client stopped inside a
\* return.
EndIsTold ==
    /\ alarm = "exited" => \A c \in Client : goal[c] # NoAddr
                                                 => proc[c] \notin held
    /\ alarm = "broken" => \E c \in Client :
                              /\ goal[c] # NoAddr
                              /\ status[c] \in {"failing", "spinning", "dead"}

-----------------------------------------------------------------------------
(* Refinement *)

GuardState ==
    [c \in Client |->
        CASE status[c] = "unborn" -> "unborn"
          [] Live(c) /\ culprit = c -> "halted"
          [] Live(c) /\ culprit # c /\ proc[c] \notin held -> "escaped"
          [] Live(c) /\ culprit # c /\ proc[c] \in held
             /\ (status[c] \in {"failing", "spinning"} => goal[c] # NoAddr)
                -> "running"
          [] OTHER -> "gone"]

\* A program that drops the socket is guarded no longer.
Guard == INSTANCE ReturnGuard
            WITH Thread <- Client, Loose <- Client, state <- GuardState

\* With one client the external mode implements ReturnGuard, through the
\* delays of the socket, execves that fail, and the death of either side.
RefinesGuard == Guard!Spec

-----------------------------------------------------------------------------
(* Liveness *)

AllDead == srv = "dead" /\ ~Connected

\* With one client: a corrupt return ends in the death of the whole group,
\* even when the server crashes before, while or after checking it.
CorruptReturnEndsAll ==
    \A c \in Client : (status[c] = "waiting" /\ Corrupt(c)) ~> AllDead

\* A client does not wait forever for the server.
EveryReturnAnswered ==
    \A c \in Client : (status[c] = "waiting") ~> (status[c] # "waiting")
=============================================================================
