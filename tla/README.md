# DrShadowStack: specification, model checking and proofs

DrShadowStack runs a program under DynamoRIO, keeps a second copy of the
return addresses of its open calls (the shadow stack), compares every return
with it, and kills the process group on the first return that does not match.
This directory holds TLA+ modules for the parts of it whose correctness depends
on the order of events: threads and processes that call, return, fork, exec and
die in any order, two sides of a socket, a launch that may fail or be
interrupted anywhere, a termination path that may fail inside itself; and, as
pure control, for the command line and the layout of messages. TLC checks them
on small instances (the `.cfg` files) and TLAPS
proves the central safety properties for every value of the constants.

Paths below are relative to the repository; `src/` is its source directory.

## 1. The system

| Component | Files | State it keeps | Operations |
|---|---|---|---|
| Internal shadow stack | `src/dr_internal_ss_events.cpp` | one `std::stack<app_pc>` per thread in a TLS field, made on first use | `on_call`, `on_ret`, `on_signal`, pre and post execve event, `setup` |
| External shadow stack, client | `src/dr_external_ss_events.cpp` | the socket, a private copy of `DR_SS_ENV_FD` | the same callbacks, as messages |
| External shadow stack, server | `src/external_stack_server.cpp` | one stack, the socket | receive loop, `call_handler`, `add_wildcard`, `clear_stack`, `ret_handler` |
| Messages | `src/message.hpp`, `.cpp` | the bytes on the stream | the message types and their sizes, `send_msg`, `recv_msg`, the choice of a handler by header |
| Group termination | `src/group.cpp` | `terminate_already_called`, `setup_complete`, signal handlers | `Group::setup`, `Group::terminate`, `TerminateOnDestruction`, `default_signal_handler`, `kill_9_group` |
| Assertions and logging | `src/utilities.cpp`, `.hpp` | `is_multi_thread_or_proccess`, the log's descriptor | `err`, `assert`, `get_tid`, `write_log` and what calls it |
| Launcher | `src/shadow_stack.cpp` | the environment, the listening socket | `main`, `start_program`, `start_external_client` |
| Unix sockets | `src/quick_socket.cpp` | none | create, connect, accept |
| Client entry | `src/dr_shadow_stack_client.cpp` | `handlers` | `dr_client_main`, instrumentation of calls, returns and signals |
| Modes and arguments | `src/ss_mode.cpp`, `src/parse_args.cpp` | `argv` and the values found in it | two passes over `argv`, the checks on their result, which modes are valid |
| Symbol printing | `src/dr_print_sym.cpp` | what of a report is still to print | `Sym::print` and its early returns, `init`, `finish` |
| Names, constants | `src/temp_name.cpp`, `src/constants.hpp` | none | no control flow of interest |

How they interact:

- `main` sets up the group and becomes drrun (internal mode), or creates a
  server, forks a child that becomes drrun, and accepts one connection
  (external mode). Two environment variables tell each program image what to
  do in `dr_client_main`; they survive fork and exec only if the program lets
  them.
- DynamoRIO calls the client's callbacks on the thread that executes the call,
  return or system call. In the internal mode they work on that thread's stack.
  In the external mode they write to one stream socket that all threads and
  processes share, and `on_ret` blocks until a Continue can be read.
- Everything that fails, in any process, ends in `Group::terminate`, which calls
  the logging functions, which call `assert`, which calls `Group::terminate`.
- The end is `killpg( 0, SIGKILL )`: a set of processes fixed at that instant,
  which die one after the other while the others still run.

What is hard, and therefore modelled: interleaving of threads and processes on
one stack and one socket; fork, clone, exec and exit between two steps of
another actor; a failed exec after its pre event; wildcards that match any
return; the death of either side of the socket between two messages; the race
between a report and the exit of its process; terminate interrupted by
signals and by its own failures; accept waiting for a process that is gone;
signals before, between and after the steps that install and remove their
handlers, and the one that is never handled; processes that leave the group that
is killed; programs that jump out of calls, or close the descriptor they share
with the client.
`PROJECT.json` lists these hazards at their lines, each with its properties.

What makes each component correct:

- *internal*: a shadow stack is the thread's open calls; only bad returns are
  reported; a bad return never executes; a report reaches the whole group;
- *external*: the server's stack plus what is still in the socket is the
  client's open calls; every return is answered; a corrupt return ends
  everything even if the server crashes; what the server says of the end is how
  the program ended;
- *termination*: the recursion is bounded, what cannot be printed is not
  printed again, killpg is reached;
- *launch*: one connection for all images, no image without a guard, a failure
  anywhere ends its whole group, both sides of the fork among them, the server
  ends when the program does;
- *messages*: neither side ever takes a body for a header or part of a message
  for a whole one, and recv and write fail only when the other side is gone;
- *arguments*: the target gets exactly the arguments given after it.

## 2. Modules

| Module | What it is |
|---|---|
| `ReturnGuard` | the promise: a thread at a return proceeds iff it goes where the innermost remembered call returns, else it is halted for good; no shadow stack |
| `InternalSS` | internal mode: threads, processes, TLS stacks, killpg |
| `InternalSSProofs` | theorems about `InternalSS` |
| `NonLocalExit` | `InternalSS` under programs that leave calls without a return |
| `NonLocalExitProofs` | theorems about `NonLocalExit` |
| `ExternalSS` | external mode: clients, socket, server |
| `ExternalSSProofs` | theorems about `ExternalSS` with any number of clients |
| `ExternalSSAlone` | theorems about `ExternalSS` until the program first forks or clones |
| `MessageQueue` | what `ExternalSS` takes the socket for: a queue of whole messages |
| `Framing` | the stream of bytes it is, and the layout of messages on it |
| `FramingProofs` | theorems about `Framing` |
| `Termination` | one process on its way from a report or a failure to killpg |
| `TerminationProofs` | theorems about `Termination` |
| `Launch` | from `main` to the first instruction of each image, and exec |
| `LaunchProofs` | theorems about `Launch` |
| `Arguments` | from the command line of DrShadowStack to that of drrun |
| `ArgumentsProofs` | theorems about `Arguments` |
| `MCInternalSS`, `MCNonLocalExit`, `MCExternalSS`, `MCFraming`, `MCTermination`, `MCLaunch`, `MCArguments` | instances for TLC |

The modules meet in three places. `Arguments` ends in a mode and a command
line, `Launch` begins with a mode. `Launch` ends with images that hold one
connection, `ExternalSS` begins with a client that has it. `Framing` implements
`MessageQueue`, and `ExternalSS` is written over such a queue. All failures end
in `Group::terminate`: one step and a killpg in the other modules, taken apart in
`Termination`.

`InternalSS` and `ExternalSS` each hold an `INSTANCE ReturnGuard WITH state <-
GuardState`; `RefinesGuard` is the abstract specification as a property. `Framing`
holds an `INSTANCE MessageQueue` in the same way, with `IsQueue`.
Each model module also holds a few operators commented `Mutant of ...`: a
definition with one plausible bug. They are used nowhere in the
specification; replacing the original by the mutant must break the property
named in `PROJECT.json`, which shows that the property depends on that code.

### State and code, `InternalSS`

`shadow[t]` is the stack in t's TLS field and `allocated` tells whether the
field is set (`TLS::get` sets it on first use, and may fail: `TlsFails`).
`status[t]` is where t is, `proc`, `pgid` and `sigkill` are the kernel's
processes, groups and pending SIGKILLs, `sockEnv` the environment variable
`dr_client_main` asserts. `frames[t]`, `lost[t]` and `goal[t]` are history: the
calls really open, how many of the oldest an execve attempt made the client
forget, and the target of the return being checked. `frames` is what the
properties compare the shadow stack with; no guard of a client action reads it,
and `MaxDepth` bounds it.

`OnCall`, `OnSignal`, `OnRetPops`, `OnRetReports`, `PreExecve`, `ExecveFails` are
the callbacks. `on_execve` runs in the pre event and, because the post event is
only delivered if the call returned, again after a failed one: both clear the
stack. `ReachRet(t, a)` lets the program return to any address. `Fork` copies
the TLS field with the rest of the memory and `Clone` leaves it unset, as the
client hooks neither. A report takes two steps, `OnRetReports` and
`Terminate`, because logging and symbol printing lie between them; all other
threads run meanwhile. `Terminate` fixes the set that gets the SIGKILL, `Reap`
delivers it to one process. A thread with a pending SIGKILL may still execute
program instructions, but its fork, clone and execve fail.

### State and code, `NonLocalExit`

`JumpSpec` is `InternalSS` with one more history variable, `live`: the calls a
thread has open after its jumps, while `frames` are the calls no return was taken
for. `Longjmp` cuts `live` anywhere and changes nothing else, because
`event_app_instruction` instruments only calls and returns, and `on_ret` does not
search for the frame that matches. It stands for longjmp, exceptions, switches
of context that never come back, and jumps out of a signal handler, which leave
a wildcard behind.

### State and code, `ExternalSS`

`toServer` and `toClient` are the two directions of the socket, `stk` the
server's stack, `srv` and `alarm` what it does and why it terminated. A message is a
record of its type and address; the body of header-only messages is never read
and left out. `SockCap` is the number of messages after which a write blocks.
`OnRetSends` and `OnRetContinues` are the two halves of `on_ret`: between them the
client waits, and the first Continue in the socket goes to whoever reads
first. The identities of senders are history. `ServerSeesEnd` models both ways
the stream can end: 0 bytes, or an error when a client died with a Continue
unread. `ServerCrashes` is the loss of the server alone; `RecvFails` and
`WriteFails` are what clients make of it, or `WriteRaisesSigpipe` in a program
that took back the ignored SIGPIPE it inherited. `RecvInterrupted` is a recv that
comes back short because of a signal; a signal that interrupts a write waiting
for room is in `WriteFails`. `ReturnExecuted` is what all ways to execute a return
have in common. `killed` abstracts the groups of `InternalSS` and `Launch`: here no
process leaves the one that is killed.

The descriptor is in the program's own table. `held` is the set of processes
whose descriptor is still the socket, and `DropSocket` lets the program close it or
put another file there, whenever one of its threads runs. A client that writes
afterwards fails, or writes into the other file and then waits there: status
`astray`, which is not waiting on the server and may last forever. If the file is
a socket of the program's own and twelve bytes that begin with `CONT` arrive on it,
`recv_msg` is content and the return is executed, whatever it is
(`AstrayContinues`); anything else fails (`AstrayFails`). So nothing is promised of a
process that has dropped the socket: `ReturnGuard` has a state `escaped` for it,
which only threads in its constant `Loose` may enter (`Escape`) and in which they do
what they like (`Stray`). The internal mode has no such threads. A thread that
was in recv when another one closed the descriptor keeps the connection open
(`Connected`).

### State and code, `Framing`

The stream is cut in cells of four characters. A message is its header cell and
`PointerCells` more. `HeaderMessage` is `send_msg` of a header-only type: it writes
the size of a whole message from the string literal of the header, so its body
is what `beyond` says lies behind the literal, which may look like a header. The
server writes its Continue from the buffer `set_length` filled with zeros
(`PaddedMessage`). A
write of this size is one buffer of the kernel, so writes do not mix, and a recv
with `MSG_WAITALL` is short only at the end of the stream (a signal is
`RecvInterrupted` of `ExternalSS`). `Dispatch` is an iteration of the server's loop: the
header chooses the handler in its map or nothing matches. Every failing assertion
is a state: `confused` when a message was misread or only part of one came,
`failing` (client) and `broken` (server) when recv returned nothing or an error, or
write failed, because the other side is gone.

### State and code, `Termination`

`pc[t]` is the innermost of the mutually recursive functions t is in. That is
enough because none of them returns after a failure: `err`, `terminate` and the
signal handler never return. `flag` is `terminate_already_called`, tested and
set in two steps, `multi` is `is_multi_thread_or_proccess`, set once by
`EnablesTids`. `client` tells whether the process is a client, with any number of
threads and reports that print symbols, or the launcher or server, whose only
thread is `Main` and which takes signals. `todo[t]` is what the report t is in has
still to print: the line with the two addresses, and for each address the line
before and the line after `Sym::print` looked it up. An early return of `Sym::print`
prints another text and goes on with the report. `TidFails` and `WriteFails` are
the two ways `write_log` fails and apply wherever something is logged. `depth` and
`signals` count activations and signals.

A process may end before it has called killpg. `EndsProcess` is a thread in its
ordinary code that ends the process for its siblings too, wherever they are on
their way: exit_group, a return from main, or an execve. `IsStruck` is a signal
nothing handles, remembered in `struck`: a SIGKILL from outside, a SIGIO, or in a
client any signal the program leaves to its default. `Exits` is the end of one
thread.

### State and code, `Launch`

`place[p]` is what process p executes, `envSock` and `envFd` are the two
environment variables, `sock` the descriptor the client uses (and keeps in its
private copy of the variable), `queue` and `peer` the listening socket's pending
and accepted connections. A connection is named after the process that made
it. `Execve` models the rewriting of `DR_SS_ENV_FD` in the environment passed to
the system call, and the crash when it is not there. `Fails` stands for every
assertion on the way. The program's processes have one thread in this module.

`Group::setup` is two steps, `GroupSetup` (setsid, whose result is not looked at)
and `RemapSignals`. `grp[p]` is the group of process p, named after its leader:
DrShadowStack leads one from the start or after its setsid, a child is in that of its parent until it calls setsid (`Setsid`).
`KillsGroup` sends a SIGKILL to the members of the caller's group at that instant
(`sigkill`), and `Reap` delivers it to one of them. A process with a SIGKILL
pending cannot fork.

`remapped` are the processes whose fatal signals run `default_signal_handler`: from
`RemapSignals` on, inherited by the fork, until execvp puts the default action
back. `FatalSignal` may come at any of these points, and ends a process that is not
in `remapped` alone. `UnhandledSignal` ends any process alone, at any point, and
leaves it `struck`: SIGKILL, which cannot be handled, and SIGIO, which
`no_change` in `group.cpp` exempts and whose default action is to terminate.
`ProgramExits` is the exit event and the end of an image.

### State and code, `Arguments`

`argv` is a sequence of tokens, `found` what the second pass has collected, `command`
what `start_program` hands to drrun. boost::program_options is outside the
repository; `Occurs`, `Scan` and `Consistent` are what the code relies on: an option
takes the next token, whatever it is, for its value, `--` ends the options,
unknown options are collected with the positional tokens, an option given twice
and a missing value or target throw. A token stands for all its spellings:
`--ss_mode=ext` and the prefixes boost completes are `--ss_mode ext`, several short
flags in one token are several tokens.

## 3. What is checked

| Run | Instance | Shows |
|---|---|---|
| `internal_stacks` | `JumpSpec`: two processes, two addresses, depth 2, jumps anywhere; 972,510 states | `Lockstep`, `OnlyBadReturnsReported`, `RefinesGuard`, `OpenCallsKept`, `HonestReportNeedsJump`, `WrongReturnNeedsJump` |
| `internal_group` | a second thread and a second process that may call setsid | `TypeOK`, `NoSurvivorBehindKillpg`, `ReportKillsGroup` |
| `external_one` | one client, two addresses, depth 2, three messages per direction; 373,012 states | `LockstepAcrossSocket`, `OnlyBadReturnsRefused`, `RefinesGuard`, `CorruptReturnEndsAll`, `EveryReturnAnswered` |
| `external_shared` | two clients, as threads or as parent and child, one address; 2,264,241 states | `TypeOK`, `NoWaiterForgotten`, `EndIsTold` |
| `framing` | two clients, up to three messages under way to the server, bodies that hold a header; 228,592 states | `NeverConfused`, `IsQueue` |
| `termination` | three threads of a client that may exit or end the process, or one of a server with up to four signals; 51,017 states | `TypeOK`, `RecursionBounded`, `NoPrintInRecursion`, `KillReached` |
| `arguments` | every command line of up to five of ten tokens; 416,601 states | `DocumentedFormStarts`, `StartsOnlyWhatWasGiven`, `TargetByName` |
| `launch` | every mode, nested or not, one process forked by the program, any process in a group of its own; 61,755 states | `TypeOK`, `OneConnection`, `NoUnguardedProgram`, `FailureEndsGroup`, `AcceptEnds`, `ServerEndsWithProgram` |

All of these pass. Deadlock is not checked: in every module all processes may
end, and the program may simply stop.

Four runs state what the documentation says and find what the code does instead:

| Run | Property | What happens |
|---|---|---|
| `internal_alarm` | `OnlyCorruptReturnsReported` | an execve that fails leaves the shadow stack empty, and the next, correct, return kills the group. `execvp` searching `PATH` does this. |
| `internal_race` | `ReportKillsProgram` | another thread exits the process, or execs, between the detection and killpg: the other processes live on |
| `external_alarm` | `OnlyBadReturnsRefused` | two threads share the one stack of the server: a correct return is refused |
| `external_stolen` | `NoCorruptReturnExecuted` | a corrupt return matches the frame of another process, or takes its Continue |

`internal_alarm` and `external_alarm` use `HonestSpec`, the executions in which no
return is corrupt, so the alarm is false beyond dispute. `external_alarm` would fail
without any interleaving of calls too: an execve attempt of one thread empties the
stack that holds the open call of the other. `internal_race` leaves setsid out, so
that its counterexample is the race; with a child that calls setsid
(`Daemons`) the property fails without one.

### What the passing runs say that a reader may not expect

- A jump out of a call is never seen. The shadow stack then holds every open
  call and some abandoned ones (`OpenCallsKept`). An honest return is reported, and
  a wrong one let through, exactly where an abandoned entry is on the top.
- The target's own arguments are read for DrShadowStack's options. A `--ss_mode`
  among them is taken away and obeyed, `--target-args` and its value are lost, one
  `--` disappears, a second `-v` or `-h` is refused (`StartsOnlyWhatWasGiven`).
  `--target`, which `--help` offers, starts nothing: without other arguments
  `parse_args.cpp:96` reads the first element of an empty vector, and with them the
  comparison there fails (`TargetByName`).
- A thread that has found a bad return may never reach killpg: a sibling in its
  ordinary code may end the process first, or a signal nothing handles may.
  `KillReached` says that nothing else keeps it from it.
- SIGIO (SIGPOLL) is one of the signals `Group::setup` leaves alone, and it ends a
  process by default. Sent to the server it ends the server alone: the program
  goes on until its next message fails (`NoUnguardedProgram` says
  `"struck"`).
- setsid fails when DrShadowStack is already the leader of its group, which is not
  looked at (`group.cpp:111`). The group that is killed is then the job it was
  started in, with commands DrShadowStack did not start; these are not modelled.
- accept waits forever when drrun or the first image ends without terminating the
  group before it has connected (`AcceptEnds` says that nothing else makes it wait).
- An execve with an environment of the program's own leaves the new image's client
  without its variables, and it kills the group; a failed execve makes the server
  forget the calls that are still open, and the next return is refused.
- The comment at `external_stack_server.cpp:181` says that another thread or process
  must be active where the server's loop has ended. recv returns 0 only when no
  process has the connection, so none is.
- A killpg reaches the group of the process that calls it. What a process of the
  program that left the group with setsid does, or suffers, is its own
  (`FailureEndsGroup`, `ReportKillsGroup`).
- "Client Disconnected" is what the log says only if no process that had the
  socket stopped inside a return. A client that dies with its Continue unread
  makes recv fail instead, and the end of the program is logged as an error
  (`EndIsTold`).
- A program that replaces the descriptor of the socket is guarded no longer: what it
  writes to the new file and reads from it decides about its returns
  (`AstrayContinues`).
- A log line that cannot be written ends the process group from wherever it was
  logged, although comments of `utilities.hpp` (lines 84, 104, 113, 134, 175) say of
  the logging functions that they silently fail. The report goes on to killpg all
  the same (`KillReached`).
- `dr_print_sym.cpp:100` prints file and line when `symres` says that they are not
  available, and otherwise says that there are none; the comments at 99 and 105
  read the other way. Only the text depends on it.
- The body of a header-only message is not 0, as the comment at
  `external_stack_server.cpp:150` has it, but what lies behind a string literal.
  No handler reads it (`NeverConfused`).

### Bounds

- Addresses: two are enough to tell a match from a mismatch; where only
  termination or the socket matters there is one.
- Depth: two calls let a wildcard lie under or above an address, an execve
  forget one call of two, and a jump abandon the inner one or both.
- Actors: one thread and one process besides the first give each pairwise
  race. A fork of a fork has the same relation to its parent as the first.
  `external_shared` uses one name for the second client, taken by clone or by
  fork, so that both cases are explored. `launch` has the server, the first image and
  a process it forks: a group with its leader, another member and one that leaves,
  and an image that may exec while its parent or its child lives. The theorems
  hold of any number.
- `SockCap` and `MaxMessages`: 2 or 3 messages; a full socket is reached in every
  run. In `framing`, three messages put whole messages before and behind one
  that a reader could start in the middle of.
- `PointerCells` 2 (x86-64) and `Memory` with the header of another message: a reader
  that lost its place would find a message to handle.
- `MaxSignals`: 4 allows signals inside the handler of another, before and after
  the flag is set; three threads let two race for the flag while a third is
  between its test and its killpg.
- `MaxArgs`: five tokens are an option with its value, the target and two
  arguments, or two options with their values and the target.

### Fairness

`FairSpec` of each module assumes weak fairness only of the steps of
DrShadowStack that are ready to run and of the kernel's delivery of a SIGKILL:
a runnable thread is scheduled, and killpg does not lose signals. Nothing is
assumed of the program: it may loop forever, so no property says that calls,
returns, forks or exits happen, and no signal is assumed to come. `WF` suffices because these steps stay enabled
until taken, except where another actor ends the thread, which is itself one
of the outcomes the properties allow. There is none for a client that waits on
something that is not the socket (`AstrayContinues`, `AstrayFails`). `Framing` and `Arguments` state safety only and have no fairness.

## 4. What is proved

TLAPS checks the following for all sets of threads, processes and addresses and
all bounds. The assumptions are those named in the modules: the sets of names
are disjoint, `WILDCARD` and `NoAddr` are not addresses, the values of
`DR_SS_ENV_FD` that name no connection differ, `MaxSignals`, `MaxMessages` and
`MaxArgs` are natural numbers, `SockCap` and `PointerCells` positive ones; a word of
the command line is no option and no `--`, and `DefaultMode` is `int` or `ext`
(`CMakeLists.txt:49`). `Alone` in the names of theorems is a hypothesis, `Workers = {}
/\ Children = {}`, and `OneSoFar` a state in which only the first client has been
born.

| Theorem | Module | Statement |
|---|---|---|
| `TypeCorrect` | `InternalSSProofs` | `Spec => []TypeOK` |
| `LockstepCorrect` | `InternalSSProofs` | `Spec => []Lockstep` |
| `ReportsCorrect` | `InternalSSProofs` | `Spec => []OnlyBadReturnsReported` |
| `InternalImplementsGuard` | `InternalSSProofs` | `Spec => RefinesGuard` |
| `GroupCorrect` | `InternalSSProofs` | `Spec => []NoSurvivorBehindKillpg` |
| `JumpsUnseen` | `NonLocalExitProofs` | `JumpSpec => Spec` |
| `OpenCallsCorrect` | `NonLocalExitProofs` | `JumpSpec => []OpenCallsKept` |
| `HonestReportCorrect` | `NonLocalExitProofs` | `JumpSpec => []HonestReportNeedsJump` |
| `WrongReturnCorrect` | `NonLocalExitProofs` | `JumpSpec => WrongReturnNeedsJump` |
| `TypeCorrect` | `TerminationProofs` | `Spec => []TypeOK` |
| `RecursionCorrect` | `TerminationProofs` | `Spec => []RecursionBounded` |
| `PrintCorrect` | `TerminationProofs` | `Spec => []NoPrintInRecursion` |
| `WayOutCorrect` | `TerminationProofs` | `Spec => [][\A t \in Thread : WayOut(t)]_vars` |
| `EndsKilledCorrect` | `TerminationProofs` | `Spec => []EndsKilled` |
| `TypeCorrect` | `LaunchProofs` | `Spec => []TypeOK` |
| `GuardedThroughout` | `LaunchProofs` | `Spec => []NoUnguardedProgram` |
| `ConnectionCorrect` | `LaunchProofs` | `Spec => []OneConnection` |
| `FailureIsFinal` | `LaunchProofs` | `Spec => [][\A p \in Process : NoWayBack(p)]_vars` |
| `TypeCorrect` | `ExternalSSProofs` | `Spec => []TypeOK` |
| `EndCorrect` | `ExternalSSProofs` | `Spec => []EndIsTold` |
| `WaitersCorrect` | `ExternalSSProofs` | `Spec => []NoWaiterForgotten` |
| `LockstepUntilShared` | `ExternalSSAlone` | `Spec => [](OneSoFar => LockstepAcrossSocket)` |
| `RefusalsUntilShared` | `ExternalSSAlone` | `Spec => [](OneSoFar => OnlyBadReturnsRefused)` |
| `ReturnsUntilShared` | `ExternalSSAlone` | while `OneSoFar`, no corrupt return is executed by a process that has the socket |
| `LockstepAloneCorrect` | `ExternalSSAlone` | `Alone`: `Spec => []LockstepAcrossSocket` |
| `RefusalsAloneCorrect` | `ExternalSSAlone` | `Alone`: `Spec => []OnlyBadReturnsRefused` |
| `ReturnsAloneCorrect` | `ExternalSSAlone` | `Alone`: `Spec => NoCorruptReturnExecuted` |
| `ExternalAloneImplementsGuard` | `ExternalSSAlone` | `Alone`: `Spec => RefinesGuard` |
| `DocumentedFormCorrect` | `ArgumentsProofs` | `Spec => []DocumentedFormStarts` |
| `StartsOnlyWhatWasGivenCorrect` | `ArgumentsProofs` | `Spec => []StartsOnlyWhatWasGiven` |
| `TargetByNameCorrect` | `ArgumentsProofs` | `Spec => []TargetByName` |
| `NeverConfusedCorrect` | `FramingProofs` | `Spec => []NeverConfused` |
| `StreamIsQueue` | `FramingProofs` | `Spec => IsQueue` |

The argument for the internal mode. `Lockstep` alone is not inductive. It says
nothing of threads that have not run yet, and `Clone` starts one with whatever
its entry holds, so `Fresh` adds that such a thread has no frames and no shadow
stack, that one waiting for its execve has an empty shadow stack, and that only a
running thread is at a return. With these,
each callback changes `frames` and `shadow` at the same end (`AlignedPush`,
`AlignedPop`) or forgets both alike (`AlignedForget`), and `TopIsInnermost` turns
"the top of the shadow stack" into "the innermost remembered call". The last is
what reports and the refinement need: `TopAllows` on the shadow stack is `Allowed` on
the real one. For `ReportsCorrect`, `StoppedStays` adds that a stopped thread's
report, frames, lost count and goal stay those of the moment it was made, and
`NewReport` that only `OnRetReports` makes one. The refinement proof maps each action to `Enter`, `Attempt`,
`Proceed`, `Halt`, `Forget`, `Spawn`, `Copy`, `Exec` or `Vanish`, or to a stutter.

`NoSurvivorBehindKillpg` is strengthened by `Names`: a group is named after a
process that is still in it, a process or thread that does not exist yet is in
no group but its own, and a live thread's process exists. A process that joins a
group does so by fork, from a thread whose own process is in that group; if the
group was killed, that process has a SIGKILL pending and its fork fails. A
setsid takes a process out, to a group nobody else is in.

For termination, the bound on the depth depends on the place and on the flag:
before the flag is set there is at most one activation per signal and one
more; the second is only entered by a failure after it is set, and finds it
set. `Bound` in `TerminationProofs` is that case distinction.

Two liveness properties have their safety half proved. For `KillReached`,
`Rank(t)` is the length of the way to `killpg`: `WayOutCorrect` says that a
thread that left the ordinary code stays on it unless a sibling in its ordinary
code or a signal nothing handles ends the process, that each `Advance(t)` strictly
shortens it and only a signal of t lengthens it (an activation of `terminate` that finds
the flag set is shorter than the one that set it, which is where `Bound` is
needed again). `EndsKilledCorrect` says that its end lies behind `killpg`, and that a
thread that is gone before it was taken off in one of those two ways;
`EndExplained` keeps, from the step that ended the threads on, who ended them. For
`FailureEndsGroup`, `FailureIsFinal` says that a failing process leaves only by
`killpg` or a signal nothing handles, and that a group in which anybody has a SIGKILL
is one in which everybody has. That rests on `Swept`: a group has its leader in it, a
process that does not exist yet is in that of DrShadowStack, a fork adds a process
to the group of its parent and fails when the parent has a SIGKILL pending, and
the one process DrShadowStack itself forks is born while it is alone.
What the prover leaves to TLC is that weak fairness makes these steps happen.

For jumps, `JumpsUnseen` shows that every execution of `JumpSpec` is one of
`InternalSS`, so all its theorems apply. `LiveOK` says that the open calls are a
subsequence of the frames, which appending to both, cutting `live` and taking the
last of both keep. `Lockstep` turns the frames into what is kept. Where the
verdict of `on_ret` on the top differs from the verdict on `live`, their last
elements differ, so the subsequence does not use the top: it was abandoned.

For the launch, `Linked` says that `First` is the only process with an empty
`DR_SS_ENV_FD` when an image starts, and that it connects before it can fork or
exec: every other image has the unset variable, with which it fails, or the
connection of `First`. `Guarded` says that another process of the server's group
lives without a SIGKILL only in the internal mode, or while the server is at a
place where it can still be reached, is about to kill, or was ended by what nothing
handles; and that a signal of those that are remapped finds the server's handlers
in place from before the fork. When the server goes any other way `Swept` says that
its whole group has the SIGKILL too.

For the external mode with any number of clients, the proofs count. `Owed` are the
clients inside a return whose process has the socket or that still wait on it,
`Announced` those inside a return that may have sent it there, `UnderWay` the returns
not yet handled and the Continues not yet read. While the server serves, the clients
owed are no more than what is under way, and what is under way no more than the
clients announced (`Counted`): a return sent adds one to each, a Continue taken
removes one from each whomever it was written for, and a client that dies or stops
inside a return leaves what is under way to the others. `ReturnsAppend`
and `ReturnsTail` say how the number of returns in the queue changes, by a bijection
between the places before and after. Clients that wait are owed, which is
`NoWaiterForgotten`. When recv returns 0 nothing is under way, so nobody is owed: no
process that had the socket is inside a return. When recv or write fails
something is under way and nobody is connected, so some client is announced that
no longer waits: it stopped inside a return. `Told` keeps both from there on: a
client that stopped stays stopped (`StuckStays`), and without a process that has
the socket none will have it again (`ExitedStays`).

For the messages, `Holds(s, n, H)` says that s is n messages long and has a header
of H at each multiple of the size of a message. Writing a whole message
(`HoldsWritten`) and reading one (`HoldsRead`) keep it, and less than a message is
nothing (`HoldsShort`), which are the only ways the code touches a stream:
`Aligned` holds of both directions. For the refinement, `DecodedWritten` and
`DecodedRead` say that the messages in the stream change as a queue does: a write
appends one, and a read takes the head and moves the others one place forward.

For one client, `LockstepAcrossSocket` needs what the client and the server know of
each other (`AInv` in `ExternalSSAlone`). `InStep` says where a return can be: at most
one is under way, it is the newest message in the socket, and it is the pending
one of the client, which sends nothing while it waits. So when the server
receives it, there is nothing behind it and its stack is what the client
remembers: the server's `TopAllows` is the client's `Permitted`. `Approved` says that
a Continue in the socket answers the pending return and that it was right,
`Blamed` the opposite of a refusal, which is the last thing the server does. A
message written changes the end of `Final(stk, toServer)` (`FinalAppend`), a message
handled moves from the queue into the stack (`FinalTail`). `UntilShared` is this
invariant for any program: once a second client is born it says nothing, no
client is unborn again, and before that only `Main` steps (`OnlyMainSteps`).
`external_alarm` and `external_stolen` show that the three properties end there, so
the condition is not a convenience of the proof. The refinement maps a step of the
client to `Enter`, `Attempt`, `Proceed`, `Forget`, `Exec` or `Vanish` and a refusal to `Halt`.
Dropping the socket is `Escape`, and everything the client does afterwards `Stray` or
`Vanish` (`EscapedRefines`): the refinement says what is promised until then, and
that only the program itself can end it.

For the arguments, `PassExists` says that the second pass is a sequence of results,
one for each prefix of `argv`, and a property of the last result is carried
along it (`UpTo`), token by token. `ByName` is what `TargetByName` needs: a positional
token is one of the rest, and a value for the target came after a `--target`.
`DocForm` is the pass over a command line of the documented form. For
`StartsOnlyWhatWasGiven`, `ModesIn`, `LostIn` and `EndsIn` are the places of options and
terminators the parser reads as such: `WantsAt` says that an option read is an
option that lacks its value, `RestStep` that exactly the other places reach the
rest, `ModeKept` and `OneEnd` that more than one `--ss_mode` is refused and a second
terminator is not read as one. `PInv` follows `main` from there, and `CommandIsRest` is
why the comparison of the target with the first argument makes the command the
whole rest.

`Final`, `Scanned` and `Without` are recursive functions. What they compute is
shown without a rule of induction: the places where a claim fails are a set of
numbers, it has a least element if it is not empty (`LeastOf`, from the
library's facts on well-founded relations), and the step to that place is the
contradiction.

Only model-checked: liveness (`ReportKillsGroup`, `CorruptReturnEndsAll`,
`EveryReturnAnswered`, `KillReached` and those of `Launch`), which is out of the
prover's reach under fairness; for `KillReached` and `FailureEndsGroup` the safety half is
proved. Every other property of a passing run is a theorem.

## 5. What is not modelled

- DynamoRIO itself: that callbacks run before their instruction, on the right
  thread, that a forked child inherits TLS, and what
  `dr_syscall_get_param` returns in a post event are assumed. Asynchronous signal
  safety of libc functions in callbacks is below the model.
- boost::program_options beyond what `Arguments` says of it.
- vfork, and clone with other sharing than that of a thread or a fork.
- Log texts and the layout of reports; random names (`temp_name.cpp`: one
  assertion, one of `Launch.Fails`); the paths in `constants.hpp`.
- `recv_msg_and_body`, the FORK and THRD handlers, and of the buffers `set_length`
  fills all but that of Continue: never used or compiled out.
- Groups beyond setsid and setpgid to oneself: a process that joins the group of
  another. A failure before setsid (`group.cpp:135-136`) kills the job DrShadowStack
  was started in, and so does any after a setsid that failed: the rest of the job is
  not modelled.
- In `ExternalSS`, groups: `killed` stands for a killpg that reaches everybody, so its
  liveness is that of a program none of whose processes leaves the group.
- Build files, scripts and sample programs.

## 6. Plan

Done: `ReturnGuard`, `InternalSS` with its proofs and refinement, `NonLocalExit` with
its proofs, `ExternalSS` with the descriptor the program may drop, the proofs of
what holds of many clients and, with the refinement, of one, `Framing` with the proof of its refinement, `Termination` with
reports, signals, ends that come before killpg, its proofs and the safety half of `KillReached`,
`Launch` with `Group::setup` step by step, process groups, signals nothing handles and its proofs, `Arguments` with its proofs.

1. A composition of `Launch` and `ExternalSS` over exec, with the descriptor's number
   passed in `DR_SS_ENV_FD` after the program has closed or reused it.
2. Several threads per process in `Launch`: an exec in one while another forks.
3. Process groups in `ExternalSS`: what the server and the other clients still do once
   a client that left the group has called killpg in its own.
