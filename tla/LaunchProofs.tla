---------------------------- MODULE LaunchProofs ----------------------------
(***************************************************************************)
(* For any processes the program may fork, in every mode and environment:  *)
(* Launch is type correct, killpg leaves nobody of a group, the program    *)
(* does not run unguarded in the group DrShadowStack set up, all its       *)
(* images report to one connection, and a failure leads nowhere but to     *)
(* killpg.                                                                 *)
(***************************************************************************)
EXTENDS Launch, FiniteSetTheorems, TLAPS

\* Type correctness.
THEOREM TypeCorrect == Spec => []TypeOK
<1> USE ProcessAssumption DEF Process, Fd
<1>1. Init => TypeOK
  BY DEF Init, TypeOK, Mode, Places
<1>2. TypeOK /\ [Next]_vars => TypeOK'
  <2> SUFFICES ASSUME TypeOK, [Next]_vars PROVE TypeOK'
    OBVIOUS
  <2> USE DEF TypeOK, Places, Goto, envVars, netVars
  <2>1. CASE UNCHANGED vars
    BY <2>1 DEF vars
  <2>2. CASE ServerStep
    <3>1. CASE GroupSetup
      BY <3>1 DEF GroupSetup
    <3>2. CASE RemapSignals
      BY <3>2 DEF RemapSignals
    <3>3. CASE Main
      BY <3>3 DEF Main
    <3>4. CASE ForkFirst
      BY <3>4 DEF ForkFirst
    <3>5. CASE Accept
      BY <3>5 DEF Accept
    <3>6. CASE ServerSeesEnd
      BY <3>6 DEF ServerSeesEnd
    <3> QED
      BY <2>2, <3>1, <3>2, <3>3, <3>4, <3>5, <3>6 DEF ServerStep
  <2>3. ASSUME NEW p \in Process, Setup(p) PROVE TypeOK'
    <3>1. CASE StartProgram(p)
      BY <3>1 DEF StartProgram
    <3>2. CASE DrrunInjects(p) \/ DrrunExits(p)
      BY <3>2 DEF DrrunInjects, DrrunExits
    <3>3. CASE SetupInternal(p) \/ SetupFails(p)
      BY <3>3 DEF SetupInternal, SetupFails
    <3>4. CASE SetupConnects(p)
      BY <3>4 DEF SetupConnects
    <3>5. CASE SetupReuses(p)
      BY <3>5 DEF SetupReuses
    <3> QED
      BY <2>3, <3>1, <3>2, <3>3, <3>4, <3>5 DEF Setup
  <2>4. ASSUME NEW p \in Process, NEW s \in BOOLEAN, NEW f \in BOOLEAN,
               Execve(p, s, f)
        PROVE  TypeOK'
    BY <2>4 DEF Execve
  <2>5. ASSUME NEW p \in Process, NEW q \in Others, Fork(p, q) PROVE TypeOK'
    BY <2>5 DEF Fork
  <2>6. ASSUME NEW p \in Process,
               \/ ProgramExits(p) \/ EarlyExit(p) \/ Fails(p)
               \/ FatalSignal(p) \/ UnhandledSignal(p) \/ Setsid(p)
               \/ KillsGroup(p) \/ Reap(p)
        PROVE  TypeOK'
    <3>1. CASE KillsGroup(p)
      <4>1. sigkill' \subseteq Process
        BY <3>1 DEF KillsGroup, Members
      <4> QED
        BY <3>1, <4>1 DEF KillsGroup
    <3>2. CASE Setsid(p)
      BY <3>2 DEF Setsid
    <3> QED
      BY <2>6, <3>1, <3>2 DEF ProgramExits, EarlyExit, Fails, FatalSignal,
         UnhandledSignal, Reap
  <2> QED
    BY <2>1, <2>2, <2>3, <2>4, <2>5, <2>6 DEF Next
<1> QED
  BY <1>1, <1>2, PTL DEF Spec

-----------------------------------------------------------------------------
(* killpg leaves nobody of the group it reached.                           *)

\* The places of the server before it has forked.
Early == {"setup", "remap", "main", "start", "listen"}

Swept ==
    /\ place[Server] \in Early =>
          \A p \in Process \ {Server} : place[p] = "unborn"
    \* A group has its leader in it, and DrShadowStack is one.
    /\ grp[Server] = Server
    /\ \A p \in Process : grp[grp[p]] = grp[p]
    /\ \A p \in Process :
          place[p] = "unborn" => grp[p] = Server /\ p \notin sigkill
    \* No fork adds to a group that killpg reached.
    /\ \A p \in Process : place[p] = "spinning" => p \in sigkill
    /\ \A p \in sigkill, q \in Process :
          Live(q) /\ grp[q] = grp[p] => q \in sigkill

LEMMA SweptCorrect == Spec => []Swept
<1> USE ProcessAssumption DEF Process
<1>1. Init => Swept
  BY DEF Init, Swept
<1>2. TypeOK /\ Swept /\ [Next]_vars => Swept'
  <2> SUFFICES ASSUME TypeOK, Swept, [Next]_vars PROVE Swept'
    OBVIOUS
  <2>0. /\ place \in [Process -> Places] /\ Server \in Process
        /\ grp \in [Process -> Process] /\ sigkill \subseteq Process
    BY DEF TypeOK
  <2> USE <2>0 DEF Swept, Goto, Live, Early
  <2>1. CASE UNCHANGED vars
    BY <2>1 DEF vars
  <2>2. CASE ServerStep
    <3>1. CASE ForkFirst
      BY <3>1 DEF ForkFirst
    <3> QED
      BY <2>2, <3>1 DEF ServerStep, GroupSetup, RemapSignals, Main, Accept,
         ServerSeesEnd
  <2>3. ASSUME NEW p \in Process, Setup(p) PROVE Swept'
    BY <2>3 DEF Setup, StartProgram, DrrunInjects, DrrunExits, SetupInternal,
       SetupConnects, SetupReuses, SetupFails
  <2>4. ASSUME NEW p \in Process, NEW s \in BOOLEAN, NEW f \in BOOLEAN,
               Execve(p, s, f)
        PROVE  Swept'
    BY <2>4 DEF Execve
  <2>5. ASSUME NEW p \in Process, NEW q \in Others, Fork(p, q) PROVE Swept'
    BY <2>5 DEF Fork
  <2>6. ASSUME NEW p \in Process,
               \/ ProgramExits(p) \/ EarlyExit(p) \/ Fails(p)
               \/ FatalSignal(p) \/ UnhandledSignal(p) \/ Setsid(p)
               \/ KillsGroup(p) \/ Reap(p)
        PROVE  Swept'
    <3>1. CASE ProgramExits(p) \/ EarlyExit(p) \/ Fails(p)
      BY <3>1 DEF ProgramExits, EarlyExit, Fails
    <3>2. CASE FatalSignal(p) \/ UnhandledSignal(p)
      BY <3>2 DEF FatalSignal, UnhandledSignal
    <3>3. CASE Setsid(p)
      BY <3>3 DEF Setsid
    <3>4. CASE KillsGroup(p)
      BY <3>4 DEF KillsGroup, Members
    <3>5. CASE Reap(p)
      BY <3>5 DEF Reap
    <3> QED
      BY <2>6, <3>1, <3>2, <3>3, <3>4, <3>5
  <2> QED
    BY <2>1, <2>2, <2>3, <2>4, <2>5, <2>6 DEF Next
<1> QED
  BY <1>1, <1>2, TypeCorrect, PTL DEF Spec

-----------------------------------------------------------------------------
(* The program does not run unguarded.                                     *)

\* The server is where a client can still reach it, about to kill, or ended
\* by what nothing handles.
Guarding ==
    mode = "ext" /\ place[Server] \in {"accept", "serve", "failing", "struck"}

Guarded ==
    \* Nobody but main decides what the server becomes.
    /\ place[Server] \in {"start", "drrun", "client", "program"} => mode = "int"
    /\ place[Server] \in {"listen", "accept", "serve"} => mode = "ext"
    /\ place[Server] \in {"main", "listen", "accept", "serve"} =>
          Server \in remapped
    \* Until it is killed, a process of the group lives only beside the server.
    /\ \A p \in Process \ {Server} :
          Live(p) /\ p \notin sigkill /\ grp[p] = Server =>
              mode = "int" \/ Guarding

LEMMA GuardedCorrect == Spec => []Guarded
<1> USE ProcessAssumption DEF Process
<1>1. Init => Guarded
  BY DEF Init, Guarded, Live
<1>2. TypeOK /\ Swept /\ Guarded /\ [Next]_vars => Guarded'
  <2> SUFFICES ASSUME TypeOK, Swept, Guarded, [Next]_vars PROVE Guarded'
    OBVIOUS
  <2>0. /\ place \in [Process -> Places] /\ Server \in Process
        /\ grp \in [Process -> Process] /\ sigkill \subseteq Process
    BY DEF TypeOK
  <2>7. /\ grp[Server] = Server
        /\ place[Server] \in Early =>
              \A p \in Process \ {Server} : place[p] = "unborn"
        /\ Server \in sigkill =>
              \A p \in Process : Live(p) /\ grp[p] = Server => p \in sigkill
    BY <2>0 DEF Swept
  <2> USE <2>0, <2>7 DEF Guarded, Guarding, Goto, Live, Early
  <2>1. CASE UNCHANGED vars
    BY <2>1 DEF vars
  <2>2. CASE ServerStep
    <3>1. CASE GroupSetup
      BY <3>1 DEF GroupSetup
    <3>2. CASE RemapSignals
      BY <3>2 DEF RemapSignals
    <3>3. CASE Main
      BY <3>3 DEF Main
    <3>4. CASE ForkFirst
      BY <3>4 DEF ForkFirst
    <3>5. CASE Accept
      BY <3>5 DEF Accept
    <3>6. CASE ServerSeesEnd
      BY <3>6 DEF ServerSeesEnd
    <3> QED
      BY <2>2, <3>1, <3>2, <3>3, <3>4, <3>5, <3>6 DEF ServerStep
  <2>3. ASSUME NEW p \in Process, Setup(p) PROVE Guarded'
    <3>1. CASE StartProgram(p)
      BY <3>1 DEF StartProgram
    <3>2. CASE DrrunInjects(p) \/ DrrunExits(p)
      BY <3>2 DEF DrrunInjects, DrrunExits
    <3>3. CASE SetupInternal(p) \/ SetupFails(p)
      BY <3>3 DEF SetupInternal, SetupFails
    <3>4. CASE SetupConnects(p) \/ SetupReuses(p)
      BY <3>4 DEF SetupConnects, SetupReuses
    <3> QED
      BY <2>3, <3>1, <3>2, <3>3, <3>4 DEF Setup
  <2>4. ASSUME NEW p \in Process, NEW s \in BOOLEAN, NEW f \in BOOLEAN,
               Execve(p, s, f)
        PROVE  Guarded'
    BY <2>4 DEF Execve
  <2>5. ASSUME NEW p \in Process, NEW q \in Others, Fork(p, q) PROVE Guarded'
    BY <2>5 DEF Fork
  <2>6. ASSUME NEW p \in Process,
               \/ ProgramExits(p) \/ EarlyExit(p) \/ Fails(p)
               \/ FatalSignal(p) \/ UnhandledSignal(p) \/ Setsid(p)
               \/ KillsGroup(p) \/ Reap(p)
        PROVE  Guarded'
    <3>1. CASE ProgramExits(p) \/ EarlyExit(p)
      BY <3>1 DEF ProgramExits, EarlyExit
    <3>2. CASE Fails(p)
      BY <3>2 DEF Fails
    <3>3. CASE FatalSignal(p)
      BY <3>3 DEF FatalSignal
    <3>4. CASE UnhandledSignal(p)
      BY <3>4 DEF UnhandledSignal
    <3>5. CASE Setsid(p)
      BY <3>5 DEF Setsid
    <3>6. CASE KillsGroup(p)
      BY <3>6 DEF KillsGroup, Members
    <3>7. CASE Reap(p)
      BY <3>7 DEF Reap
    <3> QED
      BY <2>6, <3>1, <3>2, <3>3, <3>4, <3>5, <3>6, <3>7
  <2> QED
    BY <2>1, <2>2, <2>3, <2>4, <2>5, <2>6 DEF Next
<1> QED
  BY <1>1, <1>2, TypeCorrect, SweptCorrect, PTL DEF Spec

\* Whatever fails or is interrupted, in whatever order, the program runs in a
\* mode the client implements, and in the external mode beside its server,
\* until killpg reaches it, as long as it stays in its group and no signal
\* that nothing handles ends the server.
THEOREM GuardedThroughout == Spec => []NoUnguardedProgram
<1>1. Guarded => NoUnguardedProgram
  BY ProcessAssumption DEF Guarded, Guarding, NoUnguardedProgram, Process, Live
<1> QED
  BY <1>1, GuardedCorrect, PTL

-----------------------------------------------------------------------------
(* One connection for every image.                                         *)

Connections == queue \union ({peer} \ {Unset})

\* Only First has an empty DR_SS_ENV_FD when it gets to connect, and it does
\* so before it can fork or execve.
Linked ==
    /\ Connections \subseteq {First}
    /\ mode = "ext" =>
          \A p \in Process :
             /\ place[p] \in {"start", "drrun"} => p = First
             /\ place[p] = "drrun" => envFd[p] = Empty
             /\ place[p] = "client" =>
                   \/ envFd[p] = Unset
                   \/ envFd[p] = Empty /\ p = First
                   \/ envFd[p] = First /\ First \in Connections
             /\ place[p] = "program" =>
                   sock[p] = First /\ First \in Connections

LEMMA LinkedCorrect == Spec => []Linked
<1> USE ProcessAssumption DEF Process
<1>0. Unset # Empty
  <2>1. CASE Unset = Empty
    <3>1. {Unset, Empty, Stale} = {Empty, Stale}
      BY <2>1
    <3>2. Cardinality({Empty, Stale}) <= 2
      <4>1. IsFiniteSet({Stale}) /\ Cardinality({Stale}) = 1
        BY FS_Singleton
      <4>2. Cardinality({Stale} \union {Empty}) \in {1, 2}
        BY <4>1, FS_AddElement
      <4>3. {Stale} \union {Empty} = {Empty, Stale}
        OBVIOUS
      <4> QED
        BY <4>2, <4>3
    <3> QED
      BY <3>1, <3>2
  <2> QED
    BY <2>1
<1>1. Init => Linked
  BY DEF Init, Linked, Connections
<1>2. TypeOK /\ Linked /\ [Next]_vars => Linked'
  <2> SUFFICES ASSUME TypeOK, Linked, [Next]_vars PROVE Linked'
    OBVIOUS
  <2>0. /\ place \in [Process -> Places] /\ Server \in Process
        /\ envFd \in [Process -> Fd] /\ sock \in [Process -> Fd]
        /\ peer \in Process \union {Unset} /\ First # Unset
    BY DEF TypeOK
  <2> USE <1>0, <2>0 DEF Linked, Connections, Goto, envVars, netVars
  <2>1. CASE UNCHANGED vars
    BY <2>1 DEF vars
  <2>2. CASE ServerStep
    <3>1. CASE GroupSetup
      BY <3>1 DEF GroupSetup
    <3>2. CASE RemapSignals
      BY <3>2 DEF RemapSignals
    <3>3. CASE Main
      BY <3>3 DEF Main
    <3>4. CASE ForkFirst
      BY <3>4 DEF ForkFirst
    <3>5. CASE Accept
      BY <3>5 DEF Accept
    <3>6. CASE ServerSeesEnd
      BY <3>6 DEF ServerSeesEnd
    <3> QED
      BY <2>2, <3>1, <3>2, <3>3, <3>4, <3>5, <3>6 DEF ServerStep
  <2>3. ASSUME NEW p \in Process, Setup(p) PROVE Linked'
    <3>1. CASE StartProgram(p)
      BY <3>1 DEF StartProgram
    <3>2. CASE DrrunInjects(p) \/ DrrunExits(p)
      BY <3>2 DEF DrrunInjects, DrrunExits
    <3>3. CASE SetupInternal(p) \/ SetupFails(p)
      BY <3>3 DEF SetupInternal, SetupFails
    <3>4. CASE SetupConnects(p)
      BY <3>4 DEF SetupConnects
    <3>5. CASE SetupReuses(p)
      BY <3>5 DEF SetupReuses
    <3> QED
      BY <2>3, <3>1, <3>2, <3>3, <3>4, <3>5 DEF Setup
  <2>4. ASSUME NEW p \in Process, NEW s \in BOOLEAN, NEW f \in BOOLEAN,
               Execve(p, s, f)
        PROVE  Linked'
    BY <2>4 DEF Execve
  <2>5. ASSUME NEW p \in Process, NEW q \in Others, Fork(p, q) PROVE Linked'
    BY <2>5 DEF Fork
  <2>6. ASSUME NEW p \in Process,
               \/ ProgramExits(p) \/ EarlyExit(p) \/ Fails(p)
               \/ FatalSignal(p) \/ UnhandledSignal(p) \/ Setsid(p)
               \/ KillsGroup(p) \/ Reap(p)
        PROVE  Linked'
    <3>1. CASE ProgramExits(p) \/ EarlyExit(p)
      BY <3>1 DEF ProgramExits, EarlyExit
    <3>2. CASE Fails(p)
      BY <3>2 DEF Fails
    <3>3. CASE FatalSignal(p) \/ UnhandledSignal(p) \/ Setsid(p)
      BY <3>3 DEF FatalSignal, UnhandledSignal, Setsid
    <3>4. CASE KillsGroup(p)
      <4>1. /\ place' = [place EXCEPT ![p] = "spinning"]
            /\ UNCHANGED <<mode, envFd, sock, queue, peer>>
        BY <3>4, Zenon DEF KillsGroup
      <4> QED
        BY <4>1
    <3>5. CASE Reap(p)
      <4>1. /\ place' = [place EXCEPT ![p] = "gone"]
            /\ UNCHANGED <<mode, envFd, sock, queue, peer>>
        BY <3>5, Zenon DEF Reap, Goto, envVars, netVars
      <4> QED
        BY <4>1
    <3> QED
      BY <2>6, <3>1, <3>2, <3>3, <3>4, <3>5
  <2> HIDE DEF Linked
  <2> QED
    BY <2>1, <2>2, <2>3, <2>4, <2>5, <2>6 DEF Next
<1> QED
  BY <1>1, <1>2, TypeCorrect, PTL DEF Spec

\* After any number of forks and execves, in whatever environment, every
\* image of the program uses the one connection the server accepts.
THEOREM ConnectionCorrect == Spec => []OneConnection
<1>1. TypeOK /\ Linked => OneConnection
  <2> SUFFICES ASSUME TypeOK, Linked PROVE OneConnection
    OBVIOUS
  <2>1. Cardinality(Connections) <= 1
    <3>1. IsFiniteSet({First}) /\ Cardinality({First}) = 1
      BY FS_Singleton
    <3> QED
      BY <3>1, FS_Subset DEF Linked
  <2> QED
    BY <2>1 DEF OneConnection, Linked, Connections
<1> QED
  BY <1>1, LinkedCorrect, TypeCorrect, PTL

-----------------------------------------------------------------------------
(* The safety half of FailureEndsGroup: nothing but killpg leads out of a  *)
(* failure, and nobody is left in a group it reached, or born into it.     *)
(* What is left to TLC is that killpg is reached and the SIGKILLs are      *)
(* delivered.                                                              *)

\* A failing process does not go on: it is killed, by itself or by another of
\* its group, or struck by what nothing handles.  Where one process was
\* killed, its whole group was, and neither is taken back.
NoWayBack(p) ==
    /\ place[p] = "failing" =>
          place'[p] \in {"failing", "struck"} \/ p \in sigkill'
    /\ p \in sigkill' => Members(grp[p])' \subseteq sigkill'
    /\ p \in sigkill => p \in sigkill' /\ grp'[p] = grp[p]

\* No other step is left to a process once it fails, in any order of what the
\* other processes do: Group::terminate is noreturn, killpg reaches all of
\* the group, and fork fails in a group that is being killed.
THEOREM FailureIsFinal == Spec => [][\A p \in Process : NoWayBack(p)]_vars
<1> USE ProcessAssumption DEF Process
<1>1. TypeOK /\ Swept /\ Swept' /\ [Next]_vars
         => [\A p \in Process : NoWayBack(p)]_vars
  <2> SUFFICES ASSUME TypeOK, Swept, Swept', Next, NEW p \in Process
               PROVE  NoWayBack(p)
    OBVIOUS
  <2>0. /\ place \in [Process -> Places] /\ Server \in Process
        /\ grp \in [Process -> Process] /\ sigkill \subseteq Process
    BY DEF TypeOK
  <2>1. p \in sigkill' => Members(grp[p])' \subseteq sigkill'
    BY DEF Swept, Members
  <2>2. place[p] = "unborn" => p \notin sigkill
    BY DEF Swept
  <2> DEFINE Rest ==
        /\ place[p] = "failing" =>
              place'[p] \in {"failing", "struck"} \/ p \in sigkill'
        /\ p \in sigkill => p \in sigkill' /\ grp'[p] = grp[p]
  <2> SUFFICES Rest
    BY <2>1 DEF NoWayBack
  <2> USE <2>0, <2>2 DEF Goto, Live
  <2>3. CASE ServerStep
    <3>1. CASE ForkFirst
      \* The server forks while there is nobody else.
      <4>1. place[First] = "unborn"
        BY <3>1 DEF ForkFirst, Swept, Early
      <4> QED
        BY <3>1, <4>1 DEF ForkFirst
    <3> QED
      BY <2>3, <3>1 DEF ServerStep, GroupSetup, RemapSignals, Main, Accept,
         ServerSeesEnd
  <2>4. ASSUME NEW q \in Process, Setup(q) PROVE Rest
    BY <2>4 DEF Setup, StartProgram, DrrunInjects, DrrunExits, SetupInternal,
       SetupConnects, SetupReuses, SetupFails
  <2>5. ASSUME NEW q \in Process, NEW s \in BOOLEAN, NEW f \in BOOLEAN,
               Execve(q, s, f)
        PROVE  Rest
    BY <2>5 DEF Execve
  <2>6. ASSUME NEW q \in Process, NEW r \in Others, Fork(q, r)
        PROVE  Rest
    BY <2>6 DEF Fork
  <2>7. ASSUME NEW q \in Process,
               \/ ProgramExits(q) \/ EarlyExit(q) \/ Fails(q)
               \/ FatalSignal(q) \/ UnhandledSignal(q) \/ Setsid(q)
               \/ KillsGroup(q) \/ Reap(q)
        PROVE  Rest
    BY <2>7 DEF ProgramExits, EarlyExit, Fails, FatalSignal, UnhandledSignal,
       Setsid, KillsGroup, Members, Reap
  <2> QED
    BY <2>3, <2>4, <2>5, <2>6, <2>7 DEF Next
<1> QED
  BY <1>1, TypeCorrect, SweptCorrect, PTL DEF Spec
=============================================================================
