-------------------------- MODULE InternalSSProofs --------------------------
(***************************************************************************)
(* Theorems about the internal mode, for any number of threads and         *)
(* processes, any set of addresses and any depth.                          *)
(***************************************************************************)
EXTENDS InternalSS, SequenceTheorems, TLAPS

-----------------------------------------------------------------------------
(* The two sequence operations the client uses. *)

\* push appends one element on the top and moves no other.
LEMMA PushFacts ==
    ASSUME NEW S, NEW s \in Seq(S), NEW f \in S
    PROVE  /\ Append(s, f) \in Seq(S)
           /\ Len(Append(s, f)) = Len(s) + 1
           /\ \A i \in 1 .. Len(s) : Append(s, f)[i] = s[i]
           /\ Append(s, f)[Len(s) + 1] = f
  BY AppendProperties

\* pop removes the top of a stack that is not empty and moves no other.
LEMMA PopFacts ==
    ASSUME NEW S, NEW s \in Seq(S), s # <<>>
    PROVE  /\ Len(s) \in Nat \ {0}
           /\ Last(s) \in S
           /\ Last(s) = s[Len(s)]
           /\ Front(s) \in Seq(S)
           /\ Len(Front(s)) = Len(s) - 1
           /\ \A i \in 1 .. Len(s) - 1 : Front(s)[i] = s[i]
<1>1. Len(s) \in Nat \ {0}
  BY EmptySeq
<1>2. \A i \in 1 .. Len(s) : s[i] \in S
  BY ElementOfSeq
<1>3. Last(s) \in S /\ Last(s) = s[Len(s)]
  BY <1>1, <1>2 DEF Last
<1>4. /\ Front(s) \in Seq(S)
      /\ Len(Front(s)) = Len(s) - 1
      /\ \A i \in 1 .. Len(s) - 1 : Front(s)[i] = s[i]
  <2> DEFINE n == Len(s) - 1
  <2>1. n \in Nat /\ \A i \in 1 .. n : s[i] \in S
    BY <1>1, <1>2
  <2>2. /\ SubSeq(s, 1, n) \in Seq(S)
        /\ Len(SubSeq(s, 1, n)) = IF 1 <= n THEN n - 1 + 1 ELSE 0
        /\ \A i \in 1 .. n - 1 + 1 : SubSeq(s, 1, n)[i] = s[1 + i - 1]
    BY <2>1, SubSeqProperties
  <2>3. Front(s) = SubSeq(s, 1, n)
    BY DEF Front
  <2> HIDE DEF n
  <2>4. Len(SubSeq(s, 1, n)) = n
    BY <2>1, <2>2
  <2>5. \A i \in 1 .. n : SubSeq(s, 1, n)[i] = s[i]
    BY <2>1, <2>2
  <2> QED
    BY <2>2, <2>3, <2>4, <2>5 DEF n
<1> QED
  BY <1>1, <1>3, <1>4

\* Front of an empty sequence is empty.
LEMMA FrontInSeq ==
    ASSUME NEW S, NEW s \in Seq(S)
    PROVE  Front(s) \in Seq(S)
<1>1. CASE s = <<>>
  BY <1>1, EmptySeq, SubSeqEmpty DEF Front
<1>2. CASE s # <<>>
  BY <1>2, PopFacts
<1> QED
  BY <1>1, <1>2

-----------------------------------------------------------------------------
(* Type correctness. *)

LEMMA InitType == Init => TypeOK
<1> SUFFICES ASSUME Init PROVE TypeOK
  OBVIOUS
<1>1. <<>> \in Seq(Frame)
  BY EmptySeq
<1> QED
  BY <1>1 DEF Init, TypeOK, Statuses, Reports, Thread

LEMMA StepType == TypeOK /\ [Next]_vars => TypeOK'
<1> SUFFICES ASSUME TypeOK, [Next]_vars PROVE TypeOK'
  OBVIOUS
<1> USE DEF TypeOK, Statuses, Reports
<1>0. <<>> \in Seq(Frame)
  BY EmptySeq
<1>1. ASSUME NEW t \in Thread, ClientMain(t) PROVE TypeOK'
  BY <1>1 DEF ClientMain, EnterTerminate, kernelVars, clientVars, historyVars
<1>2. ASSUME NEW t \in Thread, NEW a \in Addr, OnCall(t, a) PROVE TypeOK'
  <2>1. a \in Frame
    BY DEF Frame
  <2>2. Append(frames[t], a) \in Seq(Frame) /\ Append(shadow[t], a) \in Seq(Frame)
    BY <2>1, PushFacts
  <2> QED
    BY <1>2, <2>2 DEF OnCall, PushShadow, kernelVars
<1>3. ASSUME NEW t \in Thread, NEW a \in Addr, ReachRet(t, a) PROVE TypeOK'
  BY <1>3 DEF ReachRet, kernelVars, clientVars
<1>4. ASSUME NEW t \in Thread, OnSignal(t) PROVE TypeOK'
  <2>1. WILDCARD \in Frame
    BY DEF Frame
  <2>2. /\ Append(frames[t], WILDCARD) \in Seq(Frame)
        /\ Append(shadow[t], WILDCARD) \in Seq(Frame)
    BY <2>1, PushFacts
  <2> QED
    BY <1>4, <2>2 DEF OnSignal, PushShadow, kernelVars
<1>5. ASSUME NEW t \in Thread, OnRetPops(t) PROVE TypeOK'
  <2>1. Front(shadow[t]) \in Seq(Frame)
    BY <1>5, PopFacts DEF OnRetPops, TopAllows
  <2>2. Front(frames[t]) \in Seq(Frame)
    BY FrontInSeq
  <2> QED
    BY <1>5, <2>1, <2>2 DEF OnRetPops, kernelVars
<1>6. ASSUME NEW t \in Thread, OnRetReports(t) PROVE TypeOK'
  BY <1>6 DEF OnRetReports, EnterTerminate, kernelVars, historyVars
<1>7. ASSUME NEW t \in Thread, TlsFails(t) PROVE TypeOK'
  BY <1>7 DEF TlsFails, EnterTerminate, kernelVars, clientVars, historyVars
<1>8. ASSUME NEW t \in Thread, PreExecve(t) PROVE TypeOK'
  <2>1. Len(frames[t]) \in Nat
    BY LenProperties
  <2> QED
    BY <1>0, <1>8, <2>1 DEF PreExecve, ClearShadow, kernelVars
<1>9. ASSUME NEW t \in Thread, ExecveFails(t) PROVE TypeOK'
  BY <1>0, <1>9 DEF ExecveFails, ClearShadow, kernelVars, historyVars
<1>10. ASSUME NEW t \in Thread, NEW kept \in BOOLEAN, ExecveSucceeds(t, kept)
       PROVE  TypeOK'
  BY <1>0, <1>10 DEF ExecveSucceeds
<1>11. ASSUME NEW t \in Thread, NEW c \in Children, Fork(t, c) PROVE TypeOK'
  BY <1>11 DEF Fork, Thread
<1>12. ASSUME NEW t \in Thread, NEW w \in Workers, Clone(t, w) PROVE TypeOK'
  BY <1>12 DEF Clone, clientVars, historyVars
<1>13. ASSUME NEW t \in Thread, ThreadExit(t) PROVE TypeOK'
  BY <1>13 DEF ThreadExit, kernelVars, clientVars, historyVars
<1>14. ASSUME NEW t \in Thread, ExitProcess(t) PROVE TypeOK'
  BY <1>14 DEF ExitProcess, kernelVars, clientVars, historyVars
<1>15. ASSUME NEW t \in Thread, Setsid(t) PROVE TypeOK'
  BY <1>15 DEF Setsid, clientVars, historyVars
<1>16. ASSUME NEW t \in Thread, Terminate(t) PROVE TypeOK'
  BY <1>16 DEF Terminate, Members, clientVars, historyVars
<1>17. ASSUME NEW t \in Thread, Reap(t) PROVE TypeOK'
  BY <1>17 DEF Reap, clientVars, historyVars
<1>18. ASSUME UNCHANGED vars PROVE TypeOK'
  BY <1>18 DEF vars, kernelVars, clientVars, historyVars
<1> QED
  BY <1>1, <1>2, <1>3, <1>4, <1>5, <1>6, <1>7, <1>8, <1>9, <1>10, <1>11,
     <1>12, <1>13, <1>14, <1>15, <1>16, <1>17, <1>18 DEF Next, Step

\* Every variable of the internal mode keeps its type, whatever the threads
\* and processes of the program do.
THEOREM TypeCorrect == Spec => []TypeOK
  BY InitType, StepType, PTL DEF Spec

-----------------------------------------------------------------------------
(* A shadow stack s aligned with call frames f of which n are forgotten. *)

Aligned(s, f, n) ==
    /\ Len(f) = n + Len(s)
    /\ \A i \in 1 .. Len(s) : s[i] = f[n + i]

LEMMA AlignedPush ==
    ASSUME NEW s \in Seq(Frame), NEW f \in Seq(Frame), NEW n \in Nat,
           NEW a \in Frame, Aligned(s, f, n)
    PROVE  Aligned(Append(s, a), Append(f, a), n)
<1>1. Len(s) \in Nat /\ Len(f) \in Nat
  BY LenProperties
<1>2. /\ Len(Append(s, a)) = Len(s) + 1
      /\ \A i \in 1 .. Len(s) : Append(s, a)[i] = s[i]
      /\ Append(s, a)[Len(s) + 1] = a
  BY PushFacts
<1>3. /\ Len(Append(f, a)) = Len(f) + 1
      /\ \A i \in 1 .. Len(f) : Append(f, a)[i] = f[i]
      /\ Append(f, a)[Len(f) + 1] = a
  BY PushFacts
<1>4. ASSUME NEW i \in 1 .. Len(s) + 1
      PROVE  Append(s, a)[i] = Append(f, a)[n + i]
  <2>1. CASE i = Len(s) + 1
    BY <1>1, <1>2, <1>3, <2>1 DEF Aligned
  <2>2. CASE i # Len(s) + 1
    <3>1. i \in 1 .. Len(s) /\ n + i \in 1 .. Len(f)
      BY <1>1, <2>2 DEF Aligned
    <3> QED
      BY <1>2, <1>3, <3>1 DEF Aligned
  <2> QED
    BY <2>1, <2>2
<1>5. Len(Append(f, a)) = n + Len(Append(s, a))
  BY <1>1, <1>2, <1>3 DEF Aligned
<1>6. Len(Append(s, a)) = Len(s) + 1
  BY <1>2
<1> QED
  BY <1>4, <1>5, <1>6 DEF Aligned

LEMMA AlignedPop ==
    ASSUME NEW s \in Seq(Frame), NEW f \in Seq(Frame), NEW n \in Nat,
           Aligned(s, f, n), s # <<>>
    PROVE  /\ f # <<>>
           /\ Last(s) = Last(f)
           /\ Aligned(Front(s), Front(f), n)
<1>1. /\ Len(s) \in Nat \ {0}
      /\ Last(s) = s[Len(s)]
      /\ Len(Front(s)) = Len(s) - 1
      /\ \A i \in 1 .. Len(s) - 1 : Front(s)[i] = s[i]
  BY PopFacts
<1>2. f # <<>>
  BY <1>1, EmptySeq DEF Aligned
<1>3. /\ Len(f) \in Nat \ {0}
      /\ Last(f) = f[Len(f)]
      /\ Len(Front(f)) = Len(f) - 1
      /\ \A i \in 1 .. Len(f) - 1 : Front(f)[i] = f[i]
  BY <1>2, PopFacts
<1>4. Last(s) = Last(f)
  BY <1>1, <1>3 DEF Aligned
<1>5. Len(Front(f)) = n + Len(Front(s))
  BY <1>1, <1>3 DEF Aligned
<1>6. ASSUME NEW i \in 1 .. Len(Front(s))
      PROVE  Front(s)[i] = Front(f)[n + i]
  <2>1. i \in 1 .. Len(s) - 1 /\ n + i \in 1 .. Len(f) - 1
    BY <1>1, <1>3 DEF Aligned
  <2> QED
    BY <1>1, <1>3, <2>1 DEF Aligned
<1> QED
  BY <1>2, <1>4, <1>5, <1>6 DEF Aligned

LEMMA AlignedForget ==
    ASSUME NEW f \in Seq(Frame)
    PROVE  Aligned(<<>>, f, Len(f))
<1>1. Len(f) \in Nat /\ Len(<<>>) = 0
  BY LenProperties, EmptySeq
<1> QED
  BY <1>1 DEF Aligned

-----------------------------------------------------------------------------
(* The shadow stack and the call stack move in lockstep. *)

\* What makes Lockstep inductive: a thread that has not run yet has neither
\* stack, one that waits for its execve has an empty shadow stack, and only a
\* running thread is at a return.
Fresh ==
    \A t \in Thread :
        /\ status[t] \in {"unborn", "starting"} =>
               shadow[t] = <<>> /\ frames[t] = <<>> /\ lost[t] = 0
        /\ status[t] = "execing" => shadow[t] = <<>>
        /\ status[t] \in {"unborn", "starting", "execing"} => goal[t] = NoAddr

InLockstep(t) ==
    status[t] \in {"running", "execing"} =>
        Aligned(shadow[t], frames[t], lost[t])

LEMMA LockstepIsAligned == Lockstep <=> \A t \in Thread : InLockstep(t)
  BY DEF Lockstep, InLockstep, Aligned

LEMMA LockstepPrime == Lockstep' <=> \A t \in Thread : InLockstep(t)'
  BY DEF Lockstep, InLockstep, Aligned

LEMMA InitLockstep == Init => Fresh /\ Lockstep
  BY EmptySeq DEF Init, Fresh, Lockstep, Thread

LEMMA StepFresh == TypeOK /\ Fresh /\ [Next]_vars => Fresh'
<1> SUFFICES ASSUME TypeOK, Fresh, [Next]_vars PROVE Fresh'
  OBVIOUS
<1> USE DEF Fresh, TypeOK
<1>1. ASSUME NEW t \in Thread, ClientMain(t) PROVE Fresh'
  BY <1>1 DEF ClientMain, EnterTerminate, kernelVars, clientVars, historyVars
<1>2. ASSUME NEW t \in Thread, NEW a \in Addr, OnCall(t, a) PROVE Fresh'
  BY <1>2 DEF OnCall, Executing, PushShadow, kernelVars
<1>3. ASSUME NEW t \in Thread, NEW a \in Addr, ReachRet(t, a) PROVE Fresh'
  BY <1>3 DEF ReachRet, Executing, kernelVars, clientVars
<1>4. ASSUME NEW t \in Thread, OnSignal(t) PROVE Fresh'
  BY <1>4 DEF OnSignal, Executing, PushShadow, kernelVars
<1>5. ASSUME NEW t \in Thread, OnRetPops(t) PROVE Fresh'
  BY <1>5 DEF OnRetPops, kernelVars
<1>6. ASSUME NEW t \in Thread, OnRetReports(t) PROVE Fresh'
  BY <1>6 DEF OnRetReports, EnterTerminate, kernelVars, historyVars
<1>7. ASSUME NEW t \in Thread, TlsFails(t) PROVE Fresh'
  BY <1>7 DEF TlsFails, EnterTerminate, kernelVars, clientVars, historyVars
<1>8. ASSUME NEW t \in Thread, PreExecve(t) PROVE Fresh'
  BY <1>8 DEF PreExecve, ClearShadow, Executing, kernelVars
<1>9. ASSUME NEW t \in Thread, ExecveFails(t) PROVE Fresh'
  BY <1>9 DEF ExecveFails, ClearShadow, kernelVars, historyVars
<1>10. ASSUME NEW t \in Thread, NEW kept \in BOOLEAN, ExecveSucceeds(t, kept)
       PROVE  Fresh'
  BY <1>10 DEF ExecveSucceeds
<1>11. ASSUME NEW t \in Thread, NEW c \in Children, Fork(t, c) PROVE Fresh'
  BY <1>11 DEF Fork, Executing, Thread
<1>12. ASSUME NEW t \in Thread, NEW w \in Workers, Clone(t, w) PROVE Fresh'
  BY <1>12 DEF Clone, clientVars, historyVars
<1>13. ASSUME NEW t \in Thread, ThreadExit(t) PROVE Fresh'
  BY <1>13 DEF ThreadExit, kernelVars, clientVars, historyVars
<1>14. ASSUME NEW t \in Thread, ExitProcess(t) PROVE Fresh'
  BY <1>14 DEF ExitProcess, kernelVars, clientVars, historyVars
<1>15. ASSUME NEW t \in Thread, Setsid(t) PROVE Fresh'
  BY <1>15 DEF Setsid, clientVars, historyVars
<1>16. ASSUME NEW t \in Thread, Terminate(t) PROVE Fresh'
  BY <1>16 DEF Terminate, clientVars, historyVars
<1>17. ASSUME NEW t \in Thread, Reap(t) PROVE Fresh'
  BY <1>17 DEF Reap, clientVars, historyVars
<1>18. ASSUME UNCHANGED vars PROVE Fresh'
  BY <1>18 DEF vars, kernelVars, clientVars, historyVars
<1> QED
  BY <1>1, <1>2, <1>3, <1>4, <1>5, <1>6, <1>7, <1>8, <1>9, <1>10, <1>11,
     <1>12, <1>13, <1>14, <1>15, <1>16, <1>17, <1>18 DEF Next, Step

LEMMA StepLockstep == TypeOK /\ Fresh /\ Lockstep /\ [Next]_vars => Lockstep'
<1> SUFFICES ASSUME TypeOK, Fresh, Lockstep, [Next]_vars,
                    NEW u \in Thread
             PROVE  InLockstep(u)'
  BY LockstepPrime
<1>0. \A t \in Thread : InLockstep(t)
  BY LockstepIsAligned
<1>a. /\ status \in [Thread -> Statuses]
      /\ shadow \in [Thread -> Seq(Frame)]
      /\ frames \in [Thread -> Seq(Frame)]
      /\ lost \in [Thread -> Nat]
  BY DEF TypeOK
<1>b. ASSUME status'[u] \in {"running", "execing"} =>
                 status[u] \in {"running", "execing"},
             shadow'[u] = shadow[u], frames'[u] = frames[u], lost'[u] = lost[u]
      PROVE  InLockstep(u)'
  BY <1>0, <1>b DEF InLockstep, Aligned
<1>1. ASSUME NEW t \in Thread, ClientMain(t) PROVE InLockstep(u)'
  <2>1. shadow' = shadow /\ frames' = frames /\ lost' = lost
    BY <1>1 DEF ClientMain, clientVars, historyVars
  <2>2. CASE u = t
    <3>1. shadow[u] = <<>> /\ frames[u] = <<>> /\ lost[u] = 0
      BY <1>1, <2>2 DEF ClientMain, Fresh
    <3> QED
      BY <2>1, <3>1, EmptySeq DEF InLockstep, Aligned
  <2>3. CASE u # t
    BY <1>1, <1>a, <1>b, <2>1, <2>3 DEF ClientMain, EnterTerminate
  <2> QED
    BY <2>2, <2>3
<1>2. ASSUME NEW t \in Thread, NEW a \in Frame, Executing(t),
             frames' = [frames EXCEPT ![t] = Append(@, a)], PushShadow(t, a),
             UNCHANGED <<status, lost>>
      PROVE  InLockstep(u)'
  <2>1. CASE u = t
    <3>1. Aligned(shadow[t], frames[t], lost[t])
      BY <1>0, <1>2 DEF Executing, InLockstep
    <3>2. Aligned(Append(shadow[t], a), Append(frames[t], a), lost[t])
      BY <1>a, <3>1, AlignedPush
    <3>3. /\ shadow'[u] = Append(shadow[t], a)
          /\ frames'[u] = Append(frames[t], a)
          /\ lost'[u] = lost[t]
      BY <1>2, <1>a, <2>1 DEF PushShadow
    <3> QED
      BY <3>2, <3>3 DEF InLockstep
  <2>2. CASE u # t
    BY <1>2, <1>a, <1>b, <2>2 DEF PushShadow
  <2> QED
    BY <2>1, <2>2
<1>3. ASSUME NEW t \in Thread, NEW a \in Addr, OnCall(t, a)
      PROVE  InLockstep(u)'
  BY <1>2, <1>3 DEF OnCall, Frame
<1>4. ASSUME NEW t \in Thread, OnSignal(t) PROVE InLockstep(u)'
  BY <1>2, <1>4 DEF OnSignal, Frame
<1>5. ASSUME NEW t \in Thread, OnRetPops(t) PROVE InLockstep(u)'
  <2>1. CASE u = t
    <3>1. Aligned(shadow[t], frames[t], lost[t]) /\ shadow[t] # <<>>
      BY <1>0, <1>5 DEF OnRetPops, TopAllows, InLockstep
    <3>2. Aligned(Front(shadow[t]), Front(frames[t]), lost[t])
      BY <1>a, <3>1, AlignedPop
    <3>3. /\ shadow'[u] = Front(shadow[t])
          /\ frames'[u] = Front(frames[t])
          /\ lost'[u] = lost[t]
      BY <1>5, <1>a, <2>1 DEF OnRetPops
    <3> QED
      BY <3>2, <3>3 DEF InLockstep
  <2>2. CASE u # t
    BY <1>5, <1>a, <1>b, <2>2 DEF OnRetPops
  <2> QED
    BY <2>1, <2>2
<1>6. ASSUME NEW t \in Thread, PreExecve(t) PROVE InLockstep(u)'
  <2>1. CASE u = t
    <3>1. shadow'[u] = <<>> /\ frames'[u] = frames[u] /\ lost'[u] = Len(frames[u])
      BY <1>6, <1>a, <2>1 DEF PreExecve, ClearShadow
    <3> QED
      BY <1>a, <3>1, AlignedForget DEF InLockstep
  <2>2. CASE u # t
    BY <1>6, <1>a, <1>b, <2>2 DEF PreExecve, ClearShadow
  <2> QED
    BY <2>1, <2>2
<1>7. ASSUME NEW t \in Thread, ExecveFails(t) PROVE InLockstep(u)'
  <2>1. CASE u = t
    <3>1. Aligned(<<>>, frames[u], lost[u])
      BY <1>0, <1>7, <2>1 DEF ExecveFails, InLockstep, Fresh
    <3>2. shadow'[u] = <<>> /\ frames'[u] = frames[u] /\ lost'[u] = lost[u]
      BY <1>7, <1>a, <2>1 DEF ExecveFails, ClearShadow, historyVars
    <3> QED
      BY <3>1, <3>2 DEF InLockstep
  <2>2. CASE u # t
    BY <1>7, <1>a, <1>b, <2>2 DEF ExecveFails, ClearShadow, historyVars
  <2> QED
    BY <2>1, <2>2
<1>8. ASSUME NEW t \in Thread, NEW kept \in BOOLEAN, ExecveSucceeds(t, kept)
      PROVE  InLockstep(u)'
  <2>1. CASE u = t
    BY <1>8, <1>a, <2>1 DEF ExecveSucceeds, InLockstep
  <2>2. CASE u # t
    BY <1>8, <1>a, <1>b, <2>2 DEF ExecveSucceeds
  <2> QED
    BY <2>1, <2>2
<1>9. ASSUME NEW t \in Thread, NEW c \in Children, Fork(t, c)
      PROVE  InLockstep(u)'
  <2>1. c \in Thread /\ c # t
    BY <1>9 DEF Fork, Executing, Thread
  <2>2. CASE u = c
    <3>1. Aligned(shadow[t], frames[t], lost[t])
      BY <1>0, <1>9 DEF Fork, Executing, InLockstep
    <3>2. shadow'[u] = shadow[t] /\ frames'[u] = frames[t] /\ lost'[u] = lost[t]
      BY <1>9, <1>a, <2>1, <2>2 DEF Fork
    <3> QED
      BY <3>1, <3>2 DEF InLockstep
  <2>3. CASE u # c
    BY <1>9, <1>a, <1>b, <2>3 DEF Fork
  <2> QED
    BY <2>2, <2>3
<1>10. ASSUME NEW t \in Thread, NEW w \in Workers, Clone(t, w)
       PROVE  InLockstep(u)'
  <2>1. shadow' = shadow /\ frames' = frames /\ lost' = lost
    BY <1>10 DEF Clone, clientVars, historyVars
  <2>2. CASE u = w
    <3>1. shadow[u] = <<>> /\ frames[u] = <<>> /\ lost[u] = 0
      BY <1>10, <2>2 DEF Clone, Fresh
    <3> QED
      BY <2>1, <3>1, EmptySeq DEF InLockstep, Aligned
  <2>3. CASE u # w
    BY <1>10, <1>a, <1>b, <2>1, <2>3 DEF Clone
  <2> QED
    BY <2>2, <2>3
<1>11. ASSUME UNCHANGED <<shadow, frames, lost>>,
              status'[u] \in {"running", "execing"} => status'[u] = status[u]
       PROVE  InLockstep(u)'
  BY <1>b, <1>11
<1>12. ASSUME NEW t \in Thread, NEW a \in Addr, ReachRet(t, a)
       PROVE  InLockstep(u)'
  BY <1>11, <1>12 DEF ReachRet, clientVars
<1>13. ASSUME NEW t \in Thread,
              OnRetReports(t) \/ TlsFails(t) \/ ThreadExit(t) \/ ExitProcess(t)
                  \/ Setsid(t) \/ Terminate(t) \/ Reap(t)
       PROVE  InLockstep(u)'
  <2>1. UNCHANGED <<shadow, frames, lost>>
    BY <1>13 DEF OnRetReports, TlsFails, ThreadExit, ExitProcess, Setsid,
                 Terminate, Reap, clientVars, historyVars
  <2>2. status'[u] \in {"running", "execing"} => status'[u] = status[u]
    BY <1>13, <1>a DEF OnRetReports, TlsFails, ThreadExit, ExitProcess, Setsid,
                       Terminate, Reap, EnterTerminate
  <2> QED
    BY <1>11, <2>1, <2>2
<1>14. ASSUME UNCHANGED vars PROVE InLockstep(u)'
  BY <1>11, <1>14 DEF vars, clientVars, historyVars
<1> QED
  BY <1>1, <1>3, <1>4, <1>5, <1>6, <1>7, <1>8, <1>9, <1>10, <1>12, <1>13,
     <1>14 DEF Next, Step

THEOREM LockstepCorrect == Spec => []Lockstep
  BY InitType, StepType, InitLockstep, StepFresh, StepLockstep, PTL DEF Spec

-----------------------------------------------------------------------------
(* Only bad returns are reported. *)

\* Looking at the top of the shadow stack is looking at the innermost call
\* that is not forgotten.
LEMMA TopIsInnermost ==
    ASSUME TypeOK, Lockstep, NEW t \in Thread, status[t] = "running"
    PROVE  /\ TopAllows(t) <=> /\ Len(frames[t]) > lost[t]
                              /\ Last(frames[t]) \in {goal[t], WILDCARD}
           /\ Len(frames[t]) \in Nat /\ lost[t] \in Nat
           /\ Len(frames[t]) >= lost[t]
<1>1. /\ shadow[t] \in Seq(Frame) /\ frames[t] \in Seq(Frame) /\ lost[t] \in Nat
      /\ Aligned(shadow[t], frames[t], lost[t])
  BY LockstepIsAligned DEF TypeOK, InLockstep
<1>2. Len(shadow[t]) \in Nat /\ Len(frames[t]) \in Nat
  BY <1>1, LenProperties
<1>3. Len(frames[t]) = lost[t] + Len(shadow[t])
  BY <1>1 DEF Aligned
<1>4. CASE shadow[t] = <<>>
  <2>1. Len(shadow[t]) = 0
    BY <1>4, EmptySeq
  <2> QED
    BY <1>1, <1>2, <1>3, <1>4, <2>1 DEF TopAllows
<1>5. CASE shadow[t] # <<>>
  <2>1. Len(shadow[t]) \in Nat \ {0}
    BY <1>1, <1>5, EmptySeq
  <2>2. Last(shadow[t]) = Last(frames[t])
    BY <1>1, <1>5, AlignedPop
  <2> QED
    BY <1>1, <1>2, <1>3, <1>5, <2>1, <2>2 DEF TopAllows
<1> QED
  BY <1>4, <1>5

Stopped(t) == status[t] \in {"terminating", "spinning", "dead"}

\* A thread that entered Group::terminate, or died, never runs again.
LEMMA StoppedStays ==
    ASSUME TypeOK, [Next]_vars, NEW u \in Thread, Stopped(u)
    PROVE  /\ Stopped(u)'
           /\ report'[u] = report[u] /\ frames'[u] = frames[u]
           /\ lost'[u] = lost[u] /\ goal'[u] = goal[u]
<1> USE DEF Stopped, TypeOK
<1>1. ASSUME NEW t \in Thread,
             \/ ClientMain(t) \/ OnSignal(t) \/ OnRetPops(t) \/ OnRetReports(t)
             \/ TlsFails(t) \/ PreExecve(t) \/ ExecveFails(t) \/ ThreadExit(t)
             \/ \E a \in Addr : OnCall(t, a) \/ ReachRet(t, a)
      PROVE  /\ Stopped(u)'
             /\ report'[u] = report[u] /\ frames'[u] = frames[u]
             /\ lost'[u] = lost[u] /\ goal'[u] = goal[u]
  BY <1>1 DEF ClientMain, OnSignal, OnRetPops, OnRetReports, TlsFails, PreExecve,
              ExecveFails, ThreadExit, OnCall, ReachRet, EnterTerminate, Executing,
              historyVars
<1>2. ASSUME NEW t \in Thread, NEW kept \in BOOLEAN, ExecveSucceeds(t, kept)
      PROVE  /\ Stopped(u)'
             /\ report'[u] = report[u] /\ frames'[u] = frames[u]
             /\ lost'[u] = lost[u] /\ goal'[u] = goal[u]
  BY <1>2 DEF ExecveSucceeds
<1>3. ASSUME NEW t \in Thread, NEW c \in Children, Fork(t, c)
      PROVE  /\ Stopped(u)'
             /\ report'[u] = report[u] /\ frames'[u] = frames[u]
             /\ lost'[u] = lost[u] /\ goal'[u] = goal[u]
  BY <1>3 DEF Fork
<1>4. ASSUME NEW t \in Thread,
             \/ \E w \in Workers : Clone(t, w)
             \/ ExitProcess(t) \/ Setsid(t) \/ Terminate(t) \/ Reap(t)
      PROVE  /\ Stopped(u)'
             /\ report'[u] = report[u] /\ frames'[u] = frames[u]
             /\ lost'[u] = lost[u] /\ goal'[u] = goal[u]
  BY <1>4 DEF Clone, ExitProcess, Setsid, Terminate, Reap, historyVars
<1>5. CASE UNCHANGED vars
  BY <1>5 DEF vars, historyVars
<1> QED
  BY <1>1, <1>2, <1>3, <1>4, <1>5 DEF Next, Step

ReportedStopped == \A t \in Thread : Reported(t) => Stopped(t)

\* Only on_ret reports a bad return.
LEMMA NewReport ==
    ASSUME TypeOK, [Next]_vars, NEW u \in Thread, ~Reported(u), Reported(u)'
    PROVE  OnRetReports(u)
<1> USE DEF Reported, TypeOK
<1>1. ASSUME NEW t \in Thread, OnRetReports(t) PROVE t = u
  BY <1>1 DEF OnRetReports, EnterTerminate
<1>2. ASSUME NEW t \in Thread, ClientMain(t) \/ TlsFails(t) PROVE FALSE
  BY <1>2 DEF ClientMain, TlsFails, EnterTerminate
<1>3. ASSUME UNCHANGED report PROVE FALSE
  BY <1>3
<1> QED
  BY <1>1, <1>2, <1>3
     DEF Next, Step, vars, OnCall, ReachRet, OnSignal, OnRetPops, PreExecve,
         ExecveFails, ExecveSucceeds, Fork, Clone, ThreadExit, ExitProcess, Setsid,
         Terminate, Reap

LEMMA StepReports ==
    TypeOK /\ Lockstep /\ ReportedStopped /\ OnlyBadReturnsReported /\ [Next]_vars
        => (ReportedStopped /\ OnlyBadReturnsReported)'
<1> SUFFICES ASSUME TypeOK, Lockstep, ReportedStopped, OnlyBadReturnsReported,
                    [Next]_vars, NEW u \in Thread, Reported(u)'
             PROVE  /\ Stopped(u)'
                    /\ \/ Corrupt(u)'
                       \/ lost'[u] > 0 /\ Len(frames'[u]) = lost'[u]
  BY DEF ReportedStopped, OnlyBadReturnsReported
<1>1. CASE Reported(u)
  <2>1. Stopped(u) /\ (Corrupt(u) \/ (lost[u] > 0 /\ Len(frames[u]) = lost[u]))
    BY <1>1 DEF ReportedStopped, OnlyBadReturnsReported
  <2>2. /\ Stopped(u)'
        /\ frames'[u] = frames[u] /\ lost'[u] = lost[u] /\ goal'[u] = goal[u]
    BY <2>1, StoppedStays
  <2> QED
    BY <2>1, <2>2 DEF Corrupt
<1>2. CASE ~Reported(u)
  <2>1. OnRetReports(u)
    BY <1>2, NewReport
  <2>2. /\ status[u] = "running" /\ ~TopAllows(u)
        /\ frames' = frames /\ lost' = lost /\ goal' = goal
    BY <2>1 DEF OnRetReports, historyVars
  <2>3. Stopped(u)'
    BY <2>1 DEF OnRetReports, EnterTerminate, Stopped, TypeOK
  <2>4. \/ Last(frames[u]) \notin {goal[u], WILDCARD}
        \/ Len(frames[u]) = lost[u] /\ lost[u] \in Nat
    BY <2>2, TopIsInnermost
  <2>5. frames[u] \in Seq(Frame)
    BY DEF TypeOK
  <2>6. Len(frames[u]) = 0 => frames[u] = <<>>
    BY <2>5, EmptySeq
  <2> QED
    BY <2>2, <2>3, <2>4, <2>6 DEF Corrupt
<1> QED
  BY <1>1, <1>2

LEMMA InitReports == Init => ReportedStopped /\ OnlyBadReturnsReported
  BY DEF Init, ReportedStopped, OnlyBadReturnsReported, Reported

THEOREM ReportsCorrect == Spec => []OnlyBadReturnsReported
  BY InitType, StepType, InitLockstep, StepFresh, StepLockstep, InitReports,
     StepReports, PTL DEF Spec

-----------------------------------------------------------------------------
(* The kill reaches the whole group: killpg races with forks, clones,      *)
(* setsid, execve and exits of every other thread of the group.            *)

\* What is known of a process or a thread that does not exist yet, and of
\* group names: a group is named after a process that is still in it.
Names ==
    /\ \A p \in Thread : pgid[pgid[p]] = pgid[p]
    /\ \A t \in Thread :
          status[t] = "unborn" =>
              /\ proc[t] = t
              /\ \A p \in Thread : pgid[p] = t => p = t
    /\ \A t \in Thread : status[t] # "unborn" => status[proc[t]] # "unborn"

\* NoSurvivorBehindKillpg, thread by thread.
Doomed(s, v) ==
    status[s] = "spinning" /\ Live(v) /\ pgid[proc[v]] = pgid[proc[s]]
        => proc[v] \in sigkill

LEMMA DoomedIsNoSurvivor ==
    NoSurvivorBehindKillpg <=> \A s, v \in Thread : Doomed(s, v)
  BY DEF NoSurvivorBehindKillpg, Members, Doomed

LEMMA DoomedPrime ==
    NoSurvivorBehindKillpg' <=> \A s, v \in Thread : Doomed(s, v)'
  BY DEF NoSurvivorBehindKillpg, Members, Doomed

LEMMA InitGroup == Init => Names /\ NoSurvivorBehindKillpg
<1> SUFFICES ASSUME Init PROVE Names /\ NoSurvivorBehindKillpg
  OBVIOUS
<1>1. Names
  BY DEF Init, Names
<1>2. \A s, v \in Thread : Doomed(s, v)
  BY DEF Init, Doomed
<1> QED
  BY <1>1, <1>2, DoomedIsNoSurvivor

LEMMA StepNames == TypeOK /\ Names /\ [Next]_vars => Names'
<1> SUFFICES ASSUME TypeOK, Names, [Next]_vars PROVE Names'
  OBVIOUS
<1> USE DEF TypeOK
<1>1. ASSUME NEW t \in Thread, NEW c \in Children, Fork(t, c) PROVE Names'
  <2>1. c \in Thread /\ status[c] = "unborn" /\ status[t] = "running"
    BY <1>1 DEF Fork, Executing, Thread
  <2>2. proc[t] # c /\ pgid[proc[t]] # c
    BY <2>1 DEF Names
  <2>3. /\ status' = [status EXCEPT ![c] = "running"]
        /\ pgid' = [pgid EXCEPT ![c] = pgid[proc[t]]]
        /\ proc' = proc
    BY <1>1 DEF Fork
  <2>4. \A p \in Thread : pgid'[pgid'[p]] = pgid'[p]
    BY <2>1, <2>2, <2>3 DEF Names
  <2>5. \A u \in Thread :
            status'[u] = "unborn" =>
                /\ proc'[u] = u
                /\ \A p \in Thread : pgid'[p] = u => p = u
    BY <2>1, <2>2, <2>3 DEF Names
  <2>6. \A u \in Thread : status'[u] # "unborn" => status'[proc'[u]] # "unborn"
    BY <2>1, <2>3 DEF Names
  <2> QED
    BY <2>4, <2>5, <2>6 DEF Names
<1>2. ASSUME NEW t \in Thread, NEW w \in Workers, Clone(t, w) PROVE Names'
  <2>1. w \in Thread /\ status[w] = "unborn" /\ status[t] = "running"
    BY <1>2 DEF Clone, Executing, Thread
  <2>2. /\ status' = [status EXCEPT ![w] = "running"]
        /\ proc' = [proc EXCEPT ![w] = proc[t]]
        /\ pgid' = pgid
    BY <1>2 DEF Clone
  <2> QED
    BY <2>1, <2>2 DEF Names
<1>3. ASSUME NEW t \in Thread, Setsid(t) PROVE Names'
  <2>1. /\ status' = status /\ proc' = proc
        /\ pgid' = [pgid EXCEPT ![proc[t]] = proc[t]]
        /\ pgid[proc[t]] # proc[t] /\ status[t] = "running"
    BY <1>3 DEF Setsid, Executing
  <2>2. \A p \in Thread : pgid[p] # proc[t]
    BY <2>1 DEF Names
  <2> QED
    BY <2>1, <2>2 DEF Names
<1>4. ASSUME UNCHANGED <<proc, pgid>>,
             \A u \in Thread : status'[u] = "unborn" <=> status[u] = "unborn"
      PROVE  Names'
  BY <1>4 DEF Names
<1>5. ASSUME NEW t \in Thread, NEW kept \in BOOLEAN, ExecveSucceeds(t, kept)
      PROVE  Names'
  BY <1>4, <1>5 DEF ExecveSucceeds, Siblings, Live
<1>6. ASSUME NEW t \in Thread,
             \/ ClientMain(t) \/ OnSignal(t) \/ OnRetPops(t) \/ OnRetReports(t)
             \/ TlsFails(t) \/ PreExecve(t) \/ ExecveFails(t) \/ ThreadExit(t)
             \/ \E a \in Addr : OnCall(t, a) \/ ReachRet(t, a)
      PROVE  Names'
  BY <1>4, <1>6 DEF ClientMain, OnSignal, OnRetPops, OnRetReports, TlsFails,
      PreExecve, ExecveFails, ThreadExit, OnCall, ReachRet, EnterTerminate,
      Executing, kernelVars
<1>7. ASSUME NEW t \in Thread, ExitProcess(t) \/ Terminate(t) \/ Reap(t)
      PROVE  Names'
  BY <1>4, <1>7 DEF ExitProcess, Terminate, Reap, Executing, Siblings, Live,
                    kernelVars
<1>8. CASE UNCHANGED vars
  BY <1>4, <1>8 DEF vars, kernelVars
<1> QED
  BY <1>1, <1>2, <1>3, <1>5, <1>6, <1>7, <1>8 DEF Next, Step

LEMMA StepGroup ==
    TypeOK /\ Names /\ NoSurvivorBehindKillpg /\ [Next]_vars
        => NoSurvivorBehindKillpg'
<1> SUFFICES ASSUME TypeOK, Names, NoSurvivorBehindKillpg, [Next]_vars,
                    NEW s \in Thread, NEW v \in Thread
             PROVE  Doomed(s, v)'
  BY DoomedPrime
<1> USE DEF TypeOK
<1>0. \A x, y \in Thread : Doomed(x, y)
  BY DoomedIsNoSurvivor
<1>1. ASSUME NEW t \in Thread, NEW c \in Children, Fork(t, c)
      PROVE  Doomed(s, v)'
  <2>1. c \in Thread /\ status[c] = "unborn" /\ status[t] = "running"
    BY <1>1 DEF Fork, Executing, Thread
  <2>2. /\ status' = [status EXCEPT ![c] = "running"]
        /\ pgid' = [pgid EXCEPT ![c] = pgid[proc[t]]]
        /\ proc' = proc /\ sigkill' = sigkill /\ proc[t] \notin sigkill
    BY <1>1 DEF Fork
  <2>3. SUFFICES ASSUME status'[s] = "spinning", Live(v)',
                        pgid'[proc'[v]] = pgid'[proc'[s]]
                 PROVE  proc'[v] \in sigkill'
    BY DEF Doomed
  <2>4. status[s] = "spinning" /\ s # c /\ proc[s] # c /\ proc[t] # c /\ proc[c] = c
    <3>1. status[s] = "spinning" /\ s # c
      BY <2>1, <2>2, <2>3
    <3>2. proc[c] = c
      BY <2>1 DEF Names
    <3>3. status[proc[s]] # "unborn" /\ status[proc[t]] # "unborn"
      BY <2>1, <3>1 DEF Names
    <3> QED
      BY <2>1, <3>1, <3>2, <3>3
  <2>5. CASE v = c
    <3>1. pgid[proc[t]] = pgid[proc[s]]
      BY <2>2, <2>3, <2>4, <2>5
    <3>2. proc[t] \in sigkill
      BY <1>0, <2>1, <2>4, <3>1 DEF Doomed, Live
    <3> QED
      BY <2>2, <3>2
  <2>6. CASE v # c
    <3>1. Live(v) /\ proc[v] # c
      BY <2>1, <2>2, <2>3, <2>6 DEF Live, Names
    <3>2. pgid[proc[v]] = pgid[proc[s]]
      BY <2>2, <2>3, <2>4, <3>1
    <3> QED
      BY <1>0, <2>2, <2>4, <3>1, <3>2 DEF Doomed
  <2> QED
    BY <2>5, <2>6
<1>2. ASSUME NEW t \in Thread, NEW w \in Workers, Clone(t, w)
      PROVE  Doomed(s, v)'
  <2>1. w \in Thread /\ status[w] = "unborn" /\ status[t] = "running"
    BY <1>2 DEF Clone, Executing, Thread
  <2>2. /\ status' = [status EXCEPT ![w] = "running"]
        /\ proc' = [proc EXCEPT ![w] = proc[t]]
        /\ pgid' = pgid /\ sigkill' = sigkill
    BY <1>2 DEF Clone
  <2>3. CASE v = w
    BY <1>0, <2>1, <2>2, <2>3 DEF Doomed, Live
  <2>4. CASE v # w
    BY <1>0, <2>1, <2>2, <2>4 DEF Doomed, Live
  <2> QED
    BY <2>3, <2>4
<1>3. ASSUME NEW t \in Thread, Setsid(t) PROVE Doomed(s, v)'
  <2>1. /\ status' = status /\ proc' = proc /\ sigkill' = sigkill
        /\ pgid' = [pgid EXCEPT ![proc[t]] = proc[t]]
        /\ pgid[proc[t]] # proc[t]
    BY <1>3 DEF Setsid
  <2>2. \A p \in Thread : pgid[p] # proc[t]
    BY <2>1 DEF Names
  <2>3. CASE proc[s] = proc[t]
    BY <1>0, <2>1, <2>2, <2>3 DEF Doomed, Live
  <2>4. CASE proc[s] # proc[t]
    BY <1>0, <2>1, <2>2, <2>4 DEF Doomed, Live
  <2> QED
    BY <2>3, <2>4
<1>4. ASSUME UNCHANGED <<proc, pgid, sigkill>>,
             \A u \in Thread : /\ Live(u)' => Live(u)
                               /\ status'[u] = "spinning" => status[u] = "spinning"
      PROVE  Doomed(s, v)'
  BY <1>0, <1>4 DEF Doomed
<1>5. ASSUME NEW t \in Thread, NEW kept \in BOOLEAN, ExecveSucceeds(t, kept)
      PROVE  Doomed(s, v)'
  BY <1>4, <1>5 DEF ExecveSucceeds, Live
<1>6. ASSUME NEW t \in Thread,
             \/ ClientMain(t) \/ OnSignal(t) \/ OnRetPops(t) \/ OnRetReports(t)
             \/ TlsFails(t) \/ PreExecve(t) \/ ExecveFails(t) \/ ThreadExit(t)
             \/ \E a \in Addr : OnCall(t, a) \/ ReachRet(t, a)
      PROVE  Doomed(s, v)'
  BY <1>4, <1>6 DEF ClientMain, OnSignal, OnRetPops, OnRetReports, TlsFails,
      PreExecve, ExecveFails, ThreadExit, OnCall, ReachRet, EnterTerminate,
      Executing, Live, kernelVars
<1>7. ASSUME NEW t \in Thread, ExitProcess(t) PROVE Doomed(s, v)'
  BY <1>4, <1>7 DEF ExitProcess, Live, kernelVars
<1>8. ASSUME NEW t \in Thread, Terminate(t) PROVE Doomed(s, v)'
  <2>1. /\ status' = [status EXCEPT ![t] = "spinning"]
        /\ proc' = proc /\ pgid' = pgid
        /\ sigkill' = sigkill \union Members(pgid[proc[t]])
        /\ status[t] = "terminating"
    BY <1>8 DEF Terminate
  <2>2. CASE s = t
    BY <2>1, <2>2 DEF Doomed, Live, Members
  <2>3. CASE s # t
    BY <1>0, <2>1, <2>3 DEF Doomed, Live
  <2> QED
    BY <2>2, <2>3
<1>9. ASSUME NEW t \in Thread, Reap(t) PROVE Doomed(s, v)'
  BY <1>0, <1>9 DEF Reap, Doomed, Live
<1>10. CASE UNCHANGED vars
  BY <1>4, <1>10 DEF vars, kernelVars, Live
<1> QED
  BY <1>1, <1>2, <1>3, <1>5, <1>6, <1>7, <1>8, <1>9, <1>10 DEF Next, Step

\* When a thread spins in kill_9_group, every process of its group is about
\* to die: no child forked meanwhile is left behind.
THEOREM GroupCorrect == Spec => []NoSurvivorBehindKillpg
  BY InitType, StepType, InitGroup, StepNames, StepGroup, PTL DEF Spec

-----------------------------------------------------------------------------
(* The internal mode implements ReturnGuard.                               *)

IInv == TypeOK /\ Fresh /\ Lockstep /\ ReportedStopped

LEMMA InvCorrect == Spec => []IInv
<1>1. Init => IInv
  BY InitType, InitLockstep, InitReports DEF IInv
<1>2. IInv /\ OnlyBadReturnsReported /\ [Next]_vars
          => (IInv /\ OnlyBadReturnsReported)'
  BY StepType, StepFresh, StepLockstep, StepReports DEF IInv
<1>3. Init => OnlyBadReturnsReported
  BY InitReports
<1> QED
  BY <1>1, <1>2, <1>3, PTL DEF Spec

-----------------------------------------------------------------------------
(* How a thread looks to ReturnGuard. *)

LEMMA GuardStates ==
    ASSUME NEW t \in Thread
    PROVE  /\ status[t] = "unborn" => GuardState[t] = "unborn"
           /\ status[t] \in {"starting", "running", "execing"}
                  => GuardState[t] = "running"
           /\ status[t] \in {"terminating", "spinning"} /\ Reported(t)
                  => GuardState[t] = "halted"
           /\ status[t] \in {"terminating", "spinning"} /\ ~Reported(t)
                  => GuardState[t] = "gone"
           /\ status[t] = "dead" => GuardState[t] = "gone"
  BY Zenon DEF GuardState

LEMMA GuardStatesPrime ==
    ASSUME NEW t \in Thread
    PROVE  /\ status'[t] = "unborn" => GuardState'[t] = "unborn"
           /\ status'[t] \in {"starting", "running", "execing"}
                  => GuardState'[t] = "running"
           /\ status'[t] \in {"terminating", "spinning"} /\ Reported(t)'
                  => GuardState'[t] = "halted"
           /\ status'[t] \in {"terminating", "spinning"} /\ ~Reported(t)'
                  => GuardState'[t] = "gone"
           /\ status'[t] = "dead" => GuardState'[t] = "gone"
  BY Zenon DEF GuardState, Reported

\* GuardState is a function, so equal values make it equal.
LEMMA GuardStateIsFunction ==
    /\ GuardState = [t \in Thread |-> GuardState[t]]
    /\ GuardState' = [t \in Thread |-> GuardState'[t]]
  BY DEF GuardState

\* A thread whose status and report stay has the same place in ReturnGuard,
\* and so has one whose status changes between two that map to the same.
LEMMA GuardStateStays ==
    ASSUME NEW t \in Thread, report'[t] = report[t],
           \/ status'[t] = status[t]
           \/ {status[t], status'[t]} \subseteq {"starting", "running", "execing"}
           \/ {status[t], status'[t]} \subseteq {"terminating", "spinning"},
           status[t] \in Statuses
    PROVE  GuardState'[t] = GuardState[t]
  BY GuardStates, GuardStatesPrime DEF Reported, Statuses

\* So a step that keeps every thread's place keeps GuardState.
LEMMA GuardStateUnchanged ==
    ASSUME TypeOK, UNCHANGED report,
           \A t \in Thread :
               \/ status'[t] = status[t]
               \/ {status[t], status'[t]} \subseteq {"starting", "running", "execing"}
               \/ {status[t], status'[t]} \subseteq {"terminating", "spinning"}
    PROVE  UNCHANGED GuardState
<1>1. \A t \in Thread : GuardState'[t] = GuardState[t]
  BY GuardStateStays DEF TypeOK
<1> QED
  BY <1>1, GuardStateIsFunction

\* A step that only ends threads.
LEMMA Ending ==
    ASSUME TypeOK, UNCHANGED historyVars, NEW S \in SUBSET Thread,
           \A t \in S : GuardState[t] # "unborn" /\ GuardState'[t] = "gone",
           \A t \in Thread \ S : GuardState'[t] = GuardState[t]
    PROVE  Guard!Vanish(S)
<1>1. GuardState' = [t \in Thread |-> IF t \in S THEN "gone" ELSE GuardState[t]]
  BY GuardStateIsFunction
<1> QED
  BY <1>1 DEF Guard!Vanish, historyVars

\* A failed assertion ends the thread, as far as ReturnGuard can tell.
LEMMA AssertEnds ==
    ASSUME TypeOK, NEW t \in Thread, EnterTerminate(t, "assert"),
           UNCHANGED historyVars, status[t] \in {"starting", "running"}
    PROVE  Guard!Vanish({t})
<1>1. /\ status'[t] = "terminating" /\ report'[t] = "assert"
      /\ \A u \in Thread \ {t} : status'[u] = status[u] /\ report'[u] = report[u]
  BY DEF EnterTerminate, TypeOK
<1>2. GuardState[t] # "unborn" /\ GuardState'[t] = "gone"
  BY <1>1, GuardStates, GuardStatesPrime DEF Reported
<1>3. \A u \in Thread \ {t} : GuardState'[u] = GuardState[u]
  BY <1>1, GuardStateStays DEF TypeOK
<1> QED
  BY <1>2, <1>3, Ending

LEMMA InitRefines == Init => Guard!Init
<1> SUFFICES ASSUME Init PROVE Guard!Init
  OBVIOUS
<1>1. Main \in Thread
  BY DEF Thread
<1>2. \A t \in Thread :
          GuardState[t] = IF t = Main THEN "running" ELSE "unborn"
  BY GuardStates DEF Init
<1>3. GuardState = [t \in Thread |-> IF t = Main THEN "running" ELSE "unborn"]
  BY <1>2, GuardStateIsFunction
<1> QED
  BY <1>1, <1>3 DEF Init, Guard!Init

LEMMA StepRefines == IInv /\ [Next]_vars => [Guard!Next]_(Guard!vars)
<1> SUFFICES ASSUME IInv, [Next]_vars
             PROVE  Guard!Next \/ UNCHANGED Guard!vars
  OBVIOUS
<1>a. TypeOK /\ Fresh /\ Lockstep /\ ReportedStopped
  BY DEF IInv
<1>b. ASSUME NEW t \in Thread,
             Executing(t) \/ status[t] = "execing"
      PROVE  Guard!Executing(t)
  BY <1>a, <1>b, GuardStates DEF Executing, Fresh, Guard!Executing
<1>c. ASSUME NEW t \in Thread, status[t] = "running", goal[t] # NoAddr
      PROVE  Guard!Returning(t) /\ (Guard!Allowed(t) <=> TopAllows(t))
  <2>1. Guard!Returning(t)
    BY <1>c, GuardStates DEF Guard!Returning
  <2>2. Guard!Allowed(t) <=> TopAllows(t)
    BY <1>a, <1>c, TopIsInnermost DEF Guard!Allowed, Last
  <2> QED
    BY <2>1, <2>2
<1>d. ASSUME UNCHANGED <<status, report>>
      PROVE  UNCHANGED GuardState
  BY <1>a, <1>d, GuardStateUnchanged
<1>1. ASSUME NEW t \in Thread, ClientMain(t)
      PROVE  Guard!Next \/ UNCHANGED Guard!vars
  <2>1. CASE sockEnv[proc[t]]
    <3>1. UNCHANGED GuardState
      BY <1>1, <1>a, <2>1, GuardStateUnchanged DEF ClientMain, TypeOK
    <3> QED
      BY <1>1, <3>1 DEF ClientMain, historyVars, Guard!vars
  <2>2. CASE ~sockEnv[proc[t]]
    <3>1. Guard!Vanish({t})
      BY <1>1, <1>a, <2>2, AssertEnds DEF ClientMain
    <3> QED
      BY <3>1 DEF Guard!Next
  <2> QED
    BY <2>1, <2>2
<1>2. ASSUME NEW t \in Thread, NEW a \in Addr, OnCall(t, a) PROVE Guard!Next
  <2>1. Guard!Enter(t, a) /\ a \in Guard!Frame
    BY <1>2, <1>b, <1>d DEF OnCall, Guard!Enter, Guard!Frame
  <2> QED
    BY <2>1 DEF Guard!Next
<1>3. ASSUME NEW t \in Thread, OnSignal(t) PROVE Guard!Next
  <2>1. Guard!Enter(t, WILDCARD) /\ WILDCARD \in Guard!Frame
    BY <1>3, <1>b, <1>d DEF OnSignal, Guard!Enter, Guard!Frame
  <2> QED
    BY <2>1 DEF Guard!Next
<1>4. ASSUME NEW t \in Thread, NEW a \in Addr, ReachRet(t, a) PROVE Guard!Next
  <2>1. Guard!Attempt(t, a)
    BY <1>4, <1>b, <1>d DEF ReachRet, Guard!Attempt
  <2> QED
    BY <2>1 DEF Guard!Next
<1>5. ASSUME NEW t \in Thread, OnRetPops(t) PROVE Guard!Next
  <2>1. Guard!Proceed(t)
    BY <1>5, <1>c, <1>d DEF OnRetPops, Front, Guard!Proceed
  <2> QED
    BY <2>1 DEF Guard!Next
<1>6. ASSUME NEW t \in Thread, OnRetReports(t) PROVE Guard!Next
  <2>1. /\ status'[t] = "terminating" /\ report'[t] \in {"empty", "mismatch"}
        /\ \A u \in Thread \ {t} : status'[u] = status[u] /\ report'[u] = report[u]
    BY <1>6, <1>a DEF OnRetReports, EnterTerminate, TypeOK
  <2>2. GuardState'[t] = "halted"
    BY <2>1, GuardStatesPrime DEF Reported
  <2>3. \A u \in Thread \ {t} : GuardState'[u] = GuardState[u]
    BY <1>a, <2>1, GuardStateStays DEF TypeOK
  <2>4. GuardState' = [GuardState EXCEPT ![t] = "halted"]
    BY <2>2, <2>3, GuardStateIsFunction
  <2>5. Guard!Halt(t)
    BY <1>6, <1>c, <2>4 DEF OnRetReports, historyVars, Guard!Halt
  <2> QED
    BY <2>5 DEF Guard!Next
<1>7. ASSUME NEW t \in Thread, TlsFails(t) PROVE Guard!Next
  <2>1. Guard!Vanish({t})
    BY <1>7, <1>a, AssertEnds DEF TlsFails
  <2> QED
    BY <2>1 DEF Guard!Next
<1>8. ASSUME NEW t \in Thread, PreExecve(t) PROVE Guard!Next
  <2>1. UNCHANGED GuardState
    BY <1>8, <1>a, GuardStateUnchanged DEF PreExecve, Executing, TypeOK
  <2>2. Guard!Forget(t)
    BY <1>8, <1>b, <2>1 DEF PreExecve, Guard!Forget
  <2> QED
    BY <2>2 DEF Guard!Next
<1>9. ASSUME NEW t \in Thread, ExecveFails(t) PROVE UNCHANGED Guard!vars
  <2>1. UNCHANGED GuardState
    BY <1>9, <1>a, GuardStateUnchanged DEF ExecveFails, TypeOK
  <2> QED
    BY <1>9, <2>1 DEF ExecveFails, historyVars, Guard!vars
<1>10. ASSUME NEW t \in Thread, NEW kept \in BOOLEAN, ExecveSucceeds(t, kept)
       PROVE  Guard!Next
  <2> DEFINE S == Siblings(t)
  <2>1. S \subseteq Thread /\ t \notin S
    BY DEF Siblings
  <2>2. GuardState[t] = "running" /\ GuardState'[t] = "running"
    BY <1>10, <1>a, GuardStates, GuardStatesPrime DEF ExecveSucceeds, TypeOK
  <2>3. \A u \in S : GuardState[u] # "unborn" /\ GuardState'[u] = "gone"
    BY <1>10, <1>a, <2>1, GuardStates, GuardStatesPrime
       DEF ExecveSucceeds, Siblings, Live, TypeOK, Statuses
  <2>4. \A u \in Thread \ (S \union {t}) : GuardState'[u] = GuardState[u]
    BY <1>10, <1>a, GuardStateStays DEF ExecveSucceeds, TypeOK
  <2>5. GuardState' = [u \in Thread |-> IF u \in S THEN "gone" ELSE GuardState[u]]
    BY <2>1, <2>2, <2>3, <2>4, GuardStateIsFunction
  <2>6. Guard!Exec(t, S)
    BY <1>10, <1>b, <2>1, <2>3, <2>5 DEF ExecveSucceeds, Guard!Exec
  <2> QED
    BY <2>1, <2>6 DEF Guard!Next
<1>11. ASSUME NEW t \in Thread, NEW c \in Children, Fork(t, c) PROVE Guard!Next
  <2>1. c \in Thread
    BY DEF Thread
  <2>2. GuardState[c] = "unborn" /\ GuardState'[c] = "running"
    BY <1>11, <1>a, <2>1, GuardStates, GuardStatesPrime DEF Fork, TypeOK
  <2>3. \A u \in Thread \ {c} : GuardState'[u] = GuardState[u]
    BY <1>11, <1>a, GuardStateStays DEF Fork, TypeOK
  <2>4. GuardState' = [GuardState EXCEPT ![c] = "running"]
    BY <2>2, <2>3, GuardStateIsFunction
  <2>5. Guard!Copy(t, c)
    BY <1>11, <1>b, <2>2, <2>4 DEF Fork, Guard!Copy
  <2> QED
    BY <2>1, <2>5 DEF Guard!Next
<1>12. ASSUME NEW t \in Thread, NEW w \in Workers, Clone(t, w) PROVE Guard!Next
  <2>1. w \in Thread
    BY DEF Thread
  <2>2. GuardState[w] = "unborn" /\ GuardState'[w] = "running"
    BY <1>12, <1>a, <2>1, GuardStates, GuardStatesPrime DEF Clone, TypeOK
  <2>3. \A u \in Thread \ {w} : GuardState'[u] = GuardState[u]
    BY <1>12, <1>a, GuardStateStays DEF Clone, TypeOK
  <2>4. GuardState' = [GuardState EXCEPT ![w] = "running"]
    BY <2>2, <2>3, GuardStateIsFunction
  <2>5. Guard!Spawn(w)
    BY <1>12, <2>2, <2>4 DEF Clone, historyVars, Guard!Spawn
  <2> QED
    BY <2>1, <2>5 DEF Guard!Next
<1>13. ASSUME NEW S \in SUBSET Thread, \A u \in S : Live(u) /\ status'[u] = "dead",
              \A u \in Thread \ S : status'[u] = status[u],
              UNCHANGED <<report, historyVars>>
       PROVE  Guard!Next
  <2>1. \A u \in S : GuardState[u] # "unborn" /\ GuardState'[u] = "gone"
    BY <1>13, <1>a, GuardStates, GuardStatesPrime DEF Live, TypeOK, Statuses
  <2>2. \A u \in Thread \ S : GuardState'[u] = GuardState[u]
    BY <1>13, <1>a, GuardStateStays DEF TypeOK
  <2>3. Guard!Vanish(S)
    BY <1>13, <1>a, <2>1, <2>2, Ending
  <2> QED
    BY <2>3 DEF Guard!Next
<1>14. ASSUME NEW t \in Thread, ThreadExit(t) PROVE Guard!Next
  <2> DEFINE S == {t}
  <2>1. S \in SUBSET Thread /\ \A u \in S : Live(u) /\ status'[u] = "dead"
    BY <1>14, <1>a DEF ThreadExit, Executing, Live, TypeOK
  <2>2. \A u \in Thread \ S : status'[u] = status[u]
    BY <1>14, <1>a DEF ThreadExit, TypeOK
  <2> HIDE DEF S
  <2> QED
    BY <1>13, <1>14, <2>1, <2>2 DEF ThreadExit
<1>15. ASSUME NEW t \in Thread, ExitProcess(t) PROVE Guard!Next
  <2> DEFINE S == Siblings(t) \union {t}
  <2>1. S \in SUBSET Thread /\ \A u \in S : Live(u) /\ status'[u] = "dead"
    BY <1>15, <1>a DEF ExitProcess, Siblings, Executing, Live, TypeOK
  <2>2. \A u \in Thread \ S : status'[u] = status[u]
    BY <1>15, <1>a DEF ExitProcess, TypeOK
  <2> HIDE DEF S
  <2> QED
    BY <1>13, <1>15, <2>1, <2>2 DEF ExitProcess
<1>16. ASSUME NEW t \in Thread, Reap(t) PROVE Guard!Next
  <2> DEFINE S == {u \in Thread : Live(u) /\ proc[u] = t}
  <2>1. S \in SUBSET Thread /\ \A u \in S : Live(u) /\ status'[u] = "dead"
    BY <1>16, <1>a DEF Reap, TypeOK
  <2>2. \A u \in Thread \ S : status'[u] = status[u]
    BY <1>16, <1>a DEF Reap, TypeOK
  <2> HIDE DEF S
  <2> QED
    BY <1>13, <1>16, <2>1, <2>2 DEF Reap
<1>17. ASSUME NEW t \in Thread, Setsid(t) PROVE UNCHANGED Guard!vars
  BY <1>17, <1>d DEF Setsid, historyVars, Guard!vars
<1>18. ASSUME NEW t \in Thread, Terminate(t) PROVE UNCHANGED Guard!vars
  <2>1. UNCHANGED GuardState
    BY <1>18, <1>a, GuardStateUnchanged DEF Terminate, TypeOK
  <2> QED
    BY <1>18, <2>1 DEF Terminate, historyVars, Guard!vars
<1>19. ASSUME UNCHANGED vars PROVE UNCHANGED Guard!vars
  BY <1>19, <1>d DEF vars, historyVars, Guard!vars
<1> QED
  BY <1>1, <1>2, <1>3, <1>4, <1>5, <1>6, <1>7, <1>8, <1>9, <1>10, <1>11,
     <1>12, <1>14, <1>15, <1>16, <1>17, <1>18, <1>19 DEF Next, Step

\* No return to a place other than the one the innermost remembered call
\* returns to is ever executed, no other return is ever stopped, and a thread
\* that was stopped never executes again, however the threads, forks, clones,
\* execves, signals and kills of the program interleave.
THEOREM InternalImplementsGuard == Spec => RefinesGuard
<1>1. Init => Guard!Init
  BY InitRefines
<1>2. IInv /\ [Next]_vars => [Guard!Next]_(Guard!vars)
  BY StepRefines
<1> QED
  BY <1>1, <1>2, InvCorrect, PTL DEF Spec, RefinesGuard, Guard!Spec
=============================================================================
