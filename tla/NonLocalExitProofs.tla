------------------------- MODULE NonLocalExitProofs -------------------------
(***************************************************************************)
(* Programs that jump out of their calls, for any number of threads, any   *)
(* depth and any jumps: the open calls stay on the shadow stack, and only  *)
(* a jump makes on_ret refuse a right return or allow a wrong one.         *)
(*                                                                         *)
(* InternalSS does not move when a thread jumps, so its theorems hold of   *)
(* JumpSpec as well.  What remains is how live sits in frames: every push  *)
(* extends both, every pop shortens both, and a jump shortens live only.   *)
(***************************************************************************)
EXTENDS NonLocalExit, InternalSSProofs

-----------------------------------------------------------------------------
(* Sequences with elements left out. *)

LEMMA EmbedsEmpty == ASSUME NEW r PROVE Embeds(<<>>, r)
<1> DEFINE g == [i \in 1 .. 0 |-> 1]
<1>1. g \in [1 .. 0 -> 1 .. Len(r)]
  OBVIOUS
<1> HIDE DEF g
<1>2. /\ \A i, j \in 1 .. 0 : i < j => g[i] < g[j]
      /\ \A i \in 1 .. 0 : <<>>[i] = r[g[i]]
  OBVIOUS
<1>3. Len(<<>>) = 0
  OBVIOUS
<1>4. \E f \in [1 .. 0 -> 1 .. Len(r)] :
         /\ \A i, j \in 1 .. 0 : i < j => f[i] < f[j]
         /\ \A i \in 1 .. 0 : <<>>[i] = r[f[i]]
  BY <1>1, <1>2
<1> QED
  BY <1>3, <1>4 DEF Embeds

\* A push on both.
LEMMA EmbedsAppend ==
    ASSUME NEW S, NEW s \in Seq(S), NEW r \in Seq(S), NEW x \in S, Embeds(s, r)
    PROVE  Embeds(Append(s, x), Append(r, x))
<1> DEFINE n == Len(s)
           m == Len(r)
<1>0. n \in Nat /\ m \in Nat
  BY LenProperties
<1>1. PICK f \in [1 .. n -> 1 .. m] :
         /\ \A i, j \in 1 .. n : i < j => f[i] < f[j]
         /\ \A i \in 1 .. n : s[i] = r[f[i]]
  BY DEF Embeds
<1>2. /\ Len(Append(s, x)) = n + 1
      /\ \A i \in 1 .. n : Append(s, x)[i] = s[i]
      /\ Append(s, x)[n + 1] = x
  BY PushFacts
<1>3. /\ Len(Append(r, x)) = m + 1
      /\ \A i \in 1 .. m : Append(r, x)[i] = r[i]
      /\ Append(r, x)[m + 1] = x
  BY PushFacts
<1> DEFINE g == [i \in 1 .. n + 1 |-> IF i = n + 1 THEN m + 1 ELSE f[i]]
<1> HIDE DEF n, m
<1>4. g \in [1 .. n + 1 -> 1 .. m + 1]
  BY <1>0, <1>1
<1>5. \A i, j \in 1 .. n + 1 : i < j => g[i] < g[j]
  BY <1>0, <1>1
<1>6. \A i \in 1 .. n + 1 : Append(s, x)[i] = Append(r, x)[g[i]]
  <2> TAKE i \in 1 .. n + 1
  <2>1. CASE i = n + 1
    BY <1>0, <1>2, <1>3, <2>1
  <2>2. CASE i # n + 1
    <3>1. i \in 1 .. n /\ g[i] = f[i] /\ f[i] \in 1 .. m
      BY <1>0, <1>1, <2>2
    <3> HIDE DEF g
    <3> QED
      BY <1>1, <1>2, <1>3, <3>1
  <2> QED
    BY <2>1, <2>2
<1> HIDE DEF g
<1> QED
  BY <1>2, <1>3, <1>4, <1>5, <1>6 DEF Embeds

\* A prefix of what is embedded is.
LEMMA EmbedsPrefix ==
    ASSUME NEW S, NEW s \in Seq(S), NEW r \in Seq(S), Embeds(s, r),
           NEW n \in 0 .. Len(s)
    PROVE  /\ SubSeq(s, 1, n) \in Seq(S)
           /\ Embeds(SubSeq(s, 1, n), r)
<1> DEFINE p == SubSeq(s, 1, n)
<1>0. Len(s) \in Nat /\ n \in Nat /\ n <= Len(s)
  BY LenProperties
<1>1. PICK f \in [1 .. Len(s) -> 1 .. Len(r)] :
         /\ \A i, j \in 1 .. Len(s) : i < j => f[i] < f[j]
         /\ \A i \in 1 .. Len(s) : s[i] = r[f[i]]
  BY DEF Embeds
<1>2. p \in Seq(S) /\ Len(p) = n /\ \A i \in 1 .. n : p[i] = s[i]
  <2>1. \A i \in 1 .. n : s[i] \in S
    BY <1>0, ElementOfSeq
  <2>2. /\ p \in Seq(S)
        /\ Len(p) = IF 1 <= n THEN n - 1 + 1 ELSE 0
        /\ \A i \in 1 .. n - 1 + 1 : p[i] = s[1 + i - 1]
    BY <1>0, <2>1, SubSeqProperties
  <2> HIDE DEF p
  <2> QED
    BY <1>0, <2>2
<1> HIDE DEF p
<1> DEFINE g == [i \in 1 .. n |-> f[i]]
<1>3. \A i \in 1 .. n : i \in 1 .. Len(s)
  BY <1>0
<1>4. \A i \in 1 .. n : f[i] \in 1 .. Len(r)
  BY <1>1, <1>3
<1>5. /\ g \in [1 .. n -> 1 .. Len(r)]
      /\ \A i \in 1 .. n : g[i] = f[i] /\ i \in 1 .. Len(s)
  BY <1>3, <1>4
<1> HIDE DEF g
<1>6. /\ \A i, j \in 1 .. n : i < j => g[i] < g[j]
      /\ \A i \in 1 .. n : p[i] = r[g[i]]
  BY <1>1, <1>2, <1>5
<1>7. Embeds(p, r)
  BY <1>2, <1>5, <1>6 DEF Embeds
<1> QED
  BY <1>2, <1>7 DEF p

\* What does not end like r is embedded in r without its last element.
LEMMA EmbedsSkip ==
    ASSUME NEW S, NEW s \in Seq(S), NEW r \in Seq(S), Embeds(s, r),
           s # <<>>, Last(s) # Last(r)
    PROVE  Embeds(s, Front(r))
<1> DEFINE n == Len(s)
           m == Len(r)
<1>1. PICK f \in [1 .. n -> 1 .. m] :
         /\ \A i, j \in 1 .. n : i < j => f[i] < f[j]
         /\ \A i \in 1 .. n : s[i] = r[f[i]]
  BY DEF Embeds
<1>2. n \in Nat \ {0} /\ Last(s) = s[n]
  BY PopFacts
<1>3. m \in Nat /\ f[n] \in 1 .. m
  BY <1>1, <1>2, LenProperties
<1>4. r # <<>>
  BY <1>3, EmptySeq
<1>5. /\ Last(r) = r[m] /\ Len(Front(r)) = m - 1
      /\ \A i \in 1 .. m - 1 : Front(r)[i] = r[i]
  BY <1>4, PopFacts
<1> HIDE DEF n, m
<1>6. f[n] # m
  BY <1>1, <1>2, <1>5
<1>7. \A i \in 1 .. n : f[i] \in 1 .. m - 1
  BY <1>1, <1>2, <1>3, <1>6
<1>8. f \in [1 .. n -> 1 .. m - 1]
  BY <1>1, <1>7
<1>9. \A i \in 1 .. n : s[i] = Front(r)[f[i]]
  BY <1>1, <1>5, <1>7
<1> QED
  BY <1>1, <1>5, <1>8, <1>9 DEF Embeds, n

\* A pop of both.
LEMMA EmbedsFront ==
    ASSUME NEW S, NEW s \in Seq(S), NEW r \in Seq(S), Embeds(s, r), s # <<>>
    PROVE  r # <<>> /\ Front(s) \in Seq(S) /\ Embeds(Front(s), Front(r))
<1> DEFINE n == Len(s)
           m == Len(r)
<1>1. PICK f \in [1 .. n -> 1 .. m] :
         /\ \A i, j \in 1 .. n : i < j => f[i] < f[j]
         /\ \A i \in 1 .. n : s[i] = r[f[i]]
  BY DEF Embeds
<1>2. /\ n \in Nat \ {0} /\ Front(s) \in Seq(S) /\ Len(Front(s)) = n - 1
      /\ \A i \in 1 .. n - 1 : Front(s)[i] = s[i]
  BY PopFacts
<1>3. m \in Nat /\ f[n] \in 1 .. m
  BY <1>1, <1>2, LenProperties
<1>4. r # <<>>
  BY <1>3, EmptySeq
<1>5. Len(Front(r)) = m - 1 /\ \A i \in 1 .. m - 1 : Front(r)[i] = r[i]
  BY <1>4, PopFacts
<1> DEFINE g == [i \in 1 .. n - 1 |-> f[i]]
<1> HIDE DEF n, m
<1>6. \A i \in 1 .. n - 1 : f[i] \in 1 .. m - 1
  BY <1>1, <1>2, <1>3
<1>7. /\ g \in [1 .. n - 1 -> 1 .. m - 1]
      /\ \A i, j \in 1 .. n - 1 : i < j => g[i] < g[j]
  BY <1>1, <1>2, <1>6
<1>8. \A i \in 1 .. n - 1 : Front(s)[i] = Front(r)[g[i]]
  <2> TAKE i \in 1 .. n - 1
  <2>1. Front(s)[i] = s[i] /\ g[i] = f[i] /\ i \in 1 .. n
    BY <1>2
  <2>2. s[i] = r[f[i]] /\ f[i] \in 1 .. m - 1
    BY <1>1, <1>6, <2>1
  <2> HIDE DEF g
  <2> QED
    BY <1>5, <2>1, <2>2
<1> HIDE DEF g
<1>9. Embeds(Front(s), Front(r))
  BY <1>2, <1>5, <1>7, <1>8 DEF Embeds
<1> QED
  BY <1>2, <1>4, <1>9
-----------------------------------------------------------------------------
(* Jumps are steps the client does not see. *)

LEMMA JumpNextIsNext == [JumpNext]_jumpVars => [Next]_vars
<1> SUFFICES ASSUME [JumpNext]_jumpVars PROVE [Next]_vars
  OBVIOUS
<1>1. CASE UNCHANGED jumpVars
  BY <1>1 DEF jumpVars
<1>2. ASSUME NEW t \in Thread, JumpStep(t) PROVE [Next]_vars
  BY <1>2 DEF JumpStep, Longjmp, Next, Step
<1>3. ASSUME NEW t \in Thread, Reap(t) PROVE [Next]_vars
  BY <1>3 DEF Next
<1> QED
  BY <1>1, <1>2, <1>3 DEF JumpNext

\* Every execution of a program that jumps is an execution of InternalSS: all
\* theorems about Spec hold of it.
THEOREM JumpsUnseen == JumpSpec => Spec
<1>1. JumpInit => Init
  BY DEF JumpInit
<1> QED
  BY <1>1, JumpNextIsNext, PTL DEF JumpSpec, Spec

-----------------------------------------------------------------------------
(* The open calls are among the calls no return was taken for. *)

LiveOK ==
    /\ live \in [Thread -> Seq(Frame)]
    /\ \A t \in Thread : Embeds(live[t], frames[t])

LEMMA InitLive == JumpInit => LiveOK
<1> SUFFICES ASSUME JumpInit PROVE LiveOK
  OBVIOUS
<1>1. live = [t \in Thread |-> <<>>]
  BY DEF JumpInit
<1>2. <<>> \in Seq(Frame)
  BY EmptySeq
<1> QED
  BY <1>1, <1>2, EmbedsEmpty DEF LiveOK

\* A step that changes both sequences of one thread only.
LEMMA LiveChanges ==
    ASSUME LiveOK, TypeOK, NEW t \in Thread, NEW s \in Seq(Frame), NEW r,
           live' = [live EXCEPT ![t] = s], frames' = [frames EXCEPT ![t] = r],
           Embeds(s, r)
    PROVE  LiveOK'
<1>1. live' \in [Thread -> Seq(Frame)]
  BY DEF LiveOK
<1>2. ASSUME NEW u \in Thread PROVE Embeds(live'[u], frames'[u])
  <2>1. CASE u = t
    <3>1. live'[u] = s /\ frames'[u] = r
      BY <2>1 DEF LiveOK, TypeOK
    <3> QED
      BY <3>1
  <2>2. CASE u # t
    <3>1. live'[u] = live[u] /\ frames'[u] = frames[u]
      BY <2>2 DEF LiveOK, TypeOK
    <3> QED
      BY <3>1 DEF LiveOK
  <2> QED
    BY <2>1, <2>2
<1> QED
  BY <1>1, <1>2 DEF LiveOK

LEMMA StepLive == TypeOK /\ Lockstep /\ LiveOK /\ [JumpNext]_jumpVars => LiveOK'
<1> SUFFICES ASSUME TypeOK, Lockstep, LiveOK, [JumpNext]_jumpVars PROVE LiveOK'
  OBVIOUS
<1>0. ASSUME frames' = frames, live' = live PROVE LiveOK'
  BY <1>0 DEF LiveOK
<1>1. CASE UNCHANGED jumpVars
  BY <1>0, <1>1 DEF jumpVars, vars, historyVars
<1>2. ASSUME NEW t \in Thread, Reap(t), live' = live PROVE LiveOK'
  BY <1>0, <1>2 DEF Reap, historyVars
<1>3. ASSUME NEW t \in Thread, JumpStep(t) PROVE LiveOK'
  <2>0. /\ live[t] \in Seq(Frame) /\ frames[t] \in Seq(Frame)
        /\ Embeds(live[t], frames[t])
    BY DEF LiveOK, TypeOK
  <2>1. ASSUME NEW f \in Frame, Enters(t, f),
               frames' = [frames EXCEPT ![t] = Append(@, f)]
        PROVE  LiveOK'
    <3>1. Append(live[t], f) \in Seq(Frame)
      BY <2>0, PushFacts
    <3>2. Embeds(Append(live[t], f), Append(frames[t], f))
      BY <2>0, EmbedsAppend
    <3> QED
      BY <2>1, <3>1, <3>2, LiveChanges DEF Enters
  <2>2. ASSUME NEW a \in Addr, OnCall(t, a), Enters(t, a) PROVE LiveOK'
    BY <2>1, <2>2 DEF OnCall, Frame
  <2>3. CASE OnSignal(t) /\ Enters(t, WILDCARD)
    BY <2>1, <2>3 DEF OnSignal, Frame
  <2>4. CASE OnRetPops(t) /\ Leaves(t)
    <3>1. frames' = [frames EXCEPT ![t] = Front(@)]
      BY <2>4 DEF OnRetPops
    <3>2. CASE live[t] = <<>>
      <4>1. live' = [live EXCEPT ![t] = <<>>]
        BY <2>4, <3>2 DEF Leaves
      <4>2. <<>> \in Seq(Frame) /\ Embeds(<<>>, Front(frames[t]))
        BY EmptySeq, EmbedsEmpty
      <4> QED
        BY <3>1, <4>1, <4>2, LiveChanges
    <3>3. CASE live[t] # <<>>
      <4>1. live' = [live EXCEPT ![t] = Front(live[t])]
        BY <2>4, <3>3 DEF Leaves
      <4>2. Front(live[t]) \in Seq(Frame) /\ Embeds(Front(live[t]), Front(frames[t]))
        BY <2>0, <3>3, EmbedsFront
      <4> QED
        BY <3>1, <4>1, <4>2, LiveChanges
    <3> QED
      BY <3>2, <3>3
  <2>5. ASSUME NEW kept \in BOOLEAN, ExecveSucceeds(t, kept),
               live' = [live EXCEPT ![t] = <<>>]
        PROVE  LiveOK'
    <3>1. frames' = [frames EXCEPT ![t] = <<>>]
      BY <2>5 DEF ExecveSucceeds
    <3>2. <<>> \in Seq(Frame) /\ Embeds(<<>>, <<>>)
      BY EmptySeq, EmbedsEmpty
    <3> QED
      BY <2>5, <3>1, <3>2, LiveChanges
  <2>6. ASSUME NEW c \in Children, Fork(t, c),
               live' = [live EXCEPT ![c] = live[t]]
        PROVE  LiveOK'
    <3>1. frames' = [frames EXCEPT ![c] = frames[t]] /\ c \in Thread
      BY <2>6 DEF Fork, Thread
    <3> QED
      BY <2>0, <2>6, <3>1, LiveChanges
  <2>7. CASE Step(t) /\ frames' = frames /\ live' = live
    BY <1>0, <2>7
  <2>8. ASSUME NEW n \in 0 .. Len(live[t]), Longjmp(t, n) PROVE LiveOK'
    <3>1. /\ live' = [live EXCEPT ![t] = SubSeq(live[t], 1, n)]
          /\ frames' = frames
      BY <2>8 DEF Longjmp, vars, historyVars
    <3>2. frames' = [frames EXCEPT ![t] = frames[t]]
      BY <3>1 DEF TypeOK
    <3>3. /\ SubSeq(live[t], 1, n) \in Seq(Frame)
          /\ Embeds(SubSeq(live[t], 1, n), frames[t])
      BY <2>0, EmbedsPrefix
    <3> QED
      BY <3>1, <3>2, <3>3, LiveChanges
  <2> QED
    BY <1>3, <2>2, <2>3, <2>4, <2>5, <2>6, <2>7, <2>8 DEF JumpStep
<1> QED
  BY <1>1, <1>2, <1>3 DEF JumpNext

\* What the client keeps and what it was made to forget are, together, the
\* calls no return was taken for.
LEMMA KeptIsFrames ==
    ASSUME TypeOK, Lockstep, NEW t \in Thread,
           status[t] \in {"running", "execing"}
    PROVE  Kept(t) = frames[t]
<1> DEFINE n == lost[t]
           F == frames[t]
           P == SubSeq(F, 1, n)
           s == shadow[t]
<1>1. /\ F \in Seq(Frame) /\ s \in Seq(Frame) /\ n \in Nat
      /\ Len(F) = n + Len(s)
      /\ \A i \in 1 .. Len(s) : s[i] = F[n + i]
  BY LockstepIsAligned DEF TypeOK, InLockstep, Aligned
<1>2. Len(F) \in Nat /\ Len(s) \in Nat
  BY <1>1, LenProperties
<1>3. P \in Seq(Frame) /\ Len(P) = n /\ \A i \in 1 .. n : P[i] = F[i]
  <2>1. \A i \in 1 .. n : F[i] \in Frame
    BY <1>1, <1>2, ElementOfSeq
  <2>2. /\ P \in Seq(Frame)
        /\ Len(P) = IF 1 <= n THEN n - 1 + 1 ELSE 0
        /\ \A i \in 1 .. n - 1 + 1 : P[i] = F[1 + i - 1]
    BY <1>1, <2>1, SubSeqProperties
  <2> HIDE DEF P, n, F
  <2> QED
    BY <1>1, <2>2
<1> HIDE DEF P, n, F, s
<1>4. /\ P \o s \in Seq(Frame)
      /\ Len(P \o s) = Len(P) + Len(s)
      /\ \A i \in 1 .. Len(P) + Len(s) :
            (P \o s)[i] = IF i <= Len(P) THEN P[i] ELSE s[i - Len(P)]
  BY <1>1, <1>3, ConcatProperties
<1>5. Len(P \o s) = Len(F)
  BY <1>1, <1>3, <1>4
<1>6. ASSUME NEW i \in 1 .. Len(F) PROVE (P \o s)[i] = F[i]
  <2>1. CASE i <= n
    BY <1>1, <1>2, <1>3, <1>4, <1>6, <2>1
  <2>2. CASE i > n
    <3>1. (P \o s)[i] = s[i - n] /\ i - n \in 1 .. Len(s)
      BY <1>1, <1>2, <1>3, <1>4, <1>6, <2>2
    <3>2. n + (i - n) = i
      BY <1>1, <1>2
    <3>3. s[i - n] = F[n + (i - n)]
      BY <1>1, <3>1
    <3> QED
      BY <3>1, <3>2, <3>3
  <2>3. i <= n \/ i > n
    BY <1>1, <1>2
  <2> QED
    BY <2>1, <2>2, <2>3
<1>7. P \o s = F
  BY <1>1, <1>4, <1>5, <1>6, SeqEqual
<1> QED
  BY <1>7 DEF P, F, s, n, Kept

LEMMA LiveIsKept == TypeOK /\ Lockstep /\ LiveOK => OpenCallsKept
  BY KeptIsFrames DEF LiveOK, OpenCallsKept

\* No call is lost, whatever jumps, signals, returns, forks and execves do.
THEOREM OpenCallsCorrect == JumpSpec => []OpenCallsKept
  BY InitType, StepType, InitLockstep, StepFresh, StepLockstep, InitLive, StepLive,
     LiveIsKept, JumpNextIsNext, PTL DEF JumpSpec, JumpInit

-----------------------------------------------------------------------------
(* What a jump does to the verdict of on_ret. *)

\* When the verdict on the return of a running thread is not the right one,
\* the top of what is kept belongs to an abandoned call.
LEMMA VerdictNeedsJump ==
    ASSUME TypeOK, LiveOK, NEW t \in Thread,
           Honest(t) # (Last(frames[t]) \in {goal[t], WILDCARD}),
           live[t] # <<>>
    PROVE  TopAbandoned(t)
<1>1. /\ live[t] \in Seq(Frame) /\ frames[t] \in Seq(Frame)
      /\ Embeds(live[t], frames[t])
  BY DEF LiveOK, TypeOK
<1>2. Last(live[t]) # Last(frames[t])
  BY DEF Honest
<1> QED
  BY <1>1, <1>2, EmbedsSkip DEF TopAbandoned

\* An open call is a call no return was taken for.
LEMMA HonestHasFrame ==
    ASSUME TypeOK, LiveOK, NEW t \in Thread, Honest(t)
    PROVE  frames[t] # <<>> /\ Len(frames[t]) > 0
<1>1. /\ live[t] \in Seq(Frame) /\ frames[t] \in Seq(Frame)
      /\ Embeds(live[t], frames[t]) /\ live[t] # <<>>
  BY DEF LiveOK, TypeOK, Honest
<1>2. frames[t] # <<>>
  BY <1>1, EmbedsFront
<1> QED
  BY <1>1, <1>2, PopFacts

\* Nobody enters or leaves a call in the name of a thread that is stopped.
LEMMA StoppedLive ==
    ASSUME TypeOK, LiveOK, [JumpNext]_jumpVars, NEW u \in Thread, Stopped(u)
    PROVE  live'[u] = live[u]
<1> USE DEF LiveOK, Stopped
<1>1. CASE live' = live
  BY <1>1
<1>2. ASSUME NEW t \in Thread, status[t] \in {"running", "execing"},
             NEW s, live' = [live EXCEPT ![t] = s]
      PROVE  live'[u] = live[u]
  BY <1>2
<1>3. ASSUME NEW t \in Thread, NEW c \in Children, Fork(t, c),
             live' = [live EXCEPT ![c] = live[t]]
      PROVE  live'[u] = live[u]
  BY <1>3 DEF Fork
<1>4. ASSUME NEW t \in Thread, JumpStep(t) PROVE live'[u] = live[u]
  <2>1. ASSUME NEW f, Enters(t, f), status[t] = "running" PROVE live'[u] = live[u]
    BY <1>2, <2>1 DEF Enters
  <2>2. CASE OnRetPops(t) /\ Leaves(t)
    BY <1>2, <2>2 DEF OnRetPops, Leaves
  <2>3. ASSUME NEW kept \in BOOLEAN, ExecveSucceeds(t, kept),
               live' = [live EXCEPT ![t] = <<>>]
        PROVE  live'[u] = live[u]
    BY <1>2, <2>3 DEF ExecveSucceeds
  <2>4. ASSUME NEW n \in 0 .. Len(live[t]), Longjmp(t, n) PROVE live'[u] = live[u]
    BY <1>2, <2>4 DEF Longjmp, Executing
  <2> QED
    BY <1>1, <1>3, <1>4, <2>1, <2>2, <2>3, <2>4
       DEF JumpStep, OnCall, OnSignal, Executing
<1> QED
  BY <1>1, <1>4 DEF JumpNext, jumpVars

\* Neither does the thread that is being stopped.
LEMMA StopKeepsLive ==
    ASSUME TypeOK, LiveOK, [JumpNext]_jumpVars, NEW u \in Thread,
           status[u] = "running", status'[u] = "terminating"
    PROVE  live'[u] = live[u]
<1> USE DEF LiveOK, TypeOK
<1>1. CASE live' = live
  BY <1>1
<1>2. ASSUME status' = status PROVE FALSE
  BY <1>2
<1>3. ASSUME NEW t \in Thread, NEW kept \in BOOLEAN, ExecveSucceeds(t, kept)
      PROVE  FALSE
  BY <1>3 DEF ExecveSucceeds
<1>4. ASSUME NEW t \in Thread, NEW c \in Children, Fork(t, c) PROVE FALSE
  BY <1>4 DEF Fork
<1>5. ASSUME NEW t \in Thread, JumpStep(t) PROVE live'[u] = live[u]
  BY <1>1, <1>2, <1>3, <1>4, <1>5
     DEF JumpStep, OnCall, OnSignal, OnRetPops, Longjmp, vars
<1> QED
  BY <1>1, <1>5 DEF JumpNext, jumpVars

LEMMA StepHonestReport ==
    ASSUME TypeOK, Lockstep, ReportedStopped, LiveOK, HonestReportNeedsJump,
           [JumpNext]_jumpVars
    PROVE  HonestReportNeedsJump'
<1>0. [Next]_vars
  BY JumpNextIsNext
<1> SUFFICES ASSUME NEW u \in Thread, Reported(u)', Honest(u)'
             PROVE  IF report'[u] = "empty" THEN lost'[u] > 0
                                            ELSE TopAbandoned(u)'
  BY DEF HonestReportNeedsJump
<1>1. CASE Reported(u)
  <2>1. Stopped(u)
    BY <1>1 DEF ReportedStopped
  <2>2. /\ report'[u] = report[u] /\ frames'[u] = frames[u]
        /\ lost'[u] = lost[u] /\ goal'[u] = goal[u] /\ live'[u] = live[u]
    BY <1>0, <2>1, StoppedStays, StoppedLive
  <2>3. Honest(u)
    BY <2>2 DEF Honest
  <2>4. IF report[u] = "empty" THEN lost[u] > 0 ELSE TopAbandoned(u)
    BY <1>1, <2>3 DEF HonestReportNeedsJump
  <2> QED
    BY <2>2, <2>4 DEF TopAbandoned
<1>2. CASE ~Reported(u)
  <2>1. OnRetReports(u)
    BY <1>0, <1>2, NewReport
  <2>2. /\ status[u] = "running" /\ ~TopAllows(u)
        /\ report'[u] = IF shadow[u] = <<>> THEN "empty" ELSE "mismatch"
        /\ frames' = frames /\ lost' = lost /\ goal' = goal
    BY <2>1 DEF OnRetReports, EnterTerminate, historyVars, TypeOK
  <2>3. live'[u] = live[u]
    <3>1. status'[u] = "terminating" /\ status[u] = "running"
      BY <2>1 DEF OnRetReports, EnterTerminate, TypeOK
    <3> QED
      BY <3>1, StopKeepsLive
  <2>4. Honest(u)
    BY <2>2, <2>3 DEF Honest
  <2>5. /\ TopAllows(u) <=> /\ Len(frames[u]) > lost[u]
                            /\ Last(frames[u]) \in {goal[u], WILDCARD}
        /\ Len(frames[u]) \in Nat /\ lost[u] \in Nat
        /\ Len(frames[u]) >= lost[u]
    BY <2>2, TopIsInnermost
  <2>6. CASE shadow[u] = <<>>
    <3>1. Len(frames[u]) = lost[u]
      <4>1. Kept(u) = frames[u] /\ Len(frames[u]) = lost[u] + Len(shadow[u])
        BY <2>2, KeptIsFrames DEF Lockstep
      <4>2. Len(shadow[u]) = 0
        BY <2>6
      <4> QED
        BY <2>5, <4>1, <4>2
    <3>2. Len(frames[u]) > 0
      BY <2>4, HonestHasFrame
    <3> QED
      BY <2>2, <2>5, <2>6, <3>1, <3>2
  <2>7. CASE shadow[u] # <<>>
    <3>1. Len(frames[u]) > lost[u]
      <4>1. Len(frames[u]) = lost[u] + Len(shadow[u]) /\ shadow[u] \in Seq(Frame)
        BY <2>2 DEF Lockstep, TypeOK
      <4>2. Len(shadow[u]) \in Nat \ {0}
        BY <2>7, <4>1, EmptySeq
      <4> QED
        BY <2>5, <4>1, <4>2
    <3>2. Last(frames[u]) \notin {goal[u], WILDCARD}
      BY <2>2, <2>5, <3>1
    <3>3. TopAbandoned(u)
      BY <2>4, <3>2, VerdictNeedsJump DEF Honest
    <3> QED
      BY <2>2, <2>3, <2>7, <3>3 DEF TopAbandoned
  <2> QED
    BY <2>6, <2>7
<1> QED
  BY <1>1, <1>2

\* Whatever threads jump, fork, exec or die, on_ret stops a thread that returns
\* correctly only where a jump or an execve attempt misled it.
THEOREM HonestReportCorrect == JumpSpec => []HonestReportNeedsJump
<1>1. JumpInit => HonestReportNeedsJump
  BY DEF JumpInit, Init, HonestReportNeedsJump, Reported
<1> QED
  BY <1>1, InitType, StepType, InitLockstep, StepFresh, StepLockstep, InitReports,
     StepReports, InitLive, StepLive, JumpNextIsNext, StepHonestReport, PTL
     DEF JumpSpec, JumpInit

\* A return that has been decided, and did not stop its thread, was popped.
LEMMA ReturnIsPop ==
    ASSUME TypeOK, [Next]_vars, NEW u \in Thread,
           goal[u] # NoAddr, goal'[u] = NoAddr
    PROVE  OnRetPops(u)
<1> USE DEF TypeOK
<1>1. ASSUME NEW t \in Thread, NEW a \in Addr, ReachRet(t, a) PROVE FALSE
  BY <1>1, AddrAssumption DEF ReachRet
<1>2. ASSUME NEW t \in Thread, OnRetPops(t) PROVE t = u
  BY <1>2 DEF OnRetPops
<1>3. ASSUME goal' = goal PROVE FALSE
  BY <1>3
<1> QED
  BY <1>1, <1>2, <1>3
     DEF Next, Step, vars, historyVars, ClientMain, OnCall, OnSignal, OnRetReports,
         TlsFails, PreExecve, ExecveFails, ExecveSucceeds, Fork, Clone, ThreadExit,
         ExitProcess, Setsid, Terminate, Reap

LEMMA StepWrongReturn ==
    ASSUME TypeOK, Lockstep, LiveOK, [JumpNext]_jumpVars, NEW t \in Thread,
           status[t] = "running", goal[t] # NoAddr, goal'[t] = NoAddr
    PROVE  Honest(t) \/ TopAbandoned(t)
<1>1. Last(frames[t]) \in {goal[t], WILDCARD}
  <2>1. TopAllows(t)
    BY JumpNextIsNext, ReturnIsPop DEF OnRetPops
  <2> QED
    BY <2>1, TopIsInnermost
<1>2. CASE live[t] = <<>>
  BY <1>2, EmbedsEmpty DEF TopAbandoned
<1>3. CASE live[t] # <<>>
  BY <1>1, <1>3, VerdictNeedsJump
<1> QED
  BY <1>2, <1>3

\* on_ret lets a wrong return through only where a jump left its target, or a
\* wildcard, on the top.
THEOREM WrongReturnCorrect == JumpSpec => WrongReturnNeedsJump
<1>1. TypeOK /\ Lockstep /\ LiveOK /\ [JumpNext]_jumpVars =>
         [\A t \in Thread :
             /\ status[t] = "running" /\ status'[t] = "running"
             /\ goal[t] # NoAddr /\ goal'[t] = NoAddr
             => Honest(t) \/ TopAbandoned(t)]_jumpVars
  BY StepWrongReturn
<1> QED
  BY <1>1, InitType, StepType, InitLockstep, StepFresh, StepLockstep, InitLive,
     StepLive, JumpNextIsNext, PTL DEF JumpSpec, JumpInit, WrongReturnNeedsJump
=============================================================================
