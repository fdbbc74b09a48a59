------------------------- MODULE TerminationProofs -------------------------
(***************************************************************************)
(* For any set of threads, any number of signals and any failure:          *)
(* Group::terminate does not recurse without bound, does not try again to  *)
(* print what it failed to print, and leads nowhere but to killpg, unless  *)
(* the process is ended by a sibling or a signal on the way.               *)
(*                                                                         *)
(* The bounds are not inductive: whether one more activation is harmless   *)
(* depends on what the flag says of the ones before it.  Bound(t) says     *)
(* how far each place may be from the number of signals.                   *)
(***************************************************************************)
EXTENDS Termination, TLAPS

\* What t's place and the flag say of the activations t is in.
Bound(t) ==
    /\ depth[t] <= signals[t] + 2
    /\ pc[t] = "run" => depth[t] = 0
    /\ pc[t] \in {"run", "report", "err"} => depth[t] <= signals[t]
    /\ pc[t] \in {"handler", "mark", "print"} => depth[t] <= signals[t] + 1
    /\ pc[t] \in {"print", "flush", "kill", "spin"} => flag
    /\ ~flag /\ pc[t] = "handler" => depth[t] <= signals[t]
    /\ ~flag /\ pc[t] = "enter" => depth[t] <= signals[t] + 1

IInv == TypeOK /\ \A t \in Thread : Bound(t)

\* Type correctness.
THEOREM TypeCorrect == Spec => []TypeOK
<1>1. Init => TypeOK
  <2> SUFFICES ASSUME Init PROVE TypeOK
    OBVIOUS
  <2>1. /\ msg \in [Thread -> BOOLEAN]
        /\ flag \in BOOLEAN /\ multi \in BOOLEAN /\ killed \in BOOLEAN
        /\ client \in BOOLEAN /\ struck \in BOOLEAN
    BY Zenon DEF Init
  <2>2. /\ pc \in [Thread -> Places]
        /\ todo \in [Thread -> Seq(Lines)]
        /\ depth \in [Thread -> Nat]
        /\ signals \in [Thread -> 0 .. MaxSignals]
    BY SignalAssumption DEF Init, Places, Lines
  <2> QED
    BY <2>1, <2>2 DEF TypeOK
<1>2. TypeOK /\ [Next]_vars => TypeOK'
  <2> SUFFICES ASSUME TypeOK, [Next]_vars PROVE TypeOK'
    OBVIOUS
  <2> USE SignalAssumption DEF TypeOK
  <2>1. CASE UNCHANGED vars
    BY <2>1 DEF vars
  <2>0. CASE EnablesTids
    BY <2>0 DEF EnablesTids
  <2>3. CASE IsStruck
    BY <2>3 DEF IsStruck, Places
  <2>2. ASSUME NEW t \in Thread, Step(t) PROVE TypeOK'
    <3>1. CASE Fails(t)
      BY <3>1 DEF Fails, Places, Lines
    <3>2. ASSUME NEW m \in BOOLEAN, Terminates(t, m) PROVE TypeOK'
      BY <3>2 DEF Terminates, Call, Places, Lines
    <3>3. CASE Signal(t)
      BY <3>3 DEF Signal, Places, Lines
    <3>4. CASE TidFails(t)
      <4>1. /\ msg' \in [Thread -> BOOLEAN]
            /\ flag' \in BOOLEAN /\ multi' \in BOOLEAN /\ killed' \in BOOLEAN
            /\ client' \in BOOLEAN /\ struck' \in BOOLEAN
        BY <3>4, Zenon DEF TidFails, Call
      <4>2. /\ pc' \in [Thread -> Places]
            /\ todo' \in [Thread -> Seq(Lines)]
            /\ depth' \in [Thread -> Nat]
            /\ signals' \in [Thread -> 0 .. MaxSignals]
        BY <3>4 DEF TidFails, Call, Places, Lines
      <4> QED
        BY <4>1, <4>2
    <3>5. CASE WriteFails(t)
      BY <3>5 DEF WriteFails, Call, Places, Lines
    <3>6. CASE LogsThenTerminates(t)
      BY <3>6 DEF LogsThenTerminates, Call, Places
    <3>7. CASE TestFlag(t)
      BY <3>7 DEF TestFlag, Places
    <3>8. CASE SetFlag(t)
      BY <3>8 DEF SetFlag, Places
    <3>9. CASE Prints(t)
      BY <3>9 DEF Prints, Places
    <3>10. CASE Flushes(t)
      BY <3>10 DEF Flushes, Places
    <3>11. CASE KillsGroup(t)
      BY <3>11 DEF KillsGroup, Places
    <3>12. CASE Detects(t)
      <4>1. ASSUME NEW r \in Report PROVE r \in Seq(Lines)
        <5>1. EmptyReport \in Seq(Lines)
          BY DEF EmptyReport, Lines
        <5>2. MismatchReport \in Seq(Lines)
          BY DEF MismatchReport, Lines
        <5>3. ServerReport \in Seq(Lines)
          BY DEF ServerReport, Lines
        <5> QED
          BY <4>1, <5>1, <5>2, <5>3 DEF Report
      <4> QED
        BY <3>12, <4>1 DEF Detects, Places
    <3>13. ASSUME NEW line \in Lines, ReportPrints(t, line) PROVE TypeOK'
      <4>1. Tail(todo[t]) \in Seq(Lines)
        BY <3>13 DEF ReportPrints
      <4> QED
        BY <3>13, <4>1 DEF ReportPrints
    <3>14. CASE ReportTerminates(t)
      BY <3>14 DEF ReportTerminates, Call, Places
    <3>15. CASE Exits(t)
      BY <3>15 DEF Exits, Places
    <3>16. CASE EndsProcess(t)
      BY <3>16 DEF EndsProcess, Places
    <3> QED
      BY <2>2, <3>1, <3>2, <3>3, <3>4, <3>5, <3>6, <3>7, <3>8, <3>9, <3>10,
         <3>11, <3>12, <3>13, <3>14, <3>15, <3>16
      DEF Step, Advance, LogsMismatch, Describes, PrintsSymbol, Lines
  <2> QED
    BY <2>0, <2>1, <2>2, <2>3, MainAssumption DEF Next, Active
<1> QED
  BY <1>1, <1>2, PTL DEF Spec

-----------------------------------------------------------------------------

\* What a step of t leaves alone of another thread: it may end it.
Untouched(u) ==
    /\ pc'[u] \in {pc[u], "gone"}
    /\ depth'[u] = depth[u]
    /\ signals'[u] = signals[u]

\* No step clears terminate_already_called.
LEMMA FlagOnlySet ==
    ASSUME NEW t \in Thread, Step(t)
    PROVE  flag => flag'
  BY DEF Step, Advance, Fails, Terminates, Call, Signal, TidFails, WriteFails,
     LogsThenTerminates, TestFlag, SetFlag, Prints, Flushes, KillsGroup,
     Detects, LogsMismatch, Describes, PrintsSymbol, ReportPrints,
     ReportTerminates, Exits, EndsProcess

\* The bound of a thread that does not move survives, as the flag is only set.
LEMMA OthersKeepBound ==
    ASSUME NEW u \in Thread, Bound(u), Untouched(u), flag => flag'
    PROVE  Bound(u)'
  BY DEF Bound, Untouched

\* A thread that enters terminate keeps the bound when it was in the ordinary
\* code, or came from a place that had one activation to spare.
LEMMA CallKeepsBound ==
    ASSUME TypeOK, NEW t \in Thread, NEW m \in BOOLEAN, Bound(t), Call(t, m),
           pc[t] \in {"run", "report", "err", "handler", "print"},
           UNCHANGED <<flag, signals>>
    PROVE  Bound(t)'
<1>1. /\ pc'[t] = "enter"
      /\ depth'[t] = depth[t] + 1
  BY DEF Call, TypeOK
<1>2. depth[t] \in Nat /\ signals[t] \in Nat
  BY SignalAssumption DEF TypeOK
<1> QED
  BY <1>1, <1>2 DEF Bound

\* Every step keeps every thread's bound.
LEMMA BoundInductive == IInv /\ [Next]_vars => (\A t \in Thread : Bound(t))'
<1> SUFFICES ASSUME IInv, [Next]_vars, NEW u \in Thread PROVE Bound(u)'
  OBVIOUS
<1>0. TypeOK /\ Bound(u)
  BY DEF IInv
<1>1. CASE UNCHANGED vars
  BY <1>0, <1>1 DEF vars, Bound
<1>3. CASE EnablesTids
  BY <1>0, <1>3 DEF EnablesTids, Bound
<1>4. CASE IsStruck
  <2>1. Untouched(u) /\ UNCHANGED flag
    BY <1>0, <1>4 DEF IsStruck, Untouched, TypeOK
  <2> QED
    BY <1>0, <2>1, OthersKeepBound
<1>2. ASSUME NEW t \in Thread, Step(t) PROVE Bound(u)'
  <2>1. CASE t # u
    <3>1. Untouched(u)
      BY <1>0, <1>2, <2>1 DEF Untouched, TypeOK, Step, Advance, Fails, Terminates,
         Call, Signal, TidFails, WriteFails, LogsThenTerminates, TestFlag,
         SetFlag, Prints, Flushes, KillsGroup, Detects, LogsMismatch,
         Describes, PrintsSymbol, ReportPrints, ReportTerminates, Exits,
         EndsProcess
    <3>2. flag => flag'
      BY <1>2, FlagOnlySet
    <3> QED
      BY <1>0, <3>1, <3>2, OthersKeepBound
  <2>2. CASE t = u
    <3>0. depth[u] \in Nat /\ signals[u] \in Nat /\ u \in DOMAIN pc
          /\ u \in DOMAIN signals
      BY <1>0, SignalAssumption DEF TypeOK
    <3> USE <1>0, <2>2
    <3>1. CASE Fails(t)
      BY <3>0, <3>1 DEF Fails, Bound, TypeOK
    <3>2. ASSUME NEW m \in BOOLEAN, Terminates(t, m) PROVE Bound(u)'
      BY <3>2, CallKeepsBound DEF Terminates
    <3>3. CASE Signal(t)
      <4>1. pc'[u] = "handler" /\ signals'[u] = signals[u] + 1
            /\ depth' = depth /\ flag' = flag
        BY <3>3, <3>0 DEF Signal, TypeOK
      <4>2. ~flag => depth[u] <= signals[u] + 1
        <5>1. pc[u] \in Places /\ pc[u] # "gone"
          BY <3>3 DEF TypeOK, Signal
        <5> QED
          BY <3>0, <5>1 DEF Bound, Places
      <4> QED
        BY <4>1, <4>2, <3>0 DEF Bound
    <3>4. CASE TidFails(t)
      BY <3>4, CallKeepsBound DEF TidFails
    <3>5. CASE WriteFails(t)
      BY <3>5, CallKeepsBound DEF WriteFails
    <3>6. CASE LogsThenTerminates(t)
      BY <3>6, CallKeepsBound DEF LogsThenTerminates
    <3>7. CASE TestFlag(t)
      BY <3>0, <3>7 DEF TestFlag, Bound, TypeOK
    <3>8. CASE SetFlag(t)
      BY <3>0, <3>8 DEF SetFlag, Bound, TypeOK
    <3>9. CASE Prints(t)
      BY <3>0, <3>9 DEF Prints, Bound, TypeOK
    <3>10. CASE Flushes(t)
      BY <3>0, <3>10 DEF Flushes, Bound, TypeOK
    <3>11. CASE KillsGroup(t)
      BY <3>0, <3>11 DEF KillsGroup, Bound, TypeOK
    <3>12. CASE Detects(t)
      BY <3>0, <3>12 DEF Detects, Bound, TypeOK
    <3>13. ASSUME NEW line \in Lines, ReportPrints(t, line) PROVE Bound(u)'
      BY <3>0, <3>13 DEF ReportPrints, Bound, TypeOK
    <3>14. CASE ReportTerminates(t)
      BY <3>14, CallKeepsBound DEF ReportTerminates
    <3>15. CASE Exits(t)
      BY <3>0, <3>15, OthersKeepBound DEF Exits, Untouched, TypeOK
    <3>16. CASE EndsProcess(t)
      BY <3>0, <3>16, OthersKeepBound DEF EndsProcess, Untouched, TypeOK
    <3> QED
      BY <1>2, <3>1, <3>2, <3>3, <3>4, <3>5, <3>6, <3>7, <3>8, <3>9, <3>10,
         <3>11, <3>12, <3>13, <3>14, <3>15, <3>16
      DEF Step, Advance, LogsMismatch, Describes, PrintsSymbol, Lines
  <2> QED
    BY <2>1, <2>2
<1> QED
  BY <1>1, <1>2, <1>3, <1>4, MainAssumption DEF Next, Active

\* The inductive invariant holds throughout.
LEMMA BoundCorrect == Spec => []IInv
<1>1. Init /\ TypeOK => IInv
  BY DEF Init, IInv, Bound
<1>2. IInv /\ [Next]_vars /\ TypeOK' => IInv'
  BY BoundInductive DEF IInv
<1> QED
  BY <1>1, <1>2, TypeCorrect, PTL DEF Spec

\* Group::terminate is entered at most twice by a thread, plus once for each
\* signal it took, whatever fails inside it and whatever other threads do.
THEOREM RecursionCorrect == Spec => []RecursionBounded
<1>1. IInv => RecursionBounded
  BY DEF IInv, Bound, RecursionBounded
<1> QED
  BY <1>1, BoundCorrect, PTL

\* A message that terminate failed to print is not printed by the terminate
\* this failure calls.
THEOREM PrintCorrect == Spec => []NoPrintInRecursion
<1>1. IInv => NoPrintInRecursion
  BY DEF IInv, Bound, NoPrintInRecursion
<1> QED
  BY <1>1, BoundCorrect, PTL

-----------------------------------------------------------------------------
(* The safety half of KillReached: the way to killpg leads nowhere else, is *)
(* never longer than Rank, and has an end only behind killpg.  What is left *)
(* to TLC is that a fair scheduler takes it.                                *)

\* The most steps t still takes until it has called killpg and loops, if no
\* signal sends it back.  An activation of terminate that finds the flag set
\* is shorter than one that sets it.
Rank(t) ==
    CASE pc[t] = "report" -> 7 + Len(todo[t])
      [] pc[t] \in {"err", "handler"} -> 6
      [] pc[t] = "enter" /\ ~flag -> 5
      [] pc[t] = "mark" -> 4
      [] pc[t] = "print" -> 3
      [] pc[t] = "enter" /\ flag -> 2
      [] pc[t] = "flush" -> 2
      [] pc[t] = "kill" -> 1
      [] OTHER -> 0

\* A thread that left the ordinary code does not return to it, and only the
\* end of the process takes it off its way, by a signal or by a sibling that
\* was in its ordinary code.  Each of its steps shortens its way, no step of
\* another thread lengthens it, and only a signal of its own does.
WayOut(t) ==
    OnWay(t) =>
      /\ \/ OnWay(t)'
         \/ /\ pc'[t] = "gone"
            /\ struck' \/ \E u \in Active \ {t} : pc[u] = "run"
      /\ Rank(t)' <= Rank(t) \/ signals'[t] = signals[t] + 1
      /\ Advance(t) => OnWay(t)' /\ Rank(t)' < Rank(t)

\* The way ends in the endless loop, behind killpg, and a process with a
\* thread in it is gone only once it was killed or struck, or with a thread
\* that ended it from its ordinary code.
EndsKilled ==
    \A t \in Active :
        /\ OnWay(t) /\ Rank(t) = 0 => killed
        /\ pc[t] = "gone" /\ depth[t] > 0 =>
              \/ killed \/ struck
              \/ \E u \in Active : pc[u] = "gone" /\ depth[u] = 0

\* What a thread that has ended or loops says of the process.
EndExplained ==
    \A t \in Active :
        /\ pc[t] = "spin" => killed
        /\ pc[t] = "gone" /\ depth[t] > 0 =>
              \/ killed \/ struck
              \/ \E u \in Active : pc[u] = "gone" /\ depth[u] = 0

\* What t reports is a sequence of lines.
LEMMA ReportLength ==
    ASSUME TypeOK, NEW t \in Thread
    PROVE  Len(todo[t]) \in Nat
  BY DEF TypeOK

\* The way of a thread that does not move gets no longer, as the flag is only
\* set.
LEMMA OthersShorten ==
    ASSUME TypeOK, NEW t \in Thread, flag => flag',
           pc'[t] = pc[t], todo'[t] = todo[t]
    PROVE  Rank(t)' <= Rank(t)
<1>1. Rank(t) \in Nat
  BY ReportLength DEF Rank
<1>2. CASE pc[t] = "enter"
  BY <1>2 DEF Rank, TypeOK
<1>3. CASE pc[t] # "enter"
  <2>1. Rank(t)' = Rank(t)
    BY <1>3 DEF Rank
  <2> QED
    BY <1>1, <2>1
<1> QED
  BY <1>2, <1>3

\* A call of terminate from a place on the way shortens it, from terminate
\* itself because the flag is then set.
LEMMA CallShortens ==
    ASSUME TypeOK, NEW t \in Thread, NEW m \in BOOLEAN, Bound(t), Call(t, m),
           pc[t] \in {"report", "err", "handler", "print"}, UNCHANGED flag
    PROVE  pc'[t] = "enter" /\ Rank(t)' < Rank(t)
<1>1. pc'[t] = "enter" /\ flag' = flag /\ flag \in BOOLEAN
  BY DEF Call, TypeOK
<1>2. Rank(t)' = IF flag THEN 2 ELSE 5
  BY <1>1 DEF Rank
<1>3. CASE pc[t] = "print"
  BY <1>1, <1>2, <1>3 DEF Bound, Rank
<1>4. CASE pc[t] \in {"report", "err", "handler"}
  <2>1. Rank(t) \in Nat /\ Rank(t) >= 6
    BY <1>4, ReportLength DEF Rank
  <2> QED
    BY <1>1, <1>2, <2>1
<1> QED
  BY <1>3, <1>4

\* Every step of a thread on its way shortens it and stays on it.
LEMMA AdvanceShortens ==
    ASSUME TypeOK, NEW t \in Thread, Bound(t), Advance(t)
    PROVE  OnWay(t)' /\ Rank(t)' < Rank(t)
<1> USE DEF TypeOK, OnWay
<1>1. CASE OnWay(t) /\ TidFails(t)
  BY <1>1, CallShortens DEF TidFails
<1>2. CASE OnWay(t) /\ WriteFails(t)
  BY <1>2, CallShortens DEF WriteFails
<1>3. ASSUME NEW line \in Lines, ReportPrints(t, line)
      PROVE  OnWay(t)' /\ Rank(t)' < Rank(t)
  <2>1. /\ pc[t] = "report" /\ pc'[t] = "report"
        /\ Len(todo'[t]) = Len(todo[t]) - 1
    BY <1>3 DEF ReportPrints
  <2>2. Rank(t) = 7 + Len(todo[t]) /\ Rank(t)' = 7 + Len(todo'[t])
    BY <2>1 DEF Rank
  <2> QED
    BY <2>1, <2>2, ReportLength
<1>4. CASE ReportTerminates(t)
  BY <1>4, CallShortens DEF ReportTerminates
<1>5. CASE LogsThenTerminates(t)
  BY <1>5, CallShortens DEF LogsThenTerminates
<1>6. CASE TestFlag(t)
  <2>1. /\ pc[t] = "enter" /\ flag \in BOOLEAN
        /\ pc'[t] = IF flag THEN "kill" ELSE "mark"
    BY <1>6 DEF TestFlag
  <2> QED
    BY <2>1 DEF Rank
<1>7. CASE SetFlag(t)
  <2>1. /\ pc[t] = "mark"
        /\ pc'[t] = "print" \/ pc'[t] = "flush"
    BY <1>7 DEF SetFlag
  <2> QED
    BY <2>1 DEF Rank
<1>8. CASE Prints(t)
  <2>1. pc[t] = "print" /\ pc'[t] = "flush"
    BY <1>8 DEF Prints
  <2> QED
    BY <2>1 DEF Rank
<1>9. CASE Flushes(t)
  <2>1. pc[t] = "flush" /\ pc'[t] = "kill"
    BY <1>9 DEF Flushes
  <2> QED
    BY <2>1 DEF Rank
<1>10. CASE KillsGroup(t)
  <2>1. pc[t] = "kill" /\ pc'[t] = "spin"
    BY <1>10 DEF KillsGroup
  <2> QED
    BY <2>1 DEF Rank
<1> QED
  BY <1>1, <1>2, <1>3, <1>4, <1>5, <1>6, <1>7, <1>8, <1>9, <1>10
  DEF Advance, LogsMismatch, Describes, PrintsSymbol, Lines

\* A thread that has left the ordinary code stays on its way to killpg,
\* whatever fails or interrupts it, as long as its process is there: its own
\* steps strictly shorten the way, those of other threads do not lengthen it,
\* and each signal does so at most once, as default_signal_handler does not
\* return either.
THEOREM WayOutCorrect == Spec => [][\A t \in Thread : WayOut(t)]_vars
<1>1. IInv /\ TypeOK' /\ [Next]_vars => [\A t \in Thread : WayOut(t)]_vars
  <2> SUFFICES ASSUME IInv, TypeOK', Next, NEW t \in Thread, OnWay(t)
               PROVE  WayOut(t)
    BY DEF WayOut
  <2>0. TypeOK /\ Bound(t)
    BY DEF IInv
  <2>1. Advance(t) => OnWay(t)' /\ Rank(t)' < Rank(t)
    BY <2>0, AdvanceShortens
  <2>2. Rank(t) \in Nat
    BY <2>0, ReportLength DEF Rank
  <2>3. CASE Advance(t)
    <3>1. Rank(t)' <= Rank(t)
      <4>1. Rank(t)' \in Nat
        BY DEF TypeOK, Rank
      <4> QED
        BY <2>1, <2>2, <2>3, <4>1
    <3> QED
      BY <2>1, <2>3, <3>1 DEF WayOut
  <2>4. CASE EnablesTids
    <3>1. UNCHANGED <<pc, todo, flag>>
      BY <2>4 DEF EnablesTids
    <3>2. Rank(t)' <= Rank(t)
      BY <2>0, <3>1, OthersShorten
    <3> QED
      BY <2>1, <3>1, <3>2 DEF WayOut, OnWay
  <2>5. CASE IsStruck
    <3>1. /\ struck' /\ UNCHANGED <<todo, flag>>
          /\ pc'[t] = "gone" \/ pc'[t] = pc[t]
      BY <2>0, <2>5 DEF IsStruck, TypeOK
    <3>2. Rank(t)' <= Rank(t)
      <4>1. CASE pc'[t] = "gone"
        BY <2>2, <4>1 DEF Rank
      <4>2. CASE pc'[t] = pc[t]
        BY <2>0, <3>1, <4>2, OthersShorten
      <4> QED
        BY <3>1, <4>1, <4>2
    <3> QED
      BY <2>1, <3>1, <3>2 DEF WayOut, OnWay
  <2>6. ASSUME NEW u \in Active, u # t, Step(u) PROVE WayOut(t)
    <3>0. u \in Thread
      BY MainAssumption DEF Active
    <3>1. CASE EndsProcess(u)
      <4>1. /\ pc[u] = "run"
            /\ todo' = todo
            /\ flag' = flag
            /\ pc'[t] = "gone" \/ pc'[t] = pc[t]
        BY <2>0, <3>1 DEF EndsProcess, TypeOK
      <4>2. Rank(t)' <= Rank(t)
        <5>1. CASE pc'[t] = "gone"
          BY <2>2, <5>1 DEF Rank
        <5>2. CASE pc'[t] = pc[t]
          BY <2>0, <4>1, <5>2, OthersShorten
        <5> QED
          BY <4>1, <5>1, <5>2
      <4> QED
        BY <2>1, <2>6, <4>1, <4>2 DEF WayOut, OnWay
    <3>2. CASE ~EndsProcess(u)
      <4>1. pc'[t] = pc[t] /\ todo'[t] = todo[t]
        BY <2>0, <2>6, <3>0, <3>2 DEF TypeOK, Step, Advance, Fails, Terminates,
           Call, Signal, TidFails, WriteFails, LogsThenTerminates, TestFlag,
           SetFlag, Prints, Flushes, KillsGroup, Detects, LogsMismatch,
           Describes, PrintsSymbol, ReportPrints, ReportTerminates, Exits
      <4>2. flag => flag'
        BY <2>6, <3>0, FlagOnlySet
      <4>3. Rank(t)' <= Rank(t)
        BY <2>0, <4>1, <4>2, OthersShorten
      <4> QED
        BY <2>1, <4>1, <4>3 DEF WayOut, OnWay
    <3> QED
      BY <3>1, <3>2
  <2>7. CASE Signal(t)
    BY <2>0, <2>1, <2>7 DEF Signal, TypeOK, WayOut, OnWay
  <2>8. Step(t) => Advance(t) \/ Signal(t)
    BY DEF Step, Fails, Terminates, Detects, Exits, EndsProcess, OnWay
  <2> QED
    BY <2>3, <2>4, <2>5, <2>6, <2>7, <2>8 DEF Next
<1> QED
  BY <1>1, BoundCorrect, TypeCorrect, PTL DEF Spec

\* The end of the way is behind killpg, and a process with a thread on the way
\* is not gone otherwise than by killpg, by a signal nothing handles or by a
\* sibling in its ordinary code; the launcher and the server have none.
THEOREM EndsKilledCorrect == Spec => []EndsKilled
<1>1. Init => EndExplained
  BY MainAssumption DEF Init, EndExplained, Active
<1>2. IInv /\ EndExplained /\ [Next]_vars => EndExplained'
  <2> SUFFICES ASSUME IInv, EndExplained, [Next]_vars PROVE EndExplained'
    OBVIOUS
  <2>0. TypeOK /\ Active \subseteq Thread /\ \A u \in Thread : Bound(u)
    BY MainAssumption DEF IInv, Active
  <2>1. CASE UNCHANGED vars
    BY <2>1 DEF vars, EndExplained, Active
  <2>2. CASE EnablesTids
    BY <2>2 DEF EnablesTids, EndExplained, Active
  <2>3. CASE IsStruck
    <3>1. struck' /\ Active' = Active
      BY <2>3 DEF IsStruck, Active
    <3>2. \A t \in Active : pc'[t] = "gone"
      BY <2>0, <2>3 DEF IsStruck
    <3> QED
      BY <3>1, <3>2 DEF EndExplained
  <2>4. ASSUME NEW u \in Active, Step(u) PROVE EndExplained'
    <3>0. Active' = Active /\ u \in Thread
      BY <2>0, <2>4 DEF Active, Step, Advance, Fails, Terminates,
         Call, Signal, TidFails, WriteFails, LogsThenTerminates, TestFlag,
         SetFlag, Prints, Flushes, KillsGroup, Detects, LogsMismatch,
         Describes, PrintsSymbol, ReportPrints, ReportTerminates, Exits,
         EndsProcess
    <3>1. CASE Exits(u)
      <4>1. pc[u] = "run" /\ depth[u] = 0
        BY <2>0, <3>0, <3>1 DEF Exits, Bound
      <4>2. /\ UNCHANGED <<depth, killed, struck>>
            /\ \A t \in Thread \ {u} : pc'[t] = pc[t]
            /\ pc'[u] = "gone"
        BY <2>0, <3>0, <3>1 DEF Exits, TypeOK
      <4> QED
        BY <2>0, <3>0, <4>1, <4>2 DEF EndExplained
    <3>2. CASE EndsProcess(u)
      <4>1. pc[u] = "run" /\ depth[u] = 0
        BY <2>0, <3>0, <3>2 DEF EndsProcess, Bound
      <4>2. /\ UNCHANGED <<depth, killed, struck>>
            /\ \A t \in Active : pc'[t] = "gone"
        BY <2>0, <3>2 DEF EndsProcess
      <4> QED
        BY <2>0, <3>0, <4>1, <4>2 DEF EndExplained
    <3>3. CASE ~Exits(u) /\ ~EndsProcess(u)
      <4>1. /\ killed => killed'
            /\ struck' = struck
            /\ \A t \in Thread \ {u} : pc'[t] = pc[t] /\ depth'[t] = depth[t]
        BY <2>0, <2>4, <3>0, <3>3 DEF TypeOK, Step, Advance, Fails, Terminates,
           Call, Signal, TidFails, WriteFails, LogsThenTerminates, TestFlag,
           SetFlag, Prints, Flushes, KillsGroup, Detects, LogsMismatch,
           Describes, PrintsSymbol, ReportPrints, ReportTerminates
      <4>2. /\ pc[u] # "gone" /\ pc'[u] # "gone"
            /\ pc'[u] = "spin" => killed'
        BY <2>0, <2>4, <3>0, <3>3 DEF TypeOK, Step, Advance, Fails, Terminates,
           Call, Signal, TidFails, WriteFails, LogsThenTerminates, TestFlag,
           SetFlag, Prints, Flushes, KillsGroup, Detects, LogsMismatch,
           Describes, PrintsSymbol, ReportPrints, ReportTerminates
      <4>3. ASSUME NEW t \in Active, t # u PROVE
              /\ pc'[t] = "spin" => killed'
              /\ pc'[t] = "gone" /\ depth'[t] > 0 =>
                    \/ killed' \/ struck'
                    \/ \E v \in Active : pc'[v] = "gone" /\ depth'[v] = 0
        <5>1. t \in Thread \ {u}
          BY <2>0, <4>3
        <5>2. \A v \in Active : pc[v] = "gone" => v \in Thread \ {u}
          BY <2>0, <4>2
        <5> QED
          BY <4>1, <4>3, <5>1, <5>2 DEF EndExplained
      <4> QED
        BY <3>0, <4>2, <4>3 DEF EndExplained
    <3> QED
      BY <3>1, <3>2, <3>3
  <2> QED
    BY <2>1, <2>2, <2>3, <2>4 DEF Next
<1>3. TypeOK /\ EndExplained => EndsKilled
  <2> SUFFICES ASSUME TypeOK, EndExplained, NEW t \in Active,
                      OnWay(t), Rank(t) = 0
               PROVE  killed
    BY DEF EndsKilled, EndExplained
  <2>1. t \in Thread /\ pc[t] \in Places /\ flag \in BOOLEAN
    BY MainAssumption DEF TypeOK, Active
  <2>2. pc[t] = "spin"
    BY <2>1, ReportLength DEF Rank, Places, OnWay
  <2> QED
    BY <2>2 DEF EndExplained
<1> QED
  BY <1>1, <1>2, <1>3, BoundCorrect, TypeCorrect, PTL DEF Spec
=============================================================================
