--------------------------- MODULE ExternalSSAlone --------------------------
(***************************************************************************)
(* Theorems about the external mode with one client: any program until it  *)
(* first forks or starts a thread, and a program that never does.  Any set *)
(* of addresses, any depth, any capacity of the socket; either side may    *)
(* die at any point, and the program may drop the socket, be interrupted   *)
(* or fail to execve.                                                      *)
(***************************************************************************)
EXTENDS ExternalSSProofs, WellFoundedInduction

-----------------------------------------------------------------------------
(* Handling a queue of messages one after the other.  Final is a recursive *)
(* function: that it exists and that there is one only is shown with a     *)
(* least counterexample each.                                              *)

\* st[i] is the stack once the first i messages of q are handled.
IsRun(s, q, st) ==
    st = [i \in 0 .. Len(q) |-> IF i = 0 THEN s ELSE Handle(st[i - 1], q[i])]

\* A set of numbers that is not empty has a least element.
LEMMA LeastOf ==
    ASSUME NEW T \in SUBSET Nat, T # {}
    PROVE  \E x \in T : \A y \in T : x <= y
<1>1. \E x \in T : \A y \in T : ~(<<y, x>> \in OpToRel(<, Nat))
  BY NatLessThanWellFounded, WFMin, Zenon
<1>2. PICK x \in T : \A y \in T : ~(<<y, x>> \in OpToRel(<, Nat))
  BY <1>1
<1>3. \A y \in T : ~(y < x)
  BY <1>2 DEF OpToRel
<1>4. \A y \in T : x <= y
  BY <1>3
<1> QED
  BY <1>4

\* Whatever the message, the server's stack stays a stack.
LEMMA HandleType ==
    ASSUME NEW s \in Seq(Frame), NEW m \in Message
    PROVE  Handle(s, m) \in Seq(Frame)
<1>1. /\ <<>> \in Seq(Frame) /\ Front(s) \in Seq(Frame)
      /\ \A e \in Frame : Append(s, e) \in Seq(Frame)
  BY EmptySeq, FrontInSeq, AppendFacts
<1>2. m.type \in {"CALL", "NEWS", "EXEC", "RET-"}
      /\ (m.type \in {"CALL", "RET-"} => m.addr \in Addr)
  BY DEF Message
<1> QED
  BY <1>1, <1>2 DEF Handle, Frame

\* Two runs over the same messages are the same run.
LEMMA RunIsUnique ==
    ASSUME NEW s, NEW q \in Seq(Message), NEW f, NEW g,
           IsRun(s, q, f), IsRun(s, q, g)
    PROVE  f = g
<1> DEFINE T == {i \in 0 .. Len(q) : f[i] # g[i]}
<1>0. Len(q) \in Nat
  BY LenProperties
<1>1. \A i \in 0 .. Len(q) :
          /\ f[i] = IF i = 0 THEN s ELSE Handle(f[i - 1], q[i])
          /\ g[i] = IF i = 0 THEN s ELSE Handle(g[i - 1], q[i])
  BY Zenon DEF IsRun
<1>2. T = {}
  <2> SUFFICES ASSUME T # {} PROVE FALSE
    OBVIOUS
  <2>0. T \in SUBSET Nat
    BY <1>0
  <2>1. PICK x \in T : \A y \in T : x <= y
    BY <2>0, LeastOf, Zenon
  <2>2. x # 0
    BY <1>0, <1>1, <2>1
  <2>3. x - 1 \in 0 .. Len(q) /\ x - 1 \notin T
    BY <1>0, <2>1, <2>2
  <2>4. f[x - 1] = g[x - 1]
    BY <2>3
  <2> QED
    BY <1>1, <2>1, <2>2, <2>4
<1>3. /\ f = [i \in 0 .. Len(q) |-> f[i]]
      /\ g = [i \in 0 .. Len(q) |-> g[i]]
  BY DEF IsRun
<1>4. \A i \in 0 .. Len(q) : f[i] = g[i]
  BY <1>2
<1> QED
  BY <1>3, <1>4

\* Final is where a run ends.
LEMMA FinalOfRun ==
    ASSUME NEW s, NEW q \in Seq(Message), NEW f, IsRun(s, q, f)
    PROVE  Final(s, q) = f[Len(q)]
<1> DEFINE g == CHOOSE st : IsRun(s, q, st)
<1>1. IsRun(s, q, g)
  BY Zenon
<1>2. Final(s, q) = g[Len(q)]
  BY DEF Final, IsRun
<1> HIDE DEF g
<1> QED
  BY <1>1, <1>2, RunIsUnique

\* Every queue can be handled, from every stack.
LEMMA RunExists ==
    ASSUME NEW s \in Seq(Frame), NEW q \in Seq(Message)
    PROVE  \E f \in [0 .. Len(q) -> Seq(Frame)] : IsRun(s, q, f)
<1> DEFINE Upto(n, f) ==
        /\ f \in [0 .. n -> Seq(Frame)]
        /\ f[0] = s
        /\ \A i \in 1 .. n : f[i] = Handle(f[i - 1], q[i])
<1> DEFINE T == {n \in 0 .. Len(q) : \A f : ~Upto(n, f)}
<1>0. Len(q) \in Nat /\ \A i \in 1 .. Len(q) : q[i] \in Message
  BY ElementOfSeq, LenProperties
<1>1. T = {}
  <2> SUFFICES ASSUME T # {} PROVE FALSE
    OBVIOUS
  <2>0. T \in SUBSET Nat
    BY <1>0
  <2>1. PICK n \in T : \A k \in T : n <= k
    BY <2>0, LeastOf, Zenon
  <2>2. CASE n = 0
    <3> DEFINE f == [i \in 0 .. 0 |-> s]
    <3>1. Upto(0, f)
      OBVIOUS
    <3> QED
      BY <2>1, <2>2, <3>1
  <2>3. CASE n # 0
    <3>0. n \in 0 .. Len(q)
      BY <2>1
    <3>1. n \in 1 .. Len(q) /\ n - 1 \in 0 .. Len(q) /\ ~(n <= n - 1)
      BY <1>0, <2>3, <3>0
    <3>2. PICK f : Upto(n - 1, f)
      <4>1. n - 1 \notin T
        BY <2>1, <3>1
      <4> QED
        BY <3>1, <4>1
    <3> DEFINE g == [i \in 0 .. n |->
                        IF i = n THEN Handle(f[n - 1], q[n]) ELSE f[i]]
    <3>3. f[n - 1] \in Seq(Frame)
      BY <3>1, <3>2
    <3>4. Handle(f[n - 1], q[n]) \in Seq(Frame)
      BY <1>0, <3>1, <3>3, HandleType
    <3>5. g \in [0 .. n -> Seq(Frame)]
      BY <3>1, <3>2, <3>4
    <3>6. g[0] = s
      BY <3>1, <3>2
    <3>7. \A i \in 1 .. n : g[i] = Handle(g[i - 1], q[i])
      BY <3>1, <3>2
    <3>8. Upto(n, g)
      BY <3>5, <3>6, <3>7
    <3> QED
      BY <2>1, <3>8
  <2> QED
    BY <2>2, <2>3
<1>2. PICK f : Upto(Len(q), f)
  BY <1>0, <1>1
<1>3. IsRun(s, q, f)
  BY <1>0, <1>2 DEF IsRun
<1> QED
  BY <1>2, <1>3

\* What the proofs use of Final: it is a stack, nothing is done for the empty
\* queue, the newest message is handled last and the oldest first.
LEMMA FinalType ==
    ASSUME NEW s \in Seq(Frame), NEW q \in Seq(Message)
    PROVE  Final(s, q) \in Seq(Frame)
<1>1. PICK f \in [0 .. Len(q) -> Seq(Frame)] : IsRun(s, q, f)
  BY RunExists
<1>2. Len(q) \in Nat
  BY LenProperties
<1>3. f[Len(q)] \in Seq(Frame)
  BY <1>1, <1>2
<1> QED
  BY <1>1, <1>3, FinalOfRun

LEMMA FinalEmpty ==
    ASSUME NEW s \in Seq(Frame)
    PROVE  Final(s, <<>>) = s
<1>1. <<>> \in Seq(Message) /\ Len(<<>>) = 0
  BY EmptySeq
<1>2. PICK f \in [0 .. 0 -> Seq(Frame)] : IsRun(s, <<>>, f)
  BY <1>1, RunExists
<1>3. \A i \in 0 .. Len(<<>>) :
          f[i] = IF i = 0 THEN s ELSE Handle(f[i - 1], <<>>[i])
  BY <1>2, Zenon DEF IsRun
<1>4. f[0] = s
  BY <1>1, <1>3
<1> QED
  BY <1>1, <1>2, <1>4, FinalOfRun

LEMMA FinalAppend ==
    ASSUME NEW s \in Seq(Frame), NEW q \in Seq(Message), NEW m \in Message
    PROVE  Final(s, Append(q, m)) = Handle(Final(s, q), m)
<1> DEFINE p == Append(q, m)
<1>1. /\ p \in Seq(Message)
      /\ Len(q) \in Nat
      /\ Len(p) = Len(q) + 1
      /\ \A i \in 1 .. Len(q) : p[i] = q[i]
      /\ p[Len(q) + 1] = m
  BY AppendFacts, LenProperties
<1> HIDE DEF p
<1>2. PICK f \in [0 .. Len(p) -> Seq(Frame)] : IsRun(s, p, f)
  BY <1>1, RunExists
<1>3. \A i \in 0 .. Len(p) :
          f[i] = IF i = 0 THEN s ELSE Handle(f[i - 1], p[i])
  BY <1>2, Zenon DEF IsRun
<1> DEFINE g == [i \in 0 .. Len(q) |-> f[i]]
<1>4. IsRun(s, q, g)
  <2>1. \A i \in 0 .. Len(q) :
            f[i] = IF i = 0 THEN s ELSE Handle(f[i - 1], q[i])
    BY <1>1, <1>3
  <2>2. \A i \in 0 .. Len(q) :
            g[i] = IF i = 0 THEN s ELSE Handle(g[i - 1], q[i])
    BY <1>1, <2>1
  <2> QED
    BY <2>2 DEF IsRun
<1>5. g[Len(q)] = f[Len(q)]
  BY <1>1
<1> HIDE DEF g
<1>6. Final(s, q) = f[Len(q)]
  BY <1>4, <1>5, FinalOfRun
<1>7. Final(s, p) = f[Len(q) + 1]
  BY <1>1, <1>2, FinalOfRun
<1>8. f[Len(q) + 1] = Handle(f[Len(q)], m)
  BY <1>1, <1>3
<1> QED
  BY <1>6, <1>7, <1>8 DEF p

LEMMA FinalTail ==
    ASSUME NEW s \in Seq(Frame), NEW q \in Seq(Message), q # <<>>
    PROVE  Final(Handle(s, Head(q)), Tail(q)) = Final(s, q)
<1> DEFINE p == Tail(q)
<1>1. /\ p \in Seq(Message)
      /\ Len(q) \in Nat \ {0}
      /\ Len(p) = Len(q) - 1
      /\ Head(q) = q[1]
      /\ \A i \in 1 .. Len(p) : p[i] = q[i + 1]
  BY TailFacts
<1> HIDE DEF p
<1>2. PICK f \in [0 .. Len(q) -> Seq(Frame)] : IsRun(s, q, f)
  BY RunExists
<1>3. \A i \in 0 .. Len(q) :
          f[i] = IF i = 0 THEN s ELSE Handle(f[i - 1], q[i])
  BY <1>2, Zenon DEF IsRun
<1> DEFINE t == Handle(s, Head(q))
           g == [i \in 0 .. Len(p) |-> f[i + 1]]
<1>4. t = f[1]
  BY <1>1, <1>3
<1> HIDE DEF t
<1>5. IsRun(t, p, g)
  <2>1. \A i \in 0 .. Len(p) :
            f[i + 1] = IF i = 0 THEN t ELSE Handle(f[i], p[i])
    <3> SUFFICES ASSUME NEW i \in 1 .. Len(p)
                 PROVE  f[i + 1] = Handle(f[i], p[i])
      BY <1>1, <1>4
    <3>1. i + 1 \in 0 .. Len(q) /\ i + 1 # 0 /\ (i + 1) - 1 = i
      BY <1>1
    <3>2. f[i + 1] = Handle(f[i], q[i + 1])
      BY <1>3, <3>1
    <3> QED
      BY <1>1, <3>2
  <2>2. \A i \in 0 .. Len(p) :
            g[i] = IF i = 0 THEN t ELSE Handle(g[i - 1], p[i])
    BY <1>1, <2>1
  <2> QED
    BY <2>2 DEF IsRun
<1>6. g[Len(p)] = f[Len(q)]
  BY <1>1
<1> HIDE DEF g
<1>7. Final(t, p) = f[Len(q)]
  BY <1>1, <1>5, <1>6, FinalOfRun
<1>8. Final(s, q) = f[Len(q)]
  BY <1>2, FinalOfRun
<1> QED
  BY <1>7, <1>8 DEF p, t

-----------------------------------------------------------------------------
(* The ends of a sequence, and the calls a client remembers.               *)

\* Front drops the newest element only.
LEMMA FrontFacts ==
    ASSUME NEW S, NEW s \in Seq(S), s # <<>>
    PROVE  /\ Len(s) \in Nat \ {0}
           /\ Last(s) = s[Len(s)]
           /\ Last(s) \in S
           /\ Front(s) \in Seq(S)
           /\ Len(Front(s)) = Len(s) - 1
           /\ \A i \in 1 .. Len(s) - 1 : Front(s)[i] = s[i]
<1>1. Len(s) \in Nat \ {0} /\ \A i \in 1 .. Len(s) : s[i] \in S
  BY EmptySeq, ElementOfSeq
<1> DEFINE n == Len(s) - 1
<1>2. n \in Nat /\ \A i \in 1 .. n : s[i] \in S
  BY <1>1
<1>3. Front(s) = SubSeq(s, 1, n)
  BY DEF Front
<1> HIDE DEF n
<1>4. /\ SubSeq(s, 1, n) \in Seq(S)
      /\ Len(SubSeq(s, 1, n)) = n
      /\ \A i \in 1 .. n : SubSeq(s, 1, n)[i] = s[i]
  BY <1>2, SubSeqProperties
<1> QED
  BY <1>1, <1>3, <1>4 DEF Last, n

\* What was appended last is what Front drops.
LEMMA FrontOfAppend ==
    ASSUME NEW S, NEW s \in Seq(S), NEW e \in S
    PROVE  /\ Front(Append(s, e)) = s
           /\ Last(Append(s, e)) = e
           /\ Append(s, e) # <<>>
<1> DEFINE p == Append(s, e)
<1>1. /\ p \in Seq(S)
      /\ Len(s) \in Nat
      /\ Len(p) = Len(s) + 1
      /\ \A i \in 1 .. Len(s) : p[i] = s[i]
      /\ p[Len(s) + 1] = e
  BY AppendFacts, LenProperties
<1> HIDE DEF p
<1>2. p # <<>>
  BY <1>1, EmptySeq
<1>3. /\ Last(p) = p[Len(p)]
      /\ Front(p) \in Seq(S)
      /\ Len(Front(p)) = Len(p) - 1
      /\ \A i \in 1 .. Len(p) - 1 : Front(p)[i] = p[i]
  BY <1>1, <1>2, FrontFacts
<1>4. Len(Front(p)) = Len(s) /\ \A i \in 1 .. Len(s) : Front(p)[i] = s[i]
  BY <1>1, <1>3
<1>5. Front(p) = s
  BY <1>1, <1>3, <1>4, SeqEqual
<1> QED
  BY <1>1, <1>2, <1>3, <1>5 DEF p

\* A queue is its older messages and the newest one.
LEMMA FrontAndLast ==
    ASSUME NEW S, NEW s \in Seq(S), s # <<>>
    PROVE  Append(Front(s), Last(s)) = s
<1> DEFINE t == Front(s)
<1>1. /\ Len(s) \in Nat \ {0}
      /\ Last(s) = s[Len(s)]
      /\ Last(s) \in S
      /\ t \in Seq(S)
      /\ Len(t) = Len(s) - 1
      /\ \A i \in 1 .. Len(s) - 1 : t[i] = s[i]
  BY FrontFacts
<1> HIDE DEF t
<1>2. /\ Append(t, Last(s)) \in Seq(S)
      /\ Len(Append(t, Last(s))) = Len(t) + 1
      /\ \A i \in 1 .. Len(t) : Append(t, Last(s))[i] = t[i]
      /\ Append(t, Last(s))[Len(t) + 1] = Last(s)
  BY <1>1, AppendFacts
<1>3. \A i \in 1 .. Len(s) : Append(t, Last(s))[i] = s[i]
  BY <1>1, <1>2
<1>4. Append(t, Last(s)) = s
  BY <1>1, <1>2, <1>3, SeqEqual
<1> QED
  BY <1>4 DEF t

\* f without its l oldest frames.
Open(f, l) == SubSeq(f, l + 1, Len(f))

LEMMA OpenFacts ==
    ASSUME NEW f \in Seq(Frame), NEW l \in Nat, l <= Len(f)
    PROVE  /\ Len(f) \in Nat
           /\ Open(f, l) \in Seq(Frame)
           /\ Len(Open(f, l)) = Len(f) - l
           /\ \A i \in 1 .. Len(f) - l : Open(f, l)[i] = f[l + i]
<1> DEFINE n == Len(f)
<1>1. n \in Nat /\ \A i \in l + 1 .. n : f[i] \in Frame
  <2>1. Len(f) \in Nat
    BY LenProperties
  <2>2. \A i \in 1 .. Len(f) : f[i] \in Frame
    BY ElementOfSeq
  <2> QED
    BY <2>1, <2>2
<1>2. Open(f, l) = SubSeq(f, l + 1, n) /\ l <= n
  BY DEF Open
<1> HIDE DEF n
<1> DEFINE m == l + 1
<1>3. m \in Int /\ n \in Int /\ m <= n + 1
  BY <1>1, <1>2
<1>4. \A i \in m .. n : f[i] \in Frame
  BY <1>1
<1> HIDE DEF m
<1>5. /\ SubSeq(f, m, n) \in Seq(Frame)
      /\ Len(SubSeq(f, m, n)) = IF m <= n THEN n - m + 1 ELSE 0
      /\ \A i \in 1 .. n - m + 1 : SubSeq(f, m, n)[i] = f[m + i - 1]
  BY <1>3, <1>4, SubSeqProperties
<1>6. Len(SubSeq(f, m, n)) = n - l
  BY <1>3, <1>5 DEF m
<1>7. \A i \in 1 .. n - l : SubSeq(f, m, n)[i] = f[l + i]
  <2> SUFFICES ASSUME NEW i \in 1 .. n - l
               PROVE  SubSeq(f, m, n)[i] = f[l + i]
    OBVIOUS
  <2>1. i \in 1 .. n - m + 1 /\ m + i - 1 = l + i
    BY <1>1 DEF m
  <2> QED
    BY <1>5, <2>1
<1> QED
  BY <1>1, <1>2, <1>5, <1>6, <1>7 DEF m, n

\* A new call is remembered, after those that are.
LEMMA OpenAppend ==
    ASSUME NEW f \in Seq(Frame), NEW l \in Nat, l <= Len(f), NEW e \in Frame
    PROVE  Open(Append(f, e), l) = Append(Open(f, l), e)
<1> DEFINE p == Append(f, e)  o == Open(f, l)
<1>1. /\ p \in Seq(Frame)
      /\ Len(p) = Len(f) + 1
      /\ \A i \in 1 .. Len(f) : p[i] = f[i]
      /\ p[Len(f) + 1] = e
  BY AppendFacts
<1>2. /\ Len(f) \in Nat
      /\ o \in Seq(Frame)
      /\ Len(o) = Len(f) - l
      /\ \A i \in 1 .. Len(f) - l : o[i] = f[l + i]
  BY OpenFacts
<1> HIDE DEF p, o
<1>3. l <= Len(p)
  BY <1>1, <1>2
<1>4. /\ Open(p, l) \in Seq(Frame)
      /\ Len(Open(p, l)) = Len(p) - l
      /\ \A i \in 1 .. Len(p) - l : Open(p, l)[i] = p[l + i]
  BY <1>1, <1>3, OpenFacts
<1>5. /\ Append(o, e) \in Seq(Frame)
      /\ Len(Append(o, e)) = Len(o) + 1
      /\ \A i \in 1 .. Len(o) : Append(o, e)[i] = o[i]
      /\ Append(o, e)[Len(o) + 1] = e
  BY <1>2, AppendFacts
<1>6. Len(Open(p, l)) = Len(Append(o, e))
  BY <1>1, <1>2, <1>4, <1>5
<1>7. ASSUME NEW i \in 1 .. Len(Open(p, l))
      PROVE  Open(p, l)[i] = Append(o, e)[i]
  <2>0. Len(o) \in Nat /\ i \in 1 .. Len(o) + 1 /\ Len(p) - l = Len(o) + 1
    BY <1>1, <1>2, <1>4
  <2>3. Open(p, l)[i] = p[l + i]
    BY <1>4, <2>0
  <2>1. CASE i = Len(o) + 1
    <3>1. l + i = Len(f) + 1
      BY <1>2, <2>1
    <3> QED
      BY <1>1, <1>5, <2>1, <2>3, <3>1
  <2>2. CASE i # Len(o) + 1
    <3>1. /\ i \in 1 .. Len(o) /\ l + i \in 1 .. Len(f)
          /\ i \in 1 .. Len(f) - l
      <4>1. Len(f) \in Nat /\ Len(o) = Len(f) - l
        BY <1>2
      <4>2. i \in 1 .. Len(o)
        BY <2>0, <2>2
      <4> QED
        BY <4>1, <4>2
    <3>2. p[l + i] = f[l + i] /\ o[i] = f[l + i]
      BY <1>1, <1>2, <3>1
    <3> QED
      BY <1>5, <2>3, <3>1, <3>2
  <2> QED
    BY <2>1, <2>2
<1>8. Open(p, l) = Append(o, e)
  BY <1>4, <1>5, <1>6, <1>7, SeqEqual
<1> QED
  BY <1>8 DEF p, o

\* A return leaves the remembered calls but the newest.
LEMMA OpenFront ==
    ASSUME NEW f \in Seq(Frame), NEW l \in Nat, l < Len(f)
    PROVE  /\ Open(f, l) # <<>>
           /\ Last(Open(f, l)) = Last(f)
           /\ Open(Front(f), l) = Front(Open(f, l))
           /\ l <= Len(Front(f))
<1> DEFINE r == Front(f)  o == Open(f, l)
<1>0. l <= Len(f)
  BY LenProperties
<1>1. /\ Len(f) \in Nat
      /\ o \in Seq(Frame)
      /\ Len(o) = Len(f) - l
      /\ \A i \in 1 .. Len(f) - l : o[i] = f[l + i]
  BY <1>0, OpenFacts
<1>2. f # <<>> /\ o # <<>>
  BY <1>1, EmptySeq
<1>3. /\ Last(f) = f[Len(f)]
      /\ r \in Seq(Frame)
      /\ Len(r) = Len(f) - 1
      /\ \A i \in 1 .. Len(f) - 1 : r[i] = f[i]
  BY <1>2, FrontFacts
<1>4. l <= Len(r)
  BY <1>1, <1>3
<1> HIDE DEF o, r
<1>5. /\ Open(r, l) \in Seq(Frame)
      /\ Len(Open(r, l)) = Len(r) - l
      /\ \A i \in 1 .. Len(r) - l : Open(r, l)[i] = r[l + i]
  BY <1>3, <1>4, OpenFacts
<1>6. /\ Last(o) = o[Len(o)]
      /\ Front(o) \in Seq(Frame)
      /\ Len(Front(o)) = Len(o) - 1
      /\ \A i \in 1 .. Len(o) - 1 : Front(o)[i] = o[i]
  BY <1>1, <1>2, FrontFacts
<1>7. Last(o) = Last(f)
  BY <1>1, <1>3, <1>6
<1>8. Len(Open(r, l)) = Len(Front(o))
  BY <1>1, <1>3, <1>5, <1>6
<1>9. ASSUME NEW i \in 1 .. Len(Open(r, l))
      PROVE  Open(r, l)[i] = Front(o)[i]
  <2>1. /\ i \in 1 .. Len(o) - 1 /\ i \in 1 .. Len(f) - l
        /\ l + i \in 1 .. Len(f) - 1
    BY <1>1, <1>3, <1>5
  <2> QED
    BY <1>1, <1>3, <1>5, <1>6, <2>1
<1>10. Open(r, l) = Front(o)
  BY <1>5, <1>6, <1>8, <1>9, SeqEqual
<1> QED
  BY <1>2, <1>4, <1>7, <1>10 DEF o, r

\* Nothing is remembered when everything is forgotten.
LEMMA OpenNothing ==
    ASSUME NEW f \in Seq(Frame)
    PROVE  Open(f, Len(f)) = <<>>
<1>1. Len(f) \in Nat
  BY LenProperties
<1> QED
  BY <1>1, SubSeqEmpty DEF Open

\* Both ends of a queue of two or more.
LEMMA BothEnds ==
    ASSUME NEW S, NEW s \in Seq(S), s # <<>>, Len(s) # 1
    PROVE  /\ Tail(s) # <<>>
           /\ Last(Tail(s)) = Last(s)
           /\ Front(s) # <<>>
           /\ Head(Front(s)) = Head(s)
           /\ Front(Tail(s)) = Tail(Front(s))
<1> DEFINE r == Tail(s)  f == Front(s)
<1>1. /\ Len(s) \in Nat \ {0}
      /\ Head(s) = s[1]
      /\ r \in Seq(S)
      /\ Len(r) = Len(s) - 1
      /\ \A i \in 1 .. Len(r) : r[i] = s[i + 1]
  BY TailFacts
<1>2. /\ Last(s) = s[Len(s)]
      /\ f \in Seq(S)
      /\ Len(f) = Len(s) - 1
      /\ \A i \in 1 .. Len(s) - 1 : f[i] = s[i]
  BY FrontFacts
<1> HIDE DEF r, f
<1>0. Len(s) > 1
  BY <1>1
<1>3. r # <<>> /\ f # <<>>
  BY <1>0, <1>1, <1>2, EmptySeq
<1>4. /\ Last(r) = r[Len(r)]
      /\ Front(r) \in Seq(S)
      /\ Len(Front(r)) = Len(r) - 1
      /\ \A i \in 1 .. Len(r) - 1 : Front(r)[i] = r[i]
  BY <1>1, <1>3, FrontFacts
<1>5. /\ Head(f) = f[1]
      /\ Tail(f) \in Seq(S)
      /\ Len(Tail(f)) = Len(f) - 1
      /\ \A i \in 1 .. Len(Tail(f)) : Tail(f)[i] = f[i + 1]
  BY <1>2, <1>3, TailFacts
<1>6. Last(r) = Last(s) /\ Head(f) = Head(s)
  BY <1>0, <1>1, <1>2, <1>4, <1>5
<1>7. Len(Front(r)) = Len(Tail(f))
  BY <1>1, <1>2, <1>4, <1>5
<1>8. ASSUME NEW i \in 1 .. Len(Front(r))
      PROVE  Front(r)[i] = Tail(f)[i]
  <2>1. i \in 1 .. Len(r) - 1 /\ i \in 1 .. Len(r)
    BY <1>1, <1>4
  <2>2. Front(r)[i] = s[i + 1]
    BY <1>1, <1>4, <2>1
  <2>3. i \in 1 .. Len(Tail(f)) /\ i + 1 \in 1 .. Len(s) - 1
    BY <1>1, <1>2, <1>5, <2>1
  <2>4. Tail(f)[i] = s[i + 1]
    BY <1>2, <1>5, <2>3
  <2> QED
    BY <2>2, <2>4
<1>9. Front(r) = Tail(f)
  BY <1>4, <1>5, <1>7, <1>8, SeqEqual
<1> QED
  BY <1>3, <1>6, <1>9 DEF r, f

\* A queue of one message.
LEMMA OneLeft ==
    ASSUME NEW S, NEW s \in Seq(S), s # <<>>, Len(s) = 1
    PROVE  Head(s) = Last(s) /\ Tail(s) = <<>> /\ Front(s) = <<>>
<1>1. Head(s) = s[1] /\ Tail(s) \in Seq(S) /\ Len(Tail(s)) = Len(s) - 1
  BY TailFacts
<1>2. Last(s) = s[Len(s)] /\ Front(s) \in Seq(S) /\ Len(Front(s)) = Len(s) - 1
  BY FrontFacts
<1>3. Len(Tail(s)) = 0 /\ Len(Front(s)) = 0 /\ Head(s) = Last(s)
  BY <1>1, <1>2
<1>4. Tail(s) = <<>>
  BY <1>1, <1>3, EmptySeq
<1>5. Front(s) = <<>>
  BY <1>2, <1>3, EmptySeq
<1> QED
  BY <1>3, <1>4, <1>5

-----------------------------------------------------------------------------
(* One client. *)

\* The program has not forked or created a thread so far.
OneSoFar == \A c \in Client \ {Main} : status[c] = "unborn"

\* It never does.
Alone == Workers = {} /\ Children = {}

LEMMA OnlyMain == Alone => Client = {Main} /\ OneSoFar
  BY DEF Alone, Client, OneSoFar

\* The program: it is in a return from OnRetSends until the return is executed,
\* or for ever, asks astray exactly when it has dropped the socket, and forgets
\* everything before an execve.
Program ==
    /\ status[Main] # "unborn"
    /\ proc[Main] = Main
    /\ lost[Main] <= Len(frames[Main])
    /\ status[Main] \in {"running", "execing"} => goal[Main] = NoAddr
    /\ status[Main] = "waiting" => goal[Main] # NoAddr /\ Main \in held
    /\ status[Main] = "astray" => goal[Main] # NoAddr /\ Main \notin held
    /\ status[Main] = "execing" => lost[Main] = Len(frames[Main])

\* The target of the pending return is where the newest remembered call
\* returns.
Permitted ==
    /\ Len(frames[Main]) > lost[Main]
    /\ Last(frames[Main]) \in {goal[Main], WILDCARD}

\* A return announced to the server, whether or not it is answered.
Pending == goal[Main] # NoAddr /\ Main \in held

\* A Continue under way is the answer to the pending return, and right.
Approved ==
    toClient # <<>> =>
        toClient = <<Main>> /\ Pending /\ Permitted

\* A refusal is right, and the last thing the server does.
Blamed ==
    /\ culprit # NoClient =>
           /\ culprit = Main /\ srv # "serving" /\ toClient = <<>>
           /\ Pending /\ ~Permitted
    /\ Refused => culprit = Main

NoReturn(q) == \A i \in 1 .. Len(q) : q[i].type # "RET-"

\* The newest message of q announces the pending return, no older one is a
\* return, and handling those makes s the client's remembered calls.
Asked(s, q) ==
    /\ q # <<>>
    /\ Last(q).type = "RET-" /\ Last(q).addr = goal[Main]
    /\ Last(q).from = Main
    /\ NoReturn(Front(q))
    /\ Final(s, Front(q)) = Remembered(Main)

\* LockstepAcrossSocket, made inductive: at most one return is under way, and
\* it is behind every call, signal and execve of the client.
InStep ==
    srv = "serving" =>
        /\ ~Pending => NoReturn(toServer)
        /\ Main \in held /\ goal[Main] = NoAddr =>
               Final(stk, toServer) = Remembered(Main)
        /\ Pending /\ toClient = <<>> => Asked(stk, toServer)
        /\ Pending /\ toClient # <<>> =>
               toServer = <<>> /\ stk = Front(Remembered(Main))

AInv == TypeOK /\ Program /\ Approved /\ Blamed /\ InStep

LEMMA MainTypes ==
    TypeOK => /\ Main \in Client
              /\ frames[Main] \in Seq(Frame)
              /\ Len(frames[Main]) \in Nat
              /\ lost[Main] \in Nat
              /\ status[Main] \in Statuses
              /\ goal[Main] \in Addr \union {NoAddr}
  BY LenProperties DEF TypeOK, Client

LEMMA RememberedIsOpen ==
    /\ Remembered(Main) = Open(frames[Main], lost[Main])
    /\ Remembered(Main)' = Open(frames'[Main], lost'[Main])
  BY DEF Remembered, Open

\* What the server checks is whether the return is permitted.
LEMMA PermittedIsTop ==
    ASSUME TypeOK, Program
    PROVE  /\ Remembered(Main) \in Seq(Frame)
           /\ Permitted <=>
                  /\ Remembered(Main) # <<>>
                  /\ Last(Remembered(Main)) \in {goal[Main], WILDCARD}
<1> DEFINE f == frames[Main]  l == lost[Main]
<1>1. f \in Seq(Frame) /\ l \in Nat /\ l <= Len(f) /\ Len(f) \in Nat
  BY MainTypes DEF Program
<1>2. /\ Remembered(Main) = Open(f, l)
      /\ Permitted <=> Len(f) > l /\ Last(f) \in {goal[Main], WILDCARD}
  BY RememberedIsOpen DEF Permitted
<1> HIDE DEF f, l
<1>3. Open(f, l) \in Seq(Frame)
  BY <1>1, OpenFacts
<1>4. CASE Len(f) = l
  BY <1>1, <1>2, <1>3, <1>4, OpenNothing
<1>5. CASE Len(f) # l
  <2>1. l < Len(f)
    BY <1>1, <1>5
  <2>2. Open(f, l) # <<>> /\ Last(Open(f, l)) = Last(f)
    BY <1>1, <2>1, OpenFront
  <2> QED
    BY <1>2, <1>3, <2>1, <2>2
<1> QED
  BY <1>4, <1>5

LEMMA InitAlone == Init => AInv
<1> SUFFICES ASSUME Init PROVE AInv
  OBVIOUS
<1>1. TypeOK
  BY InitType
<1>2. Main \in Client
  BY DEF Client
<1>3. /\ status[Main] = "running" /\ proc[Main] = Main /\ goal[Main] = NoAddr
      /\ frames[Main] = <<>> /\ lost[Main] = 0
      /\ toServer = <<>> /\ toClient = <<>> /\ stk = <<>> /\ alarm = "none"
      /\ culprit = NoClient
  BY <1>2 DEF Init
<1>4. Len(<<>>) = 0 /\ <<>> \in Seq(Frame)
  BY EmptySeq
<1>5. Program
  BY <1>3, <1>4 DEF Program
<1>6. Approved /\ Blamed
  BY <1>3 DEF Approved, Blamed, Refused
<1>7. Final(<<>>, <<>>) = Remembered(Main)
  BY <1>3, <1>4, FinalEmpty, OpenNothing, RememberedIsOpen
<1>8. InStep
  BY <1>3, <1>4, <1>7 DEF InStep, NoReturn, Pending
<1> QED
  BY <1>1, <1>5, <1>6, <1>8 DEF AInv

-----------------------------------------------------------------------------
(* The server's steps. *)

LEMMA NoReturnTail ==
    ASSUME NEW q \in Seq(Message), q # <<>>, NoReturn(q)
    PROVE  NoReturn(Tail(q)) /\ Head(q).type # "RET-"
<1>1. /\ Head(q) = q[1]
      /\ Len(q) \in Nat \ {0}
      /\ Len(Tail(q)) = Len(q) - 1
      /\ \A i \in 1 .. Len(Tail(q)) : Tail(q)[i] = q[i + 1]
  BY TailFacts
<1> QED
  BY <1>1 DEF NoReturn

\* A message handled before the pending return leaves it asked.
LEMMA AskedTail ==
    ASSUME NEW s \in Seq(Frame), NEW q \in Seq(Message), Asked(s, q),
           Head(q).type # "RET-"
    PROVE  Asked(Handle(s, Head(q)), Tail(q))
<1>1. Len(q) # 1
  BY OneLeft DEF Asked
<1>2. /\ Tail(q) # <<>>
      /\ Last(Tail(q)) = Last(q)
      /\ Front(q) # <<>>
      /\ Head(Front(q)) = Head(q)
      /\ Front(Tail(q)) = Tail(Front(q))
  BY <1>1, BothEnds DEF Asked
<1>3. Front(q) \in Seq(Message)
  BY FrontInSeq
<1>4. NoReturn(Tail(Front(q)))
  BY <1>2, <1>3, NoReturnTail DEF Asked
<1>5. Final(Handle(s, Head(q)), Tail(Front(q))) = Final(s, Front(q))
  BY <1>2, <1>3, FinalTail
<1> QED
  BY <1>2, <1>4, <1>5 DEF Asked

\* The return is received last, on the client's remembered calls.
LEMMA AskedHead ==
    ASSUME NEW s \in Seq(Frame), NEW q \in Seq(Message), Asked(s, q),
           Head(q).type = "RET-"
    PROVE  /\ Tail(q) = <<>>
           /\ Head(q).addr = goal[Main] /\ Head(q).from = Main
           /\ s = Remembered(Main)
<1>1. Len(q) = 1
  <2> SUFFICES ASSUME Len(q) # 1 PROVE FALSE
    OBVIOUS
  <2>1. Front(q) # <<>> /\ Head(Front(q)) = Head(q)
    BY BothEnds DEF Asked
  <2>2. Front(q) \in Seq(Message)
    BY FrontInSeq
  <2> QED
    BY <2>1, <2>2, NoReturnTail DEF Asked
<1>2. Head(q) = Last(q) /\ Tail(q) = <<>> /\ Front(q) = <<>>
  BY <1>1, OneLeft DEF Asked
<1>3. Final(s, <<>>) = s
  BY FinalEmpty
<1> QED
  BY <1>2, <1>3 DEF Asked

LEMMA ReturnReceived ==
    ASSUME AInv, Receive("RET-")
    PROVE  /\ Pending /\ toClient = <<>> /\ toServer' = <<>>
           /\ stk = Remembered(Main)
           /\ TopAllows(Head(toServer).addr) <=> Permitted
           /\ Head(toServer).from = Main
<1>1. /\ toServer \in Seq(Message) /\ toServer # <<>> /\ stk \in Seq(Frame)
      /\ srv = "serving" /\ Head(toServer).type = "RET-"
      /\ toServer' = Tail(toServer)
  BY DEF AInv, TypeOK, Receive
<1>2. Pending /\ toClient = <<>>
  BY <1>1, NoReturnTail DEF AInv, InStep
<1>3. Asked(stk, toServer)
  BY <1>1, <1>2 DEF AInv, InStep
<1>4. /\ toServer' = <<>>
      /\ Head(toServer).addr = goal[Main] /\ Head(toServer).from = Main
      /\ stk = Remembered(Main)
  BY <1>1, <1>3, AskedHead
<1>5. TopAllows(Head(toServer).addr) <=> Permitted
  BY <1>4, PermittedIsTop DEF AInv, TopAllows
<1> QED
  BY <1>2, <1>4, <1>5

LEMMA ServerAlone == AInv /\ ServerStep => AInv'
<1> SUFFICES ASSUME AInv, ServerStep PROVE AInv'
  OBVIOUS
<1>0. /\ TypeOK /\ Program /\ Approved /\ Blamed /\ InStep
      /\ toServer \in Seq(Message) /\ stk \in Seq(Frame)
      /\ Main # NoClient
  BY ClientAssumption DEF AInv, TypeOK
<1>1. TypeOK'
  BY <1>0, ServerType
<1>2. UNCHANGED <<status, proc, held, historyVars>>
  BY DEF ServerStep, CallHandler, AddWildcard, ClearStack, RetHandlerRefuses,
     RetHandlerContinues, ServerSeesEnd, ServerKillsGroup
<1>3. Program'
  BY <1>0, <1>2 DEF Program, historyVars
<1>4. /\ Remembered(Main)' = Remembered(Main)
      /\ Permitted' <=> Permitted
      /\ Pending' <=> Pending
      /\ goal' = goal /\ held' = held
  BY <1>2 DEF Remembered, Permitted, Pending, historyVars
<1>5. Approved /\ toClient' = toClient => Approved'
  BY <1>4 DEF Approved
<1>6. CASE CallHandler \/ AddWildcard \/ ClearStack
  <2>1. /\ srv = "serving" /\ srv' = srv
        /\ toServer # <<>> /\ Head(toServer).type # "RET-"
        /\ toServer' = Tail(toServer)
        /\ toClient' = toClient /\ alarm' = alarm /\ culprit' = culprit
    BY <1>6 DEF CallHandler, AddWildcard, ClearStack, Receive
  <2>2. stk' = Handle(stk, Head(toServer))
    <3>1. CASE CallHandler
      BY <3>1 DEF CallHandler, Receive, Handle
    <3>2. CASE AddWildcard
      BY <3>2 DEF AddWildcard, Receive, Handle
    <3>3. CASE ClearStack
      BY <3>3 DEF ClearStack, Receive, Handle
    <3> QED
      BY <1>6, <3>1, <3>2, <3>3
  <2>3. Approved'
    BY <1>0, <1>5, <2>1
  <2>4. Blamed'
    BY <1>0, <1>4, <2>1 DEF Blamed, Refused
  <2>5. ~Pending => NoReturn(toServer')
    BY <1>0, <2>1, NoReturnTail DEF InStep
  <2>6. Final(stk', toServer') = Final(stk, toServer)
    BY <1>0, <2>1, <2>2, FinalTail
  <2>7. Pending /\ toClient = <<>> => Asked(stk', toServer')
    BY <1>0, <2>1, <2>2, AskedTail DEF InStep
  <2>8. ~(Pending /\ toClient # <<>>)
    BY <1>0, <2>1 DEF InStep
  <2>9. Asked(stk', toServer') => Asked(stk, toServer)'
    BY <1>4 DEF Asked, NoReturn
  <2>10. NoReturn(toServer)' <=> NoReturn(toServer')
    BY DEF NoReturn
  <2>11. Final(stk, toServer)' = Final(stk', toServer')
    BY DEF Final, Handle
  <2>12. InStep'
    BY <1>0, <1>4, <2>1, <2>5, <2>6, <2>7, <2>8, <2>9, <2>10, <2>11 DEF InStep
  <2> QED
    BY <1>1, <1>3, <2>3, <2>4, <2>12 DEF AInv
<1>7. CASE RetHandlerRefuses
  <2>1. /\ Receive("RET-") /\ ~TopAllows(Head(toServer).addr)
        /\ srv' = "terminating" /\ culprit' = Head(toServer).from
        /\ toClient' = toClient
    BY <1>7 DEF RetHandlerRefuses, Raise
  <2>2. Pending /\ toClient = <<>> /\ ~Permitted /\ culprit' = Main
    BY <1>0, <2>1, ReturnReceived DEF AInv
  <2>3. Approved' /\ Blamed'
    BY <1>0, <1>4, <1>5, <2>1, <2>2 DEF Blamed, Pending
  <2> QED
    BY <1>1, <1>3, <2>1, <2>3 DEF AInv, InStep
<1>8. CASE RetHandlerContinues
  <2>1. /\ Receive("RET-") /\ TopAllows(Head(toServer).addr)
        /\ stk' = Front(stk) /\ culprit' = culprit
        /\ srv = "serving"
    BY <1>8 DEF RetHandlerContinues, Receive
  <2>2. /\ Pending /\ toClient = <<>> /\ Permitted /\ toServer' = <<>>
        /\ stk = Remembered(Main) /\ Head(toServer).from = Main
    BY <1>0, <2>1, ReturnReceived DEF AInv
  <2>3. culprit = NoClient
    BY <1>0, <2>1 DEF Blamed
  <2>4. CASE Connected
    <3>1. /\ toClient' = Append(toClient, Head(toServer).from)
          /\ srv' = srv /\ alarm' = alarm
      BY <1>8, <2>4 DEF RetHandlerContinues
    <3>2. toClient' = <<Main>>
      BY <2>2, <3>1
    <3>3. Approved'
      BY <1>4, <2>2, <3>2 DEF Approved, Pending
    <3>4. Blamed'
      BY <1>0, <2>1, <2>3, <3>1 DEF Blamed, Refused
    <3>5. InStep'
      BY <1>4, <2>1, <2>2, <3>2 DEF InStep, Pending
    <3> QED
      BY <1>1, <1>3, <3>3, <3>4, <3>5 DEF AInv
  <2>5. CASE ~Connected
    <3>1. srv' = "terminating" /\ alarm' = "broken" /\ toClient' = toClient
      BY <1>8, <2>5 DEF RetHandlerContinues, Raise
    <3>2. Approved' /\ Blamed'
      BY <1>0, <1>5, <2>1, <2>3, <3>1 DEF Blamed, Refused
    <3> QED
      BY <1>1, <1>3, <3>1, <3>2 DEF AInv, InStep
  <2> QED
    BY <2>4, <2>5
<1>9. CASE ServerSeesEnd
  <2>1. /\ srv = "serving" /\ srv' = "terminating" /\ culprit' = culprit
        /\ alarm' \in {"exited", "broken"} /\ toClient' = toClient
    BY <1>9 DEF ServerSeesEnd, Raise, socketVars
  <2>2. Approved' /\ Blamed'
    BY <1>0, <1>4, <1>5, <2>1 DEF Blamed, Refused
  <2> QED
    BY <1>1, <1>3, <2>1, <2>2 DEF AInv, InStep
<1>10. CASE ServerKillsGroup
  <2>1. /\ srv' = "spinning" /\ culprit' = culprit /\ alarm' = alarm
        /\ toClient' = toClient
    BY <1>10 DEF ServerKillsGroup, socketVars
  <2>2. Approved' /\ Blamed'
    BY <1>0, <1>4, <1>5, <2>1 DEF Blamed, Refused
  <2> QED
    BY <1>1, <1>3, <2>1, <2>2 DEF AInv, InStep
<1> QED
  BY <1>6, <1>7, <1>8, <1>9, <1>10 DEF ServerStep

-----------------------------------------------------------------------------
(* The client's steps. *)

LEMMA NoReturnAppend ==
    ASSUME NEW q \in Seq(Message), NEW m \in Message, NoReturn(q),
           m.type # "RET-"
    PROVE  NoReturn(Append(q, m))
<1>1. /\ Len(q) \in Nat
      /\ Len(Append(q, m)) = Len(q) + 1
      /\ \A i \in 1 .. Len(q) : Append(q, m)[i] = q[i]
      /\ Append(q, m)[Len(q) + 1] = m
  BY AppendFacts, LenProperties
<1> QED
  BY <1>1 DEF NoReturn

\* A call, a signal or an execve is sent: the server will do to its stack
\* what happened to the remembered calls.
LEMMA SentInStep ==
    ASSUME AInv, NEW m \in Message, Send(m), m.type # "RET-", m.from = Main,
           UNCHANGED <<held, goal, serverVars>>, goal[Main] = NoAddr,
           Remembered(Main)' = Handle(Remembered(Main), m)
    PROVE  Approved' /\ Blamed' /\ InStep'
<1>1. /\ toServer \in Seq(Message) /\ stk \in Seq(Frame)
      /\ Approved /\ Blamed /\ InStep /\ proc[Main] = Main
  BY DEF AInv, TypeOK, Program
<1>2. /\ toClient' = toClient /\ srv' = srv /\ stk' = stk /\ alarm' = alarm
      /\ culprit' = culprit
  BY DEF Send, socketVars, serverVars
<1>3. toClient = <<>> /\ culprit = NoClient
  BY <1>1 DEF Approved, Blamed, Pending
<1>4. Approved' /\ Blamed'
  BY <1>1, <1>2, <1>3 DEF Approved, Blamed, Refused
<1>5. ~Pending' /\ ~Pending
  BY DEF Pending
<1>6. NoReturn(toServer)' <=> NoReturn(toServer')
  BY DEF NoReturn
<1>7. Final(stk, toServer)' = Final(stk', toServer')
  BY DEF Final, Handle
<1>8. CASE Main \in held
  <2>1. toServer' = Append(toServer, m)
    BY <1>1, <1>8 DEF Send
  <2>2. NoReturn(toServer) => NoReturn(toServer')
    BY <1>1, <2>1, NoReturnAppend
  <2>3. Final(stk, toServer') = Handle(Final(stk, toServer), m)
    BY <1>1, <2>1, FinalAppend
  <2> QED
    BY <1>1, <1>2, <1>4, <1>5, <1>6, <1>7, <2>2, <2>3 DEF InStep
<1>9. CASE Main \notin held
  <2>1. toServer' = toServer
    BY <1>1, <1>9 DEF Send, socketVars
  <2> QED
    BY <1>1, <1>2, <1>4, <1>5, <1>6, <1>9, <2>1 DEF InStep
<1> QED
  BY <1>8, <1>9

\* A step that touches neither the socket nor the server.
LEMMA ElsewhereInStep ==
    ASSUME AInv, UNCHANGED <<held, goal, socketVars, serverVars>>,
           Remembered(Main)' = Remembered(Main), Permitted' <=> Permitted
    PROVE  Approved' /\ Blamed' /\ InStep'
<1>1. /\ Approved /\ Blamed /\ InStep
      /\ toServer' = toServer /\ toClient' = toClient /\ srv' = srv
      /\ stk' = stk /\ alarm' = alarm /\ culprit' = culprit
      /\ held' = held /\ goal' = goal
  BY DEF AInv, socketVars, serverVars
<1>2. Approved' /\ Blamed'
  BY <1>1 DEF Approved, Blamed, Refused, Pending
<1>3. (Pending' <=> Pending) /\ (NoReturn(toServer)' <=> NoReturn(toServer))
  BY <1>1 DEF Pending, NoReturn
<1>4. Final(stk, toServer)' = Final(stk, toServer)
  BY <1>1 DEF Final, Handle
<1>5. Asked(stk, toServer)' <=> Asked(stk, toServer)
  <2>1. Final(stk, Front(toServer))' = Final(stk, Front(toServer))
    BY <1>1 DEF Final, Handle
  <2> QED
    BY <1>1, <2>1 DEF Asked, NoReturn
<1> QED
  BY <1>1, <1>2, <1>3, <1>4, <1>5 DEF InStep

\* The client stops where it is.
LEMMA StopAlone ==
    ASSUME AInv, TypeOK', UNCHANGED <<proc, held, socketVars, serverVars, historyVars>>,
           status'[Main] \in {status[Main], "failing", "spinning", "dead"}
    PROVE  AInv'
<1>1. Remembered(Main)' = Remembered(Main) /\ (Permitted' <=> Permitted)
      /\ UNCHANGED goal
  BY DEF Remembered, Permitted, historyVars
<1>2. Program'
  BY DEF AInv, Program, historyVars
<1> QED
  BY <1>1, <1>2, ElsewhereInStep DEF AInv

LEMMA AskAlone ==
    ASSUME AInv, TypeOK', NEW a \in Addr, OnRetSends(Main, a)
    PROVE  AInv'
<1> DEFINE m == [type |-> "RET-", addr |-> a, from |-> Main]
<1>0. /\ TypeOK /\ Program /\ Approved /\ Blamed /\ InStep
      /\ toServer \in Seq(Message) /\ stk \in Seq(Frame)
      /\ Main \in Client /\ a # NoAddr
  BY MainTypes, AddrAssumption DEF AInv, TypeOK
<1>1. m \in Message /\ m.type = "RET-" /\ m.addr = a /\ m.from = Main
  BY <1>0, MessageTypes
<1>2. /\ Send(m) /\ status[Main] = "running"
      /\ status'[Main] = IF proc[Main] \in held THEN "waiting" ELSE "astray"
      /\ goal'[Main] = a
      /\ UNCHANGED <<proc, held, stk, srv, alarm, culprit, frames, lost>>
  BY <1>0 DEF OnRetSends, serverVars, TypeOK
<1> HIDE DEF m
<1>3. Program'
  BY <1>0, <1>2 DEF Program
<1>4. goal[Main] = NoAddr /\ ~Pending /\ proc[Main] = Main
  BY <1>0, <1>2 DEF Program, Pending
<1>5. toClient = <<>> /\ culprit = NoClient /\ toClient' = toClient
  BY <1>0, <1>1, <1>2, <1>4 DEF Approved, Blamed, Send, socketVars
<1>6. Approved' /\ Blamed'
  BY <1>0, <1>2, <1>5 DEF Approved, Blamed, Refused
<1>7. Remembered(Main)' = Remembered(Main)
  BY <1>2 DEF Remembered
<1>8. InStep'
  <2>1. CASE Main \in held
    <3>1. toServer' = Append(toServer, m)
      BY <1>1, <1>2, <1>4, <2>1 DEF Send
    <3>2. Front(toServer') = toServer /\ Last(toServer') = m /\ toServer' # <<>>
      BY <1>0, <1>1, <3>1, FrontOfAppend
    <3>3. Final(stk, Front(toServer))' = Final(stk, toServer)
      BY <1>2, <3>2 DEF Final, Handle
    <3>4. srv = "serving" => Asked(stk, toServer)'
      BY <1>0, <1>1, <1>2, <1>4, <1>7, <2>1, <3>2, <3>3
         DEF InStep, Asked, NoReturn
    <3> QED
      BY <1>0, <1>2, <1>5, <2>1, <3>4 DEF InStep, Pending
  <2>2. CASE Main \notin held
    <3>1. toServer' = toServer
      BY <1>1, <1>2, <1>4, <2>2 DEF Send, socketVars
    <3> QED
      BY <1>0, <1>2, <1>4, <2>2, <3>1 DEF InStep, NoReturn, Pending
  <2> QED
    BY <2>1, <2>2
<1> QED
  BY <1>3, <1>6, <1>8 DEF AInv

LEMMA ContinueAlone ==
    ASSUME AInv, TypeOK', OnRetContinues(Main)
    PROVE  AInv' /\ Permitted
<1>0. /\ TypeOK /\ Program /\ Approved /\ Blamed /\ InStep
      /\ stk \in Seq(Frame) /\ Main \in Client
      /\ frames[Main] \in Seq(Frame) /\ Len(frames[Main]) \in Nat
      /\ lost[Main] \in Nat
  BY MainTypes DEF AInv, TypeOK
<1>1. /\ status'[Main] = "running"
      /\ toClient # <<>> /\ toClient' = Tail(toClient)
      /\ frames'[Main] = Front(frames[Main])
      /\ goal'[Main] = NoAddr
      /\ UNCHANGED <<proc, held, toServer, stk, srv, alarm, culprit>>
  BY <1>0 DEF OnRetContinues, ReturnExecuted, serverVars, TypeOK
<1>2. toClient = <<Main>> /\ Pending /\ goal[Main] # NoAddr /\ Permitted
  BY <1>0, <1>1 DEF Approved, Pending
<1>a. lost' = lost
  <2>1. lost[Main] < Len(frames[Main])
    BY <1>0, <1>2 DEF Permitted
  <2>2. lost' = [lost EXCEPT ![Main] = lost[Main]]
    BY <2>1 DEF OnRetContinues, ReturnExecuted
  <2> QED
    BY <1>0, <2>2 DEF TypeOK
<1>3. toClient' = <<>> /\ culprit = NoClient
  BY <1>0, <1>1, <1>2 DEF Blamed
<1>4. /\ Remembered(Main)' = Front(Remembered(Main))
      /\ lost'[Main] <= Len(frames'[Main])
  BY <1>0, <1>1, <1>2, <1>a, OpenFront, RememberedIsOpen DEF Permitted
<1>5. Program'
  BY <1>0, <1>1, <1>4 DEF Program
<1>6. Approved' /\ Blamed'
  BY <1>0, <1>1, <1>3 DEF Approved, Blamed, Refused
<1>7. InStep'
  <2> SUFFICES ASSUME srv = "serving" PROVE InStep'
    BY <1>1 DEF InStep
  <2>1. ~Pending'
    BY <1>1 DEF Pending
  <2>2. NoReturn(toServer)'
    <3>1. CASE Main \in held
      <4>1. toServer = <<>>
        BY <1>0, <1>1, <1>2, <3>1 DEF InStep, Pending
      <4> QED
        BY <1>1, <4>1 DEF NoReturn
    <3>2. CASE Main \notin held
      BY <1>0, <1>1, <3>2 DEF InStep, Pending, NoReturn
    <3> QED
      BY <3>1, <3>2
  <2>3. CASE Main \in held
    <3>1. toServer = <<>> /\ stk = Front(Remembered(Main))
      BY <1>0, <1>1, <1>2, <2>3 DEF InStep, Pending
    <3>2. Final(stk, toServer) = Remembered(Main)'
      BY <1>0, <1>4, <3>1, FinalEmpty
    <3>3. Final(stk, toServer)' = Final(stk, toServer)
      BY <1>1 DEF Final, Handle
    <3> QED
      BY <2>1, <2>2, <3>2, <3>3 DEF InStep
  <2>4. CASE Main \notin held
    BY <1>1, <2>1, <2>2, <2>4 DEF InStep
  <2> QED
    BY <2>3, <2>4
<1> QED
  BY <1>2, <1>5, <1>6, <1>7 DEF AInv

LEMMA ClientAlone ==
    TypeOK' /\ OneSoFar' /\ AInv /\ ClientStep(Main) => AInv'
<1> SUFFICES ASSUME TypeOK', OneSoFar', AInv, ClientStep(Main) PROVE AInv'
  OBVIOUS
<1> DEFINE f == frames[Main]  l == lost[Main]
<1>0. /\ TypeOK /\ Program /\ Main \in Client
      /\ status \in [Client -> Statuses]
      /\ f \in Seq(Frame) /\ Len(f) \in Nat /\ l \in Nat
      /\ Remembered(Main) = Open(f, l)
      /\ Remembered(Main)' = Open(frames'[Main], lost'[Main])
      /\ l <= Len(f)
  BY MainTypes, RememberedIsOpen DEF AInv, TypeOK, Program
<1>1. TypeOK'
  OBVIOUS
<1>2. ASSUME NEW a \in Addr, OnCall(Main, a) PROVE AInv'
  <2> DEFINE m == [type |-> "CALL", addr |-> a, from |-> Main]
  <2>1. m \in Message /\ m.type = "CALL" /\ m.addr = a /\ m.from = Main
    BY <1>0, MessageTypes
  <2>2. /\ Send(m) /\ status[Main] = "running"
        /\ frames'[Main] = Append(f, a)
        /\ UNCHANGED <<status, proc, held, serverVars, lost, goal>>
    BY <1>0, <1>2 DEF OnCall, TypeOK
  <2> HIDE DEF m
  <2>3. Len(Append(f, a)) = Len(f) + 1 /\ a \in Frame
    BY <1>0, AppendFacts DEF Frame
  <2>4. Program'
    BY <1>0, <2>2, <2>3 DEF Program
  <2>5. Remembered(Main)' = Handle(Remembered(Main), m)
    BY <1>0, <2>1, <2>2, <2>3, OpenAppend DEF Handle
  <2> QED
    BY <1>0, <1>1, <2>1, <2>2, <2>4, <2>5, SentInStep DEF AInv, Program
<1>3. CASE OnSignal(Main)
  <2> DEFINE m == [type |-> "NEWS", from |-> Main]
  <2>1. m \in Message /\ m.type = "NEWS" /\ m.from = Main
    BY <1>0 DEF Message
  <2>2. /\ Send(m) /\ status[Main] = "running"
        /\ frames'[Main] = Append(f, WILDCARD)
        /\ UNCHANGED <<status, proc, held, serverVars, lost, goal>>
    BY <1>0, <1>3 DEF OnSignal, TypeOK
  <2> HIDE DEF m
  <2>3. Len(Append(f, WILDCARD)) = Len(f) + 1 /\ WILDCARD \in Frame
    BY <1>0, AppendFacts DEF Frame
  <2>4. Program'
    BY <1>0, <2>2, <2>3 DEF Program
  <2>5. Remembered(Main)' = Handle(Remembered(Main), m)
    BY <1>0, <2>1, <2>2, <2>3, OpenAppend DEF Handle
  <2> QED
    BY <1>0, <1>1, <2>1, <2>2, <2>4, <2>5, SentInStep DEF AInv, Program
<1>4. CASE PreExecve(Main) \/ ExecveFails(Main)
  <2> DEFINE m == [type |-> "EXEC", from |-> Main]
  <2>1. m \in Message /\ m.type = "EXEC" /\ m.from = Main
    BY <1>0 DEF Message
  <2>2. /\ Send(m) /\ status[Main] \in {"running", "execing"}
        /\ status'[Main] \in {"running", "execing"}
        /\ frames' = frames /\ lost'[Main] = Len(f)
        /\ UNCHANGED <<proc, held, serverVars, goal>>
    <3>1. CASE PreExecve(Main)
      BY <1>0, <3>1 DEF PreExecve, TypeOK
    <3>2. CASE ExecveFails(Main)
      BY <1>0, <3>2 DEF ExecveFails, Program, historyVars
    <3> QED
      BY <1>4, <3>1, <3>2
  <2> HIDE DEF m
  <2>4. Program'
    BY <1>0, <2>2 DEF Program
  <2>5. Remembered(Main)' = Handle(Remembered(Main), m)
    BY <1>0, <2>1, <2>2, OpenNothing DEF Handle
  <2> QED
    BY <1>0, <1>1, <2>1, <2>2, <2>4, <2>5, SentInStep DEF AInv, Program
<1>5. ASSUME NEW a \in Addr, OnRetSends(Main, a) PROVE AInv'
  BY <1>1, <1>5, AskAlone
<1>6. CASE OnRetContinues(Main)
  BY <1>1, <1>6, ContinueAlone
<1>b. CASE AstrayContinues(Main)
  <2> DEFINE r == Front(f)  n == IF l < Len(f) THEN l ELSE Len(r)
  <2>1. r \in Seq(Frame) /\ Len(r) \in Nat /\ n <= Len(r)
    <3>1. r \in Seq(Frame) /\ Len(r) \in Nat
      BY <1>0, FrontInSeq, LenProperties
    <3>2. CASE l < Len(f)
      <4>1. Len(r) = Len(f) - 1
        BY <1>0, <3>2, EmptySeq, FrontFacts
      <4> QED
        BY <1>0, <3>1, <3>2, <4>1
    <3>3. CASE ~(l < Len(f))
      BY <3>1, <3>3
    <3> QED
      BY <3>1, <3>2, <3>3
  <2>2. /\ status[Main] = "astray" /\ status'[Main] = "running"
        /\ frames'[Main] = r /\ lost'[Main] = n /\ goal'[Main] = NoAddr
        /\ UNCHANGED <<proc, held, toServer, toClient, stk, srv, alarm, culprit>>
    BY <1>0, <1>b DEF AstrayContinues, ReturnExecuted, TypeOK, socketVars,
       serverVars
  <2> HIDE DEF r, n
  <2>3. Main \notin held /\ ~Pending /\ ~Pending'
    BY <1>0, <2>2 DEF Program, Pending
  <2>4. Program'
    BY <1>0, <2>1, <2>2 DEF Program
  <2>5. Approved' /\ Blamed'
    BY <2>2, <2>3 DEF AInv, Approved, Blamed, Refused
  <2>6. InStep'
    BY <2>2, <2>3 DEF AInv, InStep, NoReturn
  <2> QED
    BY <1>1, <2>4, <2>5, <2>6 DEF AInv
<1>7. CASE RecvFails(Main) \/ RecvInterrupted(Main) \/ AstrayFails(Main)
           \/ WriteFails(Main)
  <2>1. /\ UNCHANGED <<proc, held, socketVars, serverVars, historyVars>>
        /\ status'[Main] = "failing"
    BY <1>0, <1>7 DEF RecvFails, RecvInterrupted, AstrayFails, WriteFails
  <2> QED
    BY <1>1, <2>1, StopAlone
<1>8. CASE WriteRaisesSigpipe(Main) \/ EnvWalkCrashes(Main)
           \/ ExitProcess(Main) \/ ThreadExit(Main)
  <2>1. /\ UNCHANGED <<proc, held, socketVars, serverVars, historyVars>>
        /\ status'[Main] = "dead"
    BY <1>0, <1>8 DEF WriteRaisesSigpipe, EnvWalkCrashes, ExitProcess, ThreadExit
  <2> QED
    BY <1>1, <2>1, StopAlone
<1>9. CASE ClientKillsGroup(Main)
  <2>1. /\ UNCHANGED <<proc, held, socketVars, serverVars, historyVars>>
        /\ status'[Main] = "spinning"
    BY <1>0, <1>9 DEF ClientKillsGroup
  <2> QED
    BY <1>1, <2>1, StopAlone
<1>10. CASE DropSocket(Main)
  <2>1. /\ Main \notin held' /\ goal[Main] = NoAddr
        /\ UNCHANGED <<status, proc, toServer, toClient, stk, srv, alarm,
                       culprit, frames, lost, goal>>
    BY <1>0, <1>10 DEF DropSocket, Program, socketVars, serverVars, historyVars
  <2>2. Program'
    BY <1>0, <2>1 DEF Program
  <2>3. Approved' /\ Blamed'
    BY <2>1 DEF AInv, Approved, Blamed, Refused, Permitted, Pending
  <2>4. InStep'
    BY <2>1 DEF AInv, InStep, Pending, NoReturn
  <2> QED
    BY <1>1, <2>2, <2>3, <2>4 DEF AInv
<1>11. CASE ExecveSucceeds(Main)
  <2>1. /\ status[Main] = "execing" /\ status'[Main] = "running"
        /\ frames'[Main] = <<>> /\ lost'[Main] = 0
        /\ UNCHANGED <<proc, held, socketVars, serverVars, goal>>
    BY <1>0, <1>11 DEF ExecveSucceeds, TypeOK
  <2>2. l = Len(f) /\ goal[Main] = NoAddr
    BY <1>0, <2>1 DEF Program
  <2>3. Len(<<>>) = 0 /\ <<>> \in Seq(Frame)
    BY EmptySeq
  <2>4. Program'
    BY <1>0, <2>1, <2>2, <2>3 DEF Program
  <2>5. Remembered(Main) = <<>>
    BY <1>0, <2>2, OpenNothing
  <2>6. Remembered(Main)' = <<>>
    BY <1>0, <2>1, <2>3, OpenNothing
  <2>7. ~Permitted /\ ~Permitted'
    BY <1>0, <2>1, <2>2, <2>3 DEF Permitted
  <2> QED
    BY <1>1, <2>1, <2>4, <2>5, <2>6, <2>7, ElsewhereInStep DEF AInv
<1>12. ASSUME NEW d \in Children \union Workers,
              Fork(Main, d) \/ Clone(Main, d)
       PROVE  FALSE
  <2>1. /\ status[Main] = "running" /\ status[d] = "unborn"
        /\ status' = [status EXCEPT ![d] = "running"]
    BY <1>12 DEF Fork, Clone
  <2>2. d \in Client \ {Main}
    BY <2>1 DEF Client
  <2>3. status'[d] = "running"
    BY <1>0, <2>1, <2>2
  <2> QED
    BY <2>2, <2>3 DEF OneSoFar
<1> QED
  BY <1>2, <1>3, <1>4, <1>5, <1>6, <1>b, <1>7, <1>8, <1>9, <1>10, <1>11, <1>12
  DEF ClientStep

\* Nobody goes back to before its birth.
LEMMA NobodyBefore ==
    ASSUME TypeOK, [Next]_vars, NEW d \in Client, status'[d] = "unborn"
    PROVE  status[d] = "unborn"
<1>0. status \in [Client -> Statuses]
  BY DEF TypeOK
<1>1. ASSUME NEW c \in Client, ClientStep(c) PROVE status[d] = "unborn"
  <2>1. CASE \E a \in Addr : OnCall(c, a) \/ OnRetSends(c, a)
    BY <1>0, <2>1 DEF OnCall, OnRetSends
  <2>2. CASE OnSignal(c) \/ OnRetContinues(c) \/ AstrayContinues(c)
             \/ RecvFails(c) \/ RecvInterrupted(c) \/ AstrayFails(c)
             \/ WriteFails(c)
    BY <1>0, <2>2 DEF OnSignal, OnRetContinues, AstrayContinues,
       ReturnExecuted, RecvFails, RecvInterrupted, AstrayFails, WriteFails
  <2>3. CASE WriteRaisesSigpipe(c) \/ EnvWalkCrashes(c) \/ ExitProcess(c)
             \/ ExecveSucceeds(c)
    BY <1>0, <2>3 DEF WriteRaisesSigpipe, EnvWalkCrashes, ExitProcess,
       ExecveSucceeds
  <2>4. CASE DropSocket(c) \/ PreExecve(c) \/ ExecveFails(c)
             \/ ThreadExit(c) \/ ClientKillsGroup(c)
    BY <1>0, <2>4 DEF DropSocket, PreExecve, ExecveFails, ThreadExit,
       ClientKillsGroup
  <2>5. CASE \/ \E e \in Children : Fork(c, e)
             \/ \E e \in Workers : Clone(c, e)
    BY <1>0, <2>5 DEF Fork, Clone
  <2> QED
    BY <1>1, <2>1, <2>2, <2>3, <2>4, <2>5 DEF ClientStep
<1>2. ASSUME NEW c \in Client, Reap(c) PROVE status[d] = "unborn"
  BY <1>0, <1>2 DEF Reap
<1>3. CASE ServerStep \/ ServerCrashes \/ ReapServer \/ UNCHANGED vars
  BY <1>3 DEF ServerStep, CallHandler, AddWildcard, ClearStack,
     RetHandlerRefuses, RetHandlerContinues, ServerSeesEnd, ServerKillsGroup,
     ServerCrashes, ReapServer, vars
<1> QED
  BY <1>1, <1>2, <1>3 DEF Next

\* As long as there is one client, only it steps.
LEMMA OnlyMainSteps ==
    ASSUME AInv, OneSoFar, NEW c \in Client, ClientStep(c) \/ Reap(c)
    PROVE  c = Main
<1> SUFFICES ASSUME c # Main PROVE FALSE
  OBVIOUS
<1>1. status[c] = "unborn"
  BY DEF OneSoFar
<1>2. CASE ClientStep(c)
  BY <1>1, <1>2 DEF ClientStep, OnCall, OnRetSends, OnSignal, OnRetContinues,
     RecvFails, RecvInterrupted, AstrayContinues, AstrayFails, WriteFails,
     WriteRaisesSigpipe, DropSocket, PreExecve, EnvWalkCrashes, ExecveFails, ExecveSucceeds, Fork,
     Clone, ThreadExit, ExitProcess, ClientKillsGroup
<1>3. CASE Reap(c)
  <2>1. PICK d \in Client : Live(d) /\ proc[d] = c
    BY <1>3 DEF Reap
  <2>2. d = Main
    BY <2>1 DEF OneSoFar, Live
  <2> QED
    BY <2>1, <2>2 DEF AInv, Program
<1> QED
  BY <1>2, <1>3

\* The invariant of any program: what holds until it forks or clones.
UntilShared == TypeOK /\ (OneSoFar => AInv)

LEMMA StepAlone == UntilShared /\ [Next]_vars => UntilShared'
<1> SUFFICES ASSUME UntilShared, [Next]_vars PROVE UntilShared'
  OBVIOUS
<1>1. TypeOK'
  BY StepType DEF UntilShared
<1> SUFFICES ASSUME OneSoFar' PROVE AInv'
  BY <1>1 DEF UntilShared
<1>a. OneSoFar
  BY NobodyBefore DEF UntilShared, OneSoFar
<1>0. TypeOK /\ Main \in Client /\ AInv
  BY <1>a, MainTypes DEF UntilShared
<1>2. CASE Reap(Main)
  <2>1. /\ UNCHANGED <<proc, held, socketVars, serverVars, historyVars>>
        /\ status'[Main] \in {status[Main], "dead"}
    BY <1>0, <1>2 DEF Reap
  <2> QED
    BY <1>0, <1>1, <2>1, StopAlone
<1>3. CASE ServerCrashes \/ ReapServer
  <2>1. /\ srv' = "dead" /\ UNCHANGED <<status, proc, held, toClient, alarm,
                                        culprit, frames, lost, goal>>
    BY <1>3 DEF ServerCrashes, ReapServer, socketVars, historyVars
  <2>2. Program' /\ Approved' /\ Blamed' /\ InStep'
    BY <1>0, <2>1 DEF AInv, Program, Approved, Blamed, Refused, Permitted,
       Pending, InStep
  <2> QED
    BY <1>1, <2>2 DEF AInv
<1>4. CASE UNCHANGED vars
  <2>1. /\ UNCHANGED <<proc, held, socketVars, serverVars, historyVars>>
        /\ status' = status
    BY <1>4 DEF vars
  <2> QED
    BY <1>0, <1>1, <2>1, StopAlone
<1>5. \/ ClientStep(Main) \/ Reap(Main) \/ ServerStep
      \/ ServerCrashes \/ ReapServer \/ UNCHANGED vars
  BY <1>0, <1>a, OnlyMainSteps DEF Next
<1> QED
  BY <1>0, <1>1, <1>2, <1>3, <1>4, <1>5, ServerAlone, ClientAlone

-----------------------------------------------------------------------------
(* What follows. *)

LEMMA AloneLockstep == AInv => LockstepAcrossSocket
<1> SUFFICES ASSUME AInv, srv = "serving", Main \in held
             PROVE  Final(stk, toServer) =
                        IF goal[Main] # NoAddr THEN Front(Remembered(Main))
                                               ELSE Remembered(Main)
  BY DEF LockstepAcrossSocket
<1>0. /\ toServer \in Seq(Message) /\ stk \in Seq(Frame) /\ InStep
      /\ Main \in Client
  BY DEF AInv, TypeOK, Client
<1>1. CASE goal[Main] = NoAddr
  BY <1>0, <1>1 DEF InStep
<1>2. CASE goal[Main] # NoAddr /\ toClient = <<>>
  <2>1. Asked(stk, toServer)
    BY <1>0, <1>2 DEF InStep, Pending
  <2> DEFINE m == Last(toServer)  q == Front(toServer)
  <2>2. /\ q \in Seq(Message) /\ m \in Message /\ toServer = Append(q, m)
        /\ m.type = "RET-" /\ Final(stk, q) = Remembered(Main)
    BY <1>0, <2>1, FrontInSeq, FrontFacts, FrontAndLast DEF Asked
  <2> HIDE DEF m, q
  <2>3. Final(stk, toServer) = Handle(Remembered(Main), m)
    BY <1>0, <2>2, FinalAppend
  <2> QED
    BY <1>2, <2>2, <2>3 DEF Handle
<1>3. CASE goal[Main] # NoAddr /\ toClient # <<>>
  BY <1>0, <1>3, FinalEmpty DEF InStep, Pending
<1> QED
  BY <1>1, <1>2, <1>3

LEMMA AloneRefused == AInv => OnlyBadReturnsRefused
<1> SUFFICES ASSUME AInv, Refused
             PROVE  \/ Corrupt(culprit)
                    \/ /\ lost[culprit] > 0
                       /\ Len(frames[culprit]) = lost[culprit]
  BY DEF OnlyBadReturnsRefused
<1>1. culprit = Main /\ ~Permitted /\ lost[Main] <= Len(frames[Main])
      /\ Main # NoClient
  BY ClientAssumption DEF AInv, Blamed, Program
<1>2. frames[Main] \in Seq(Frame) /\ Len(frames[Main]) \in Nat /\ lost[Main] \in Nat
  BY MainTypes DEF AInv
<1>3. frames[Main] = <<>> \/ Len(frames[Main]) > 0
  BY <1>2, EmptySeq
<1> QED
  BY <1>1, <1>2, <1>3 DEF Permitted, Corrupt

LEMMA UntilSharedCorrect == Spec => []UntilShared
<1>1. Init => UntilShared
  BY InitAlone DEF UntilShared, AInv
<1> QED
  BY <1>1, StepAlone, PTL DEF Spec

LEMMA AloneCorrect ==
    ASSUME Alone
    PROVE  Spec => []AInv
<1>1. UntilShared => AInv
  BY OnlyMain DEF UntilShared
<1> QED
  BY <1>1, UntilSharedCorrect, PTL

\* Until the program first forks or creates a thread, and until it drops the
\* socket, the server's stack is the client's remembered calls once it has
\* handled what is under way: however many messages the socket holds, and
\* whoever dies when.
THEOREM LockstepUntilShared == Spec => [](OneSoFar => LockstepAcrossSocket)
<1>1. UntilShared => (OneSoFar => LockstepAcrossSocket)
  BY AloneLockstep DEF UntilShared
<1> QED
  BY <1>1, UntilSharedCorrect, PTL

\* Until then, the server refuses a return only if its target is not the
\* one of the innermost call, or every open call was forgotten by an execve
\* attempt: no delay of the socket makes a good return look bad.
THEOREM RefusalsUntilShared == Spec => [](OneSoFar => OnlyBadReturnsRefused)
<1>1. UntilShared => (OneSoFar => OnlyBadReturnsRefused)
  BY AloneRefused DEF UntilShared
<1> QED
  BY <1>1, UntilSharedCorrect, PTL

\* Until then, and until the program drops the socket, no return to a corrupted
\* address is executed, although the client takes any Continue it finds in the
\* socket (recv_msg in on_ret).
THEOREM ReturnsUntilShared ==
    Spec => [][OneSoFar => \A c \in Client :
                  goal[c] # NoAddr /\ goal'[c] = NoAddr /\ proc[c] \in held
                      => ~Corrupt(c)]_vars
<1>1. ASSUME UntilShared, UntilShared', [Next]_vars
      PROVE  [OneSoFar => \A c \in Client :
                 goal[c] # NoAddr /\ goal'[c] = NoAddr /\ proc[c] \in held
                     => ~Corrupt(c)]_vars
  <2> SUFFICES ASSUME OneSoFar, NEW c \in Client, goal[c] # NoAddr,
                      goal'[c] = NoAddr, proc[c] \in held
               PROVE  ~Corrupt(c)
    OBVIOUS
  <2>0. AInv /\ TypeOK' /\ status \in [Client -> Statuses]
        /\ goal \in [Client -> Addr \union {NoAddr}]
    BY <1>1 DEF UntilShared, TypeOK
  <2>1. PICK d \in Client : ClientStep(d)
    <3>1. ~(ServerStep \/ ServerCrashes \/ ReapServer \/ UNCHANGED vars)
      BY DEF ServerStep, CallHandler, AddWildcard, ClearStack,
         RetHandlerRefuses, RetHandlerContinues, ServerSeesEnd,
         ServerKillsGroup, ServerCrashes, ReapServer, vars, historyVars
    <3>2. \A d \in Client : ~Reap(d)
      BY DEF Reap, historyVars
    <3> QED
      BY <1>1, <3>1, <3>2 DEF Next
  <2>2. d = Main
    BY <2>0, <2>1, OnlyMainSteps
  <2>3. OnRetContinues(Main) \/ AstrayContinues(Main)
    BY <2>0, <2>1, <2>2, AddrAssumption
    DEF ClientStep, OnCall, OnRetSends, OnSignal, RecvFails, RecvInterrupted,
        AstrayFails, WriteFails, WriteRaisesSigpipe, DropSocket, PreExecve,
        EnvWalkCrashes, ExecveFails, ExecveSucceeds, Fork, Clone, ThreadExit,
        ExitProcess, ClientKillsGroup, historyVars
  <2>4. c = Main
    BY <2>0, <2>3 DEF OnRetContinues, AstrayContinues, ReturnExecuted
  <2>5. OnRetContinues(Main)
    BY <2>0, <2>3, <2>4 DEF AstrayContinues, AInv, Program
  <2>6. Permitted
    BY <2>0, <2>5, ContinueAlone
  <2>7. frames[Main] \in Seq(Frame) /\ lost[Main] \in Nat
    BY <2>0, MainTypes DEF AInv
  <2>8. frames[Main] # <<>>
    BY <2>6, <2>7, EmptySeq DEF Permitted
  <2> QED
    BY <2>4, <2>6, <2>8 DEF Permitted, Corrupt
<1> QED
  BY <1>1, UntilSharedCorrect, PTL DEF Spec

\* In a program that never forks or creates a thread the server's stack and
\* the client's calls agree across the socket, as long as the program leaves
\* the socket alone.
THEOREM LockstepAloneCorrect ==
    ASSUME Alone
    PROVE  Spec => []LockstepAcrossSocket
  BY AloneCorrect, AloneLockstep, PTL

\* Nor does the server ever refuse a good return of such a program.
THEOREM RefusalsAloneCorrect ==
    ASSUME Alone
    PROVE  Spec => []OnlyBadReturnsRefused
  BY AloneCorrect, AloneRefused, PTL

\* Nor does such a program execute a return to a corrupted address, as long as
\* it has the socket.
THEOREM ReturnsAloneCorrect ==
    ASSUME Alone
    PROVE  Spec => NoCorruptReturnExecuted
<1>1. [OneSoFar => \A c \in Client :
          goal[c] # NoAddr /\ goal'[c] = NoAddr /\ proc[c] \in held
              => ~Corrupt(c)]_vars
      => [\A c \in Client :
             goal[c] # NoAddr /\ goal'[c] = NoAddr /\ proc[c] \in held
                 => ~Corrupt(c)]_vars
  BY OnlyMain
<1> QED
  BY <1>1, ReturnsUntilShared, PTL DEF NoCorruptReturnExecuted

-----------------------------------------------------------------------------
(* The external mode with one client implements ReturnGuard. *)

LEMMA GuardStates ==
    ASSUME NEW c \in Client
    PROVE  /\ Live(c) /\ culprit = c => GuardState[c] = "halted"
           /\ Live(c) /\ culprit # c /\ proc[c] \notin held
                  => GuardState[c] = "escaped"
           /\ Live(c) /\ culprit # c /\ proc[c] \in held
              /\ (status[c] \in {"failing", "spinning"} => goal[c] # NoAddr)
                  => GuardState[c] = "running"
           /\ status[c] \in {"failing", "spinning"} /\ culprit # c
              /\ proc[c] \in held /\ goal[c] = NoAddr
                  => GuardState[c] = "gone"
           /\ status[c] = "dead" => GuardState[c] = "gone"
           /\ status[c] # "unborn" => GuardState[c] # "unborn"
           /\ status[c] = "unborn" => GuardState[c] = "unborn"
  BY Zenon DEF GuardState, Live

LEMMA GuardStatesPrime ==
    ASSUME NEW c \in Client
    PROVE  /\ Live(c)' /\ culprit' = c => GuardState'[c] = "halted"
           /\ Live(c)' /\ culprit' # c /\ proc'[c] \notin held'
                  => GuardState'[c] = "escaped"
           /\ Live(c)' /\ culprit' # c /\ proc'[c] \in held'
              /\ (status'[c] \in {"failing", "spinning"} => goal'[c] # NoAddr)
                  => GuardState'[c] = "running"
           /\ status'[c] \in {"failing", "spinning"} /\ culprit' # c
              /\ proc'[c] \in held' /\ goal'[c] = NoAddr
                  => GuardState'[c] = "gone"
           /\ status'[c] = "dead" => GuardState'[c] = "gone"
  BY Zenon DEF GuardState, Live

LEMMA GuardStateIsFunction ==
    /\ GuardState = [c \in Client |-> GuardState[c]]
    /\ GuardState' = [c \in Client |-> GuardState'[c]]
  BY DEF GuardState

\* With one client its place is all there is.
LEMMA OnePlace ==
    ASSUME Alone
    PROVE  /\ GuardState'[Main] = GuardState[Main] => UNCHANGED GuardState
           /\ \A p : GuardState'[Main] = p
                        => GuardState' = [GuardState EXCEPT ![Main] = p]
           /\ GuardState'[Main] = "gone"
                => GuardState' = [c \in Client |-> IF c \in {Main} THEN "gone"
                                                   ELSE GuardState[c]]
<1>1. Client = {Main}
  BY OnlyMain
<1> QED
  BY <1>1, GuardStateIsFunction

\* A step that ends the client.
LEMMA EndAlone ==
    ASSUME Alone, AInv, GuardState'[Main] = "gone", UNCHANGED historyVars
    PROVE  Guard!Next
<1>1. Main \in Client /\ GuardState[Main] # "unborn"
  BY MainTypes, GuardStates DEF AInv, Program
<1>2. Guard!Vanish({Main})
  BY <1>1, OnePlace DEF Guard!Vanish, historyVars
<1> QED
  BY <1>1, <1>2 DEF Guard!Next

\* A step nothing is seen of: the client's place and history stay.
LEMMA StutterAlone ==
    ASSUME Alone, AInv, UNCHANGED <<historyVars, culprit, proc, held>>,
           \/ status' = status
           \/ /\ status[Main] # "dead" /\ status'[Main] \notin {"dead", "unborn"}
              /\ status'[Main] \in {"failing", "spinning"} => goal[Main] # NoAddr
              /\ status[Main] \in {"failing", "spinning"} => goal[Main] # NoAddr
           \/ {status[Main], status'[Main]} \subseteq {"failing", "spinning"}
    PROVE  UNCHANGED Guard!vars
<1>0. Main \in Client /\ Client = {Main} /\ status[Main] # "unborn"
      /\ proc[Main] = Main
  BY OnlyMain DEF AInv, Program
<1>1. GuardState'[Main] = GuardState[Main]
  <2>1. CASE status' = status
    BY <2>1 DEF GuardState, Live, historyVars
  <2>2. CASE status' # status
    BY <1>0, <2>2, GuardStates, GuardStatesPrime DEF Live, historyVars
  <2> QED
    BY <2>1, <2>2
<1> QED
  BY <1>1, OnePlace DEF historyVars, Guard!vars

\* Without the socket the client does what it likes, and does not come back.
LEMMA EscapedRefines ==
    ASSUME Alone, AInv, AInv', [Next]_vars, Main \notin held
    PROVE  Guard!Next \/ UNCHANGED Guard!vars
<1>0. /\ Main \in Client /\ Client = {Main} /\ Main # NoClient
      /\ status \in [Client -> Statuses] /\ TypeOK'
      /\ proc[Main] = Main /\ proc'[Main] = Main
      /\ status[Main] # "unborn" /\ status'[Main] # "unborn"
  BY OnlyMain, ClientAssumption DEF AInv, TypeOK, Program
<1>1. \/ ClientStep(Main) \/ Reap(Main) \/ ServerStep
      \/ ServerCrashes \/ ReapServer \/ UNCHANGED vars
  BY <1>0 DEF Next
<1>2. Main \notin held'
  BY <1>1 DEF Alone, ClientStep, OnCall, OnRetSends, OnSignal, OnRetContinues,
     RecvFails, RecvInterrupted, AstrayContinues, AstrayFails, WriteFails,
     WriteRaisesSigpipe, DropSocket, PreExecve, EnvWalkCrashes, ExecveFails,
     ExecveSucceeds, ThreadExit, ExitProcess, ClientKillsGroup, Reap,
     ServerStep, CallHandler, AddWildcard, ClearStack, RetHandlerRefuses,
     RetHandlerContinues, ServerSeesEnd, ServerKillsGroup, ServerCrashes,
     ReapServer, vars
<1>3. culprit # Main /\ culprit' # Main
  BY <1>0, <1>2 DEF AInv, Blamed, Pending
<1>4. \/ status' = status /\ UNCHANGED historyVars
      \/ status'[Main] = "dead" /\ UNCHANGED historyVars
      \/ status[Main] # "dead" /\ status'[Main] # "dead"
  <2>1. CASE ServerStep \/ ServerCrashes \/ ReapServer \/ UNCHANGED vars
    BY <2>1 DEF ServerStep, CallHandler, AddWildcard, ClearStack,
       RetHandlerRefuses, RetHandlerContinues, ServerSeesEnd,
       ServerKillsGroup, ServerCrashes, ReapServer, vars
  <2>2. CASE Reap(Main)
    BY <1>0, <2>2 DEF Reap, Live
  <2>3. CASE WriteRaisesSigpipe(Main) \/ EnvWalkCrashes(Main)
             \/ ExitProcess(Main) \/ ThreadExit(Main)
    BY <1>0, <2>3 DEF WriteRaisesSigpipe, EnvWalkCrashes, ExitProcess, ThreadExit
  <2>4. CASE \/ \E a \in Addr : OnCall(Main, a) \/ OnRetSends(Main, a)
             \/ OnSignal(Main) \/ OnRetContinues(Main) \/ AstrayContinues(Main)
    BY <1>0, <2>4 DEF OnCall, OnRetSends, OnSignal, OnRetContinues,
       AstrayContinues, ReturnExecuted
  <2>5. CASE \/ RecvFails(Main) \/ RecvInterrupted(Main) \/ AstrayFails(Main)
             \/ WriteFails(Main) \/ DropSocket(Main) \/ PreExecve(Main)
             \/ ExecveFails(Main) \/ ExecveSucceeds(Main)
             \/ ClientKillsGroup(Main)
    BY <1>0, <2>5 DEF RecvFails, RecvInterrupted, AstrayFails, WriteFails,
       DropSocket, PreExecve, ExecveFails, ExecveSucceeds, ClientKillsGroup
  <2> QED
    BY <1>1, <2>1, <2>2, <2>3, <2>4, <2>5 DEF ClientStep, Alone
<1>5. CASE status' = status /\ UNCHANGED historyVars
  <2>1. GuardState'[Main] = GuardState[Main]
    BY <1>0, <1>2, <1>3, <1>5, GuardStates, GuardStatesPrime DEF Live
  <2> QED
    BY <1>5, <2>1, OnePlace DEF historyVars, Guard!vars
<1>6. CASE status'[Main] = "dead" /\ UNCHANGED historyVars
  <2>1. GuardState'[Main] = "gone"
    BY <1>0, <1>6, GuardStatesPrime
  <2> QED
    BY <1>6, <2>1, EndAlone
<1>7. CASE status[Main] # "dead" /\ status'[Main] # "dead"
  <2>1. GuardState[Main] = "escaped" /\ GuardState'[Main] = "escaped"
    BY <1>0, <1>2, <1>3, <1>7, GuardStates, GuardStatesPrime DEF Live
  <2>2. UNCHANGED GuardState
    BY <2>1, OnePlace
  <2>3. /\ frames' \in [Client -> Seq(Guard!Frame)]
        /\ lost' \in [Client -> Nat]
        /\ goal' \in [Client -> Addr \union {NoAddr}]
    BY <1>0 DEF TypeOK, Frame, Guard!Frame
  <2>4. Guard!Stray(Main)
    BY <1>0, <2>1, <2>2, <2>3 DEF Guard!Stray
  <2> QED
    BY <1>0, <2>4 DEF Guard!Next
<1> QED
  BY <1>4, <1>5, <1>6, <1>7

LEMMA InitRefinesAlone == Alone /\ Init => Guard!Init
<1> SUFFICES ASSUME Alone, Init PROVE Guard!Init
  OBVIOUS
<1>1. Client = {Main}
  BY OnlyMain
<1>2. GuardState[Main] = "running"
  BY <1>1, ClientAssumption, GuardStates DEF Init, Live
<1>3. GuardState = [c \in Client |-> IF c = Main THEN "running" ELSE "unborn"]
  BY <1>1, <1>2, GuardStateIsFunction
<1> QED
  BY <1>3 DEF Init, Guard!Init

LEMMA StepRefinesAlone ==
    Alone /\ AInv /\ AInv' /\ [Next]_vars => [Guard!Next]_(Guard!vars)
<1> SUFFICES ASSUME Alone, AInv, [Next]_vars, Main \in held
             PROVE  Guard!Next \/ UNCHANGED Guard!vars
  BY EscapedRefines
<1>0. /\ Main \in Client /\ Client = {Main} /\ Main # NoClient
      /\ TypeOK /\ Program /\ Blamed
      /\ status \in [Client -> Statuses]
      /\ status[Main] # "unborn"
      /\ proc[Main] = Main
      /\ goal[Main] = NoAddr => culprit # Main
  BY MainTypes, OnlyMain, ClientAssumption
  DEF AInv, TypeOK, Program, Blamed, Pending
\* Between two instructions of the program.
<1>a. ASSUME status[Main] \in {"running", "execing"}
      PROVE  Guard!Executing(Main)
  <2>1. goal[Main] = NoAddr
    BY <1>0, <1>a DEF Program
  <2> QED
    BY <1>0, <1>a, <2>1, GuardStates DEF Live, Guard!Executing
\* The client goes on.
<1>b. ASSUME status[Main] \in {"running", "execing"},
             status'[Main] \in {"running", "execing", "waiting", "astray"},
             UNCHANGED <<culprit, proc, held>>
      PROVE  UNCHANGED GuardState
  <2>1. culprit # Main
    BY <1>0, <1>b DEF Program
  <2>2. GuardState[Main] = "running" /\ GuardState'[Main] = "running"
    BY <1>0, <1>b, <2>1, GuardStates, GuardStatesPrime DEF Live
  <2> QED
    BY <2>2, OnePlace
<1>1. ASSUME NEW a \in Addr, OnCall(Main, a) PROVE Guard!Next
  <2>1. status[Main] = "running" /\ UNCHANGED <<status, culprit, proc, held>>
    BY <1>1 DEF OnCall, serverVars
  <2>2. Guard!Enter(Main, a) /\ a \in Guard!Frame
    BY <1>1, <1>a, <1>b, <2>1 DEF OnCall, Guard!Enter, Guard!Frame
  <2> QED
    BY <1>0, <2>2 DEF Guard!Next
<1>2. CASE OnSignal(Main)
  <2>1. status[Main] = "running" /\ UNCHANGED <<status, culprit, proc, held>>
    BY <1>2 DEF OnSignal, serverVars
  <2>2. Guard!Enter(Main, WILDCARD) /\ WILDCARD \in Guard!Frame
    BY <1>2, <1>a, <1>b, <2>1 DEF OnSignal, Guard!Enter, Guard!Frame
  <2> QED
    BY <1>0, <2>2 DEF Guard!Next
<1>3. ASSUME NEW a \in Addr, OnRetSends(Main, a) PROVE Guard!Next
  <2>1. /\ status[Main] = "running" /\ UNCHANGED <<culprit, proc, held>>
        /\ status'[Main] \in {"waiting", "astray"}
    BY <1>0, <1>3 DEF OnRetSends, serverVars
  <2>2. Guard!Attempt(Main, a)
    BY <1>3, <1>a, <1>b, <2>1 DEF OnRetSends, Guard!Attempt
  <2> QED
    BY <1>0, <2>2 DEF Guard!Next
<1>4. CASE OnRetContinues(Main)
  <2>1. /\ status[Main] = "waiting" /\ status'[Main] = "running"
        /\ UNCHANGED <<culprit, proc, held>> /\ toClient # <<>>
        /\ frames' = [frames EXCEPT ![Main] = Front(@)]
        /\ goal' = [goal EXCEPT ![Main] = NoAddr]
    BY <1>0, <1>4 DEF OnRetContinues, ReturnExecuted, serverVars
  <2>2. Permitted /\ goal[Main] # NoAddr /\ culprit # Main
    BY <1>0, <2>1 DEF AInv, Approved, Blamed, Pending
  <2>a. lost' = lost
    <3>1. lost[Main] < Len(frames[Main]) /\ lost \in [Client -> Nat]
      BY <1>0, <2>2, MainTypes DEF Permitted, TypeOK
    <3> QED
      BY <1>4, <3>1 DEF OnRetContinues, ReturnExecuted
  <2>3. GuardState[Main] = "running" /\ GuardState'[Main] = "running"
    BY <1>0, <2>1, <2>2, GuardStates, GuardStatesPrime DEF Live
  <2>4. UNCHANGED GuardState
    BY <2>3, OnePlace
  <2>5. Guard!Proceed(Main)
    BY <2>1, <2>2, <2>a, <2>3, <2>4
       DEF Permitted, Last, Front, Guard!Proceed, Guard!Returning, Guard!Allowed
  <2> QED
    BY <1>0, <2>5 DEF Guard!Next
<1>17. CASE AstrayContinues(Main)
  BY <1>0, <1>17 DEF AstrayContinues, Program
<1>5. CASE RecvFails(Main) \/ RecvInterrupted(Main) \/ AstrayFails(Main)
  <2>1. /\ status[Main] \in {"waiting", "astray"} /\ status'[Main] = "failing"
        /\ UNCHANGED <<historyVars, culprit, proc, held>>
    BY <1>0, <1>5 DEF RecvFails, RecvInterrupted, AstrayFails, serverVars
  <2>2. goal[Main] # NoAddr
    BY <1>0, <2>1 DEF Program
  <2> QED
    BY <2>1, <2>2, StutterAlone
<1>6. CASE WriteFails(Main)
  <2>1. /\ status[Main] \in {"running", "execing"} /\ status'[Main] = "failing"
        /\ UNCHANGED <<historyVars, culprit, goal, proc, held>>
    BY <1>0, <1>6 DEF WriteFails, serverVars, historyVars
  <2>2. goal[Main] = NoAddr /\ culprit # Main
    BY <1>0, <2>1 DEF Program
  <2>3. GuardState'[Main] = "gone"
    BY <1>0, <2>1, <2>2, GuardStatesPrime
  <2> QED
    BY <2>1, <2>3, EndAlone
<1>7. CASE WriteRaisesSigpipe(Main) \/ EnvWalkCrashes(Main)
           \/ ExitProcess(Main) \/ ThreadExit(Main)
  <2>1. status'[Main] = "dead" /\ UNCHANGED historyVars
    BY <1>0, <1>7 DEF WriteRaisesSigpipe, EnvWalkCrashes, ExitProcess, ThreadExit
  <2>2. GuardState'[Main] = "gone"
    BY <1>0, <2>1, GuardStatesPrime
  <2> QED
    BY <2>1, <2>2, EndAlone
<1>8. CASE ClientKillsGroup(Main)
  <2>1. /\ status[Main] = "failing" /\ status'[Main] = "spinning"
        /\ UNCHANGED <<historyVars, culprit, proc, held>>
    BY <1>0, <1>8 DEF ClientKillsGroup, serverVars
  <2> QED
    BY <2>1, StutterAlone
<1>9. CASE DropSocket(Main)
  <2>1. /\ status[Main] = "running" /\ Main \notin held'
        /\ UNCHANGED <<historyVars, status, culprit, proc>>
    BY <1>0, <1>9 DEF DropSocket, serverVars
  <2>2. goal[Main] = NoAddr /\ culprit # Main
    BY <1>0, <2>1 DEF Program
  <2>3. GuardState[Main] = "running" /\ GuardState'[Main] = "escaped"
    BY <1>0, <2>1, <2>2, GuardStates, GuardStatesPrime DEF Live
  <2>4. Guard!Escape(Main)
    BY <1>0, <1>a, <2>1, <2>3, OnePlace DEF Guard!Escape, historyVars
  <2> QED
    BY <1>0, <2>4 DEF Guard!Next
<1>10. CASE PreExecve(Main)
  <2>1. /\ status[Main] = "running" /\ status'[Main] = "execing"
        /\ UNCHANGED <<culprit, proc, held>>
    BY <1>0, <1>10 DEF PreExecve, serverVars
  <2>2. Guard!Forget(Main)
    BY <1>10, <1>a, <1>b, <2>1 DEF PreExecve, Guard!Forget
  <2> QED
    BY <1>0, <2>2 DEF Guard!Next
<1>11. CASE ExecveFails(Main)
  <2>1. /\ status[Main] = "execing" /\ status'[Main] = "running"
        /\ UNCHANGED <<historyVars, culprit, proc, held>>
    BY <1>0, <1>11 DEF ExecveFails, serverVars
  <2> QED
    BY <2>1, StutterAlone
<1>12. CASE ExecveSucceeds(Main)
  <2>1. /\ status[Main] = "execing" /\ status'[Main] = "running"
        /\ UNCHANGED <<culprit, proc, held>>
    BY <1>0, <1>12 DEF ExecveSucceeds, serverVars
  <2>2. GuardState' = [c \in Client |-> IF c \in {} THEN "gone" ELSE GuardState[c]]
    BY <1>b, <2>1, GuardStateIsFunction
  <2>3. Guard!Exec(Main, {})
    BY <1>12, <1>a, <2>1, <2>2 DEF ExecveSucceeds, Guard!Exec
  <2> QED
    BY <1>0, <2>3 DEF Guard!Next
<1>13. CASE Reap(Main)
  <2>1. UNCHANGED <<historyVars, culprit, proc, held>>
    BY <1>13 DEF Reap, serverVars
  <2>2. CASE status'[Main] = "dead"
    <3>1. GuardState'[Main] = "gone"
      BY <1>0, <2>2, GuardStatesPrime
    <3> QED
      BY <2>1, <3>1, EndAlone
  <2>3. CASE status'[Main] # "dead"
    <3>1. status' = status
      BY <1>0, <1>13, <2>3 DEF Reap
    <3> QED
      BY <2>1, <3>1, StutterAlone
  <2> QED
    BY <2>2, <2>3
<1>14. CASE RetHandlerRefuses
  <2>1. /\ Receive("RET-") /\ ~TopAllows(Head(toServer).addr)
        /\ culprit' = Head(toServer).from /\ srv = "serving"
        /\ UNCHANGED <<status, historyVars, proc, held>>
    BY <1>14 DEF RetHandlerRefuses, Receive
  <2>2. goal[Main] # NoAddr /\ ~Permitted /\ culprit' = Main /\ culprit # Main
        /\ Main \in held
    BY <1>0, <2>1, ReturnReceived DEF Pending, Blamed
  <2>3. CASE Live(Main)
    <3>1. GuardState[Main] = "running" /\ GuardState'[Main] = "halted"
      BY <1>0, <2>1, <2>2, <2>3, GuardStates, GuardStatesPrime DEF Live
    <3>2. Guard!Halt(Main)
      BY <2>1, <2>2, <3>1, OnePlace
         DEF Permitted, Last, historyVars, Guard!Halt, Guard!Returning, Guard!Allowed
    <3> QED
      BY <1>0, <3>2 DEF Guard!Next
  <2>4. CASE ~Live(Main)
    <3>1. status[Main] = "dead" /\ status'[Main] = "dead"
      BY <1>0, <2>1, <2>4 DEF Live
    <3>2. GuardState'[Main] = GuardState[Main]
      BY <1>0, <3>1, GuardStates, GuardStatesPrime
    <3> QED
      BY <2>1, <3>2, OnePlace DEF historyVars, Guard!vars
  <2> QED
    BY <2>3, <2>4
<1>15. CASE CallHandler \/ AddWildcard \/ ClearStack \/ RetHandlerContinues
            \/ ServerSeesEnd \/ ServerKillsGroup \/ ServerCrashes \/ ReapServer
            \/ UNCHANGED vars
  <2>1. status' = status /\ UNCHANGED <<historyVars, culprit, proc, held>>
    BY <1>15 DEF CallHandler, AddWildcard, ClearStack, RetHandlerContinues,
       ServerSeesEnd, ServerKillsGroup, ServerCrashes, ReapServer, vars, serverVars
  <2> QED
    BY <2>1, StutterAlone
<1>16. [Next]_vars <=> \/ ClientStep(Main) \/ Reap(Main) \/ ServerStep
                       \/ ServerCrashes \/ ReapServer \/ UNCHANGED vars
  BY <1>0 DEF Next
<1> QED
  BY <1>1, <1>2, <1>3, <1>4, <1>5, <1>6, <1>7, <1>8, <1>9, <1>10, <1>11,
     <1>12, <1>13, <1>14, <1>15, <1>16, <1>17 DEF ClientStep, ServerStep, Alone

\* With one client the external mode keeps the promise of ReturnGuard, as the
\* internal mode does, until the program drops the socket: only the return to
\* where the innermost remembered call returns is executed, no other return is
\* stopped by the shadow stack, and what was stopped never executes again,
\* whoever dies when.
THEOREM ExternalAloneImplementsGuard ==
    ASSUME Alone
    PROVE  Spec => RefinesGuard
<1>1. Init => Guard!Init
  BY InitRefinesAlone
<1>2. AInv /\ AInv' /\ [Next]_vars => [Guard!Next]_(Guard!vars)
  BY StepRefinesAlone
<1> QED
  BY <1>1, <1>2, AloneCorrect, PTL DEF Spec, RefinesGuard, Guard!Spec
=============================================================================
