--------------------------- MODULE FramingProofs ----------------------------
(***************************************************************************)
(* Theorems about the stream of cells, for any number of clients, any size *)
(* of a pointer and whatever the memory behind the headers holds.          *)
(***************************************************************************)
EXTENDS Framing, SequenceTheorems, TLAPS

-----------------------------------------------------------------------------
(* Multiples of the size of a message. *)

LEMMA SizeType == MESSAGE_SIZE \in Nat /\ MESSAGE_SIZE > 1
  BY CellAssumption DEF MESSAGE_SIZE

\* One message more.
LEMMA NextMultiple ==
    ASSUME NEW n \in Nat, NEW m \in Nat
    PROVE  n * m \in Nat /\ (n + 1) * m = n * m + m
  OBVIOUS

\* Places of messages are ordered as their numbers are.
LEMMA MultiplesOrdered ==
    ASSUME NEW i \in Nat, NEW n \in Nat, NEW m \in Nat, i < n
    PROVE  i * m \in Nat /\ i * m + m <= n * m
<1>1. PICK k \in Nat : n = i + 1 + k
  <2>1. n - i - 1 \in Nat /\ n = i + 1 + (n - i - 1)
    OBVIOUS
  <2> QED
    BY <2>1
<1>2. n * m = i * m + m + k * m
  BY <1>1
<1>3. k * m \in Nat /\ i * m \in Nat
  OBVIOUS
<1> QED
  BY <1>2, <1>3

\* A multiple is counted by division.
LEMMA CountsMessages ==
    ASSUME NEW n \in Nat, NEW m \in Nat \ {0}
    PROVE  (n * m) \div m = n
  OBVIOUS

-----------------------------------------------------------------------------
(* Streams of whole messages. *)

Cell == WithBody \union HeaderOnly \union {"CONT", "zero"} \union Memory
            \union (Addr \X (1 .. PointerCells))

\* m is one message, with a header in H.
Whole(m, H) == m \in Seq(Cell) /\ Len(m) = MESSAGE_SIZE /\ m[1] \in H

\* s is n messages one behind the other.
Holds(s, n, H) ==
    /\ s \in Seq(Cell)
    /\ n \in Nat
    /\ Len(s) = n * MESSAGE_SIZE
    /\ \A i \in 0 .. n - 1 : s[i * MESSAGE_SIZE + 1] \in H

\* What either side writes is one message.
LEMMA WholeHeader ==
    ASSUME NEW h \in HeaderOnly,
           beyond \in [HeaderOnly -> [1 .. PointerCells -> Memory]]
    PROVE  Whole(HeaderMessage(h), {h})
<1> DEFINE b == beyond[h]
<1>1. b \in Seq(Cell) /\ Len(b) = PointerCells
  <2>1. b \in [1 .. PointerCells -> Memory]
    OBVIOUS
  <2>2. PointerCells \in Nat
    BY CellAssumption
  <2> QED
    BY <2>1, <2>2, IsASeq DEF Cell
<1>2. <<h>> \in Seq(Cell) /\ Len(<<h>>) = 1 /\ <<h>>[1] = h
  BY DEF Cell
<1> HIDE DEF b
<1>3. <<h>> \o b \in Seq(Cell) /\ Len(<<h>> \o b) = 1 + PointerCells
      /\ (<<h>> \o b)[1] = h
  BY <1>1, <1>2, ConcatProperties
<1> QED
  BY <1>3 DEF Whole, HeaderMessage, MESSAGE_SIZE, b

LEMMA WholePadded == Whole(PaddedMessage("CONT"), {"CONT"})
<1> DEFINE b == [i \in 1 .. PointerCells |-> "zero"]
<1>1. b \in Seq(Cell) /\ Len(b) = PointerCells
  <2>1. b \in [1 .. PointerCells -> Cell] /\ DOMAIN b = 1 .. PointerCells
    BY DEF Cell
  <2>2. PointerCells \in Nat
    BY CellAssumption
  <2> HIDE DEF b
  <2> QED
    BY <2>1, <2>2, IsASeq
<1>2. <<"CONT">> \in Seq(Cell) /\ Len(<<"CONT">>) = 1
      /\ <<"CONT">>[1] = "CONT"
  BY DEF Cell
<1> HIDE DEF b
<1>3. /\ <<"CONT">> \o b \in Seq(Cell)
      /\ Len(<<"CONT">> \o b) = 1 + PointerCells
      /\ (<<"CONT">> \o b)[1] = "CONT"
  BY <1>1, <1>2, ConcatProperties
<1> QED
  BY <1>3 DEF Whole, PaddedMessage, MESSAGE_SIZE, b

\* The cells of a pointer.
LEMMA BodyCells ==
    ASSUME NEW a \in Addr
    PROVE  Body(a) \in Seq(Cell) /\ Len(Body(a)) = PointerCells
<1> DEFINE b == Body(a)
<1>1. b \in Seq(Cell) /\ Len(b) = PointerCells
  <2>1. b \in [1 .. PointerCells -> Cell]
    BY DEF Body, Cell
  <2>2. PointerCells \in Nat
    BY CellAssumption
  <2>3. DOMAIN b = 1 .. PointerCells
    BY DEF Body
  <2> HIDE DEF b
  <2> QED
    BY <2>1, <2>2, <2>3, IsASeq
<1> QED
  BY <1>1 DEF b

LEMMA WholeBody ==
    ASSUME NEW h \in WithBody, NEW a \in Addr
    PROVE  Whole(BodyMessage(h, a), {h})
<1> DEFINE b == Body(a)
<1>1. b \in Seq(Cell) /\ Len(b) = PointerCells
  BY BodyCells
<1>2. <<h>> \in Seq(Cell) /\ Len(<<h>>) = 1 /\ <<h>>[1] = h
  BY DEF Cell
<1> HIDE DEF b
<1>3. <<h>> \o b \in Seq(Cell) /\ Len(<<h>> \o b) = 1 + PointerCells
      /\ (<<h>> \o b)[1] = h
  BY <1>1, <1>2, ConcatProperties
<1> QED
  BY <1>3 DEF Whole, BodyMessage, MESSAGE_SIZE, b

\* A message written behind whole messages leaves whole messages.
LEMMA HoldsWritten ==
    ASSUME NEW s, NEW n, NEW H, NEW m, Holds(s, n, H), Whole(m, H)
    PROVE  Holds(s \o m, n + 1, H)
<1> DEFINE M == MESSAGE_SIZE
<1>1. M \in Nat /\ n \in Nat
  BY SizeType DEF Holds
<1>2. /\ s \o m \in Seq(Cell)
      /\ Len(s) \in Nat /\ Len(s) = n * M
      /\ Len(s \o m) = Len(s) + M
      /\ \A i \in 1 .. Len(s) : (s \o m)[i] = s[i]
      /\ (s \o m)[Len(s) + 1] = m[1]
  <2>1. s \in Seq(Cell) /\ Len(s) \in Nat /\ Len(s) = n * M
    BY LenProperties DEF Holds
  <2>2. m \in Seq(Cell) /\ Len(m) = M /\ M \in Nat /\ M > 1
    BY SizeType DEF Whole
  <2> HIDE DEF M
  <2>3. /\ s \o m \in Seq(Cell)
        /\ Len(s \o m) = Len(s) + Len(m)
        /\ \A i \in 1 .. Len(s) + Len(m) :
              (s \o m)[i] = IF i <= Len(s) THEN s[i] ELSE m[i - Len(s)]
    BY <2>1, <2>2, ConcatProperties
  <2>4. \A i \in 1 .. Len(s) : (s \o m)[i] = s[i]
    <3> SUFFICES ASSUME NEW i \in 1 .. Len(s) PROVE (s \o m)[i] = s[i]
      OBVIOUS
    <3>1. i \in 1 .. Len(s) + Len(m) /\ i <= Len(s)
      BY <2>1, <2>2
    <3> QED
      BY <2>3, <3>1
  <2>5. (s \o m)[Len(s) + 1] = m[1]
    <3>1. /\ Len(s) + 1 \in 1 .. Len(s) + Len(m)
          /\ ~(Len(s) + 1 <= Len(s))
          /\ Len(s) + 1 - Len(s) = 1
      BY <2>1, <2>2
    <3> QED
      BY <2>3, <3>1
  <2> QED
    BY <2>1, <2>2, <2>3, <2>4, <2>5
<1>3. ASSUME NEW i \in 0 .. n PROVE (s \o m)[i * M + 1] \in H
  <2>1. CASE i = n
    BY <1>2, <2>1 DEF Whole
  <2>2. CASE i < n
    <3>1. i * M \in Nat /\ i * M + M <= n * M /\ n * M \in Nat /\ M > 1
      BY <1>1, <2>2, MultiplesOrdered, NextMultiple, SizeType
    <3>2. i * M + 1 \in 1 .. Len(s)
      <4> DEFINE q == i * M
      <4>1. q \in Nat /\ q + M <= Len(s) /\ Len(s) \in Nat /\ M \in Nat /\ M > 1
        BY <1>1, <1>2, <3>1
      <4> HIDE DEF q, M
      <4>2. q + 1 \in 1 .. Len(s)
        BY <4>1
      <4> QED
        BY <4>2 DEF q
    <3>3. s[i * M + 1] \in H
      BY <1>1, <2>2 DEF Holds
    <3> QED
      BY <1>2, <3>2, <3>3
  <2>3. i = n \/ i < n
    BY <1>1
  <2> QED
    BY <2>1, <2>2, <2>3
<1>4. (n + 1) * M = n * M + M
  BY <1>1, NextMultiple
<1>5. n + 1 \in Nat /\ (n + 1) - 1 = n
  BY <1>1
<1>6. Len(s \o m) = (n + 1) * M
  BY <1>2, <1>4
<1> HIDE DEF M
<1>7. \A i \in 0 .. (n + 1) - 1 : (s \o m)[i * M + 1] \in H
  BY <1>3, <1>5
<1> QED
  BY <1>2, <1>5, <1>6, <1>7 DEF Holds, M

\* Whole messages less the first of them are whole messages.
LEMMA HoldsRead ==
    ASSUME NEW s, NEW n, NEW H, Holds(s, n, H), Len(s) >= MESSAGE_SIZE
    PROVE  /\ n > 0
           /\ s[1] \in H
           /\ Holds(SubSeq(s, MESSAGE_SIZE + 1, Len(s)), n - 1, H)
<1> DEFINE M == MESSAGE_SIZE
           r == SubSeq(s, M + 1, Len(s))
<1>1. /\ M \in Nat /\ M > 1 /\ n \in Nat
      /\ s \in Seq(Cell) /\ Len(s) \in Nat /\ Len(s) = n * M
  BY SizeType, LenProperties DEF Holds
<1>2. n > 0
  BY <1>1
<1>3. n * M = (n - 1) * M + M /\ n - 1 \in Nat /\ (n - 1) * M \in Nat
  <2>1. n - 1 \in Nat /\ (n - 1) + 1 = n
    BY <1>1, <1>2
  <2> QED
    BY <1>1, <2>1, NextMultiple
<1>4. /\ r \in Seq(Cell)
      /\ Len(r) = Len(s) - M
      /\ \A i \in 1 .. Len(s) - M : r[i] = s[i + M]
  <2>1. \A i \in M + 1 .. Len(s) : s[i] \in Cell
    BY <1>1, ElementOfSeq
  <2>2. CASE M + 1 <= Len(s)
    <3>1. r \in Seq(Cell) /\ Len(r) = Len(s) - (M + 1) + 1
          /\ \A i \in 1 .. Len(s) - (M + 1) + 1 : r[i] = s[M + 1 + i - 1]
      BY <1>1, <2>1, <2>2, SubSeqProperties
    <3>2. Len(s) - (M + 1) + 1 = Len(s) - M
      BY <1>1
    <3>3. ASSUME NEW i \in 1 .. Len(s) - M PROVE r[i] = s[i + M]
      <4>1. M + 1 + i - 1 = i + M
        BY <1>1
      <4>2. r[i] = s[M + 1 + i - 1]
        BY <3>1, <3>2
      <4> QED
        BY <4>1, <4>2
    <3> HIDE DEF r
    <3> QED
      BY <3>1, <3>2, <3>3
  <2>3. CASE Len(s) = M
    <3>1. r = <<>>
      BY <1>1, <2>3, SubSeqEmpty
    <3>2. Len(s) - M = 0
      BY <1>1, <2>3
    <3>3. /\ <<>> \in Seq(Cell) /\ Len(<<>>) = 0
          /\ \A i \in 1 .. 0 : FALSE
      BY EmptySeq
    <3> HIDE DEF r, M
    <3> QED
      BY <3>1, <3>2, <3>3
  <2>4. M + 1 <= Len(s) \/ Len(s) = M
    BY <1>1
  <2> HIDE DEF r, M
  <2> QED
    BY <2>2, <2>3, <2>4
<1>5. ASSUME NEW i \in 0 .. n - 2 PROVE r[i * M + 1] \in H
  <2>1. i * M \in Nat /\ i * M + M <= (n - 1) * M /\ (i + 1) * M = i * M + M
    BY <1>1, <1>3, MultiplesOrdered, NextMultiple
  <2>2. r[i * M + 1] = s[(i + 1) * M + 1]
    <3>1. i * M + 1 \in 1 .. Len(s) - M /\ (i + 1) * M + 1 = (i * M + 1) + M
      BY <1>1, <1>3, <2>1
    <3> QED
      BY <1>4, <3>1
  <2>3. i + 1 \in 0 .. n - 1
    BY <1>1
  <2> QED
    BY <2>2, <2>3 DEF Holds
<1>6. s[1] \in H
  <2>1. 0 \in 0 .. n - 1 /\ 0 * M + 1 = 1
    BY <1>1, <1>2
  <2> QED
    BY <2>1 DEF Holds
<1>7. Len(r) = (n - 1) * M
  <2>1. Len(s) - M = (n - 1) * M
    <3> DEFINE q == (n - 1) * M
    <3>1. Len(s) = q + M /\ q \in Nat /\ M \in Nat
      BY <1>1, <1>3
    <3> HIDE DEF q, M
    <3>2. Len(s) - M = q
      BY <3>1
    <3> QED
      BY <3>2 DEF q
  <2> QED
    BY <1>4, <2>1
<1> HIDE DEF M, r
<1>8. (n - 1) - 1 = n - 2
  BY <1>1
<1>9. \A i \in 0 .. (n - 1) - 1 : r[i * M + 1] \in H
  BY <1>5, <1>8
<1> QED
  BY <1>2, <1>3, <1>4, <1>6, <1>7, <1>9 DEF Holds, M, r

\* Less than a message is nothing.
LEMMA HoldsShort ==
    ASSUME NEW s, NEW n, NEW H, Holds(s, n, H), Len(s) < MESSAGE_SIZE
    PROVE  s = <<>>
<1>1. CASE n = 0
  BY <1>1, SizeType, EmptySeq DEF Holds
<1>2. CASE n > 0
  <2>1. 0 * MESSAGE_SIZE + MESSAGE_SIZE <= n * MESSAGE_SIZE
    BY <1>2, SizeType, MultiplesOrdered DEF Holds
  <2> QED
    BY <2>1, SizeType DEF Holds
<1> QED
  BY <1>1, <1>2 DEF Holds

LEMMA HoldsNothing == \A H : Holds(<<>>, 0, H)
  BY SizeType, EmptySeq DEF Holds

-----------------------------------------------------------------------------
(* Both directions of the socket hold whole messages. *)

\* The stream is where a message begins, in both directions, and nobody was
\* ever elsewhere or failed with the other side there.
Aligned ==
    /\ beyond \in [HeaderOnly -> [1 .. PointerCells -> Memory]]
    /\ status \in [Client -> {"running", "waiting", "failing", "ended"}]
    /\ NeverConfused
    /\ \E n \in Nat : Holds(toServer, n, Handled)
    /\ \E n \in Nat : Holds(toClient, n, {"CONT"})

\* Messages of more kinds may stand where those of one kind may.
LEMMA WholeAmong ==
    ASSUME NEW m, NEW H, NEW h \in H, Whole(m, {h})
    PROVE  Whole(m, H)
  BY DEF Whole

LEMMA AlignedStep == Aligned /\ [Next]_vars => Aligned'
<1> SUFFICES ASSUME Aligned, [Next]_vars PROVE Aligned'
  OBVIOUS
<1>0. PICK n \in Nat, k \in Nat :
          Holds(toServer, n, Handled) /\ Holds(toClient, k, {"CONT"})
  BY DEF Aligned
<1>1. CASE UNCHANGED vars
  BY <1>1 DEF Aligned, NeverConfused, Connected, vars
<1>2. ASSUME NEW c \in Client, ClientStep(c) PROVE Aligned'
  <2>1. ASSUME NEW h \in WithBody, NEW a \in Addr, SendBody(c, h, a)
        PROVE  Aligned'
    <3>1. Whole(BodyMessage(h, a), Handled)
      BY WholeBody, WholeAmong DEF WithBody, Handled
    <3>2. Holds(toServer', n + 1, Handled)
      BY <1>0, <2>1, <3>1, HoldsWritten DEF SendBody
    <3> QED
      BY <1>0, <2>1, <3>2
         DEF SendBody, MayWrite, Aligned, Holds, NeverConfused, Connected
  <2>2. ASSUME NEW h \in HeaderOnly, SendHeader(c, h)
        PROVE  Aligned'
    <3>1. Whole(HeaderMessage(h), Handled)
      <4>1. h \in Handled
        BY DEF HeaderOnly, Handled
      <4> QED
        BY <4>1, WholeHeader, WholeAmong DEF Aligned
    <3>2. Holds(toServer', n + 1, Handled)
      BY <1>0, <2>2, <3>1, HoldsWritten DEF SendHeader
    <3> QED
      BY <1>0, <2>2, <3>2
         DEF SendHeader, Aligned, Holds, NeverConfused, Connected
  <2>3. CASE RecvContinue(c)
    <3>1. Len(toClient) >= MESSAGE_SIZE
      BY <2>3 DEF RecvContinue
    <3>2. /\ toClient[1] \in {"CONT"}
          /\ Holds(SubSeq(toClient, MESSAGE_SIZE + 1, Len(toClient)), k - 1,
                   {"CONT"})
      BY <1>0, <3>1, HoldsRead
    <3>3. toClient[1] = "CONT" /\ Holds(toClient', k - 1, {"CONT"})
      BY <2>3, <3>2 DEF RecvContinue
    <3> QED
      BY <1>0, <2>3, <3>3
         DEF RecvContinue, IsContinue, Aligned, Holds, NeverConfused, Connected
  <2>4. CASE RecvShort(c)
    <3>1. toClient = <<>>
      BY <1>0, <2>4, HoldsShort DEF RecvShort
    <3> QED
      BY <1>0, <2>4, <3>1 DEF RecvShort, Aligned, NeverConfused, Connected
  <2>5. CASE Exit(c)
    BY <2>5 DEF Exit, Aligned, NeverConfused, Connected
  <2> QED
    BY <1>2, <2>1, <2>2, <2>3, <2>4, <2>5 DEF ClientStep
<1>3. CASE Dispatch
  <2>1. toServer[1] \in Handled /\ Holds(toServer', n - 1, Handled)
    BY <1>0, <1>3, HoldsRead DEF Dispatch
  <2>3. Holds(toClient \o PaddedMessage("CONT"), k + 1, {"CONT"})
    BY <1>0, WholePadded, HoldsWritten
  <2>4. Handles(toServer[1]) /\ UNCHANGED <<beyond, status>>
    BY <1>3, <2>1 DEF Dispatch, Header
  <2>5. /\ \E i \in Nat : Holds(toClient', i, {"CONT"})
        /\ srv' \in {"serving", "broken", "refused"}
        /\ srv' = "broken" => ~Connected
    BY <1>0, <1>3, <2>3, <2>4 DEF Handles, Holds, Dispatch
  <2>6. srv = "serving"
    BY <1>3 DEF Dispatch
  <2> QED
    BY <2>1, <2>4, <2>5, <2>6 DEF Aligned, Holds, NeverConfused, Connected
<1>4. CASE ServerSeesEnd
  <2>1. toServer = <<>>
    BY <1>0, <1>4, HoldsShort DEF ServerSeesEnd
  <2> QED
    BY <1>4, <2>1 DEF ServerSeesEnd, Aligned, NeverConfused, Connected
<1> QED
  BY <1>1, <1>2, <1>3, <1>4 DEF Next

LEMMA InitAligned == Init => Aligned
  BY HoldsNothing DEF Init, Aligned, NeverConfused

\* Whatever the memory behind the headers holds and whatever the size of a
\* pointer, no side takes a body for a header or is left with a part of a
\* message, and a read or an answer that fails finds the other side gone
\* (message.hpp, send_msg and recv_msg; the server's loop and ret_handler).
THEOREM NeverConfusedCorrect == Spec => []NeverConfused
<1>1. Aligned => NeverConfused
  BY DEF Aligned
<1> QED
  BY <1>1, InitAligned, AlignedStep, PTL DEF Spec

-----------------------------------------------------------------------------
(* The messages in a stream. *)

\* A longer function is the shorter one and one value appended.
LEMMA OneMore ==
    ASSUME NEW T, NEW n \in Nat,
           NEW f \in [1 .. n -> T], NEW g \in [1 .. n + 1 -> T],
           \A i \in 1 .. n : g[i] = f[i]
    PROVE  g = Append(f, g[n + 1])
<1>1. f \in Seq(T) /\ Len(f) = n
  OBVIOUS
<1>2. g \in Seq(T) /\ Len(g) = n + 1
  OBVIOUS
<1>3. g[n + 1] \in T
  OBVIOUS
<1>4. /\ Append(f, g[n + 1]) \in Seq(T)
      /\ Len(Append(f, g[n + 1])) = n + 1
      /\ \A i \in 1 .. n : Append(f, g[n + 1])[i] = f[i]
      /\ Append(f, g[n + 1])[n + 1] = g[n + 1]
  BY <1>1, <1>3, AppendProperties
<1>5. ASSUME NEW i \in 1 .. n + 1 PROVE g[i] = Append(f, g[n + 1])[i]
  <2>1. CASE i = n + 1
    BY <1>4, <2>1
  <2>2. CASE i \in 1 .. n
    <3>1. g[i] = f[i]
      BY <2>2
    <3> QED
      BY <1>4, <2>2, <3>1
  <2>3. i = n + 1 \/ i \in 1 .. n
    OBVIOUS
  <2> QED
    BY <2>1, <2>2, <2>3
<1> QED
  BY <1>2, <1>4, <1>5, SeqEqual

\* A shorter function, moved by one place, is the tail of the longer one.
LEMMA OneLess ==
    ASSUME NEW T, NEW n \in Nat \ {0},
           NEW f \in [1 .. n - 1 -> T], NEW g \in [1 .. n -> T],
           \A i \in 1 .. n - 1 : f[i] = g[i + 1]
    PROVE  f = Tail(g) /\ g # <<>> /\ Head(g) = g[1]
<1>1. f \in Seq(T) /\ Len(f) = n - 1
  OBVIOUS
<1>2. g \in Seq(T) /\ Len(g) = n
  OBVIOUS
<1>3. g # <<>>
  BY <1>2, EmptySeq
<1>4. /\ Tail(g) \in Seq(T)
      /\ Len(Tail(g)) = n - 1
      /\ \A i \in 1 .. n - 1 : Tail(g)[i] = g[i + 1]
  BY <1>2, <1>3, HeadTailProperties
<1>5. f = Tail(g)
  BY <1>1, <1>4, SeqEqual
<1>6. Head(g) = g[1]
  BY <1>2, <1>3
<1> QED
  BY <1>3, <1>5, <1>6

\* The cells of the i-th message.
Piece(s, i) == SubSeq(s, (i - 1) * MESSAGE_SIZE + 1, i * MESSAGE_SIZE)

\* A stream of n messages is read as n messages.
LEMMA DecodedHolds ==
    ASSUME NEW s, NEW n, NEW H, Holds(s, n, H)
    PROVE  Decoded(s) = [i \in 1 .. n |-> Decode(Piece(s, i))] /\ Under(s) = n
<1>1. Under(s) = n
  BY SizeType, CountsMessages DEF Under, Holds
<1> QED
  BY <1>1 DEF Decoded, Piece

\* Places of the i-th of n messages.
LEMMA PiecePlace ==
    ASSUME NEW n \in Nat, NEW i \in 1 .. n, NEW L, L = n * MESSAGE_SIZE
    PROVE  /\ (i - 1) * MESSAGE_SIZE \in Nat
           /\ i * MESSAGE_SIZE = (i - 1) * MESSAGE_SIZE + MESSAGE_SIZE
           /\ (i - 1) * MESSAGE_SIZE + 1 \in 1 .. L
           /\ i * MESSAGE_SIZE \in 1 .. L
<1>1. i - 1 \in Nat /\ i - 1 < n /\ (i - 1) + 1 = i
  OBVIOUS
<1>2. /\ (i - 1) * MESSAGE_SIZE \in Nat
      /\ (i - 1) * MESSAGE_SIZE + MESSAGE_SIZE <= L
      /\ L \in Nat
  BY <1>1, SizeType, MultiplesOrdered, NextMultiple
<1>3. i * MESSAGE_SIZE = (i - 1) * MESSAGE_SIZE + MESSAGE_SIZE
  BY <1>1, SizeType, NextMultiple
<1> DEFINE q == (i - 1) * MESSAGE_SIZE
<1> HIDE DEF q
<1>4. q \in Nat /\ q + MESSAGE_SIZE <= L
  BY <1>2 DEF q
<1>5. q + 1 \in 1 .. L /\ q + MESSAGE_SIZE \in 1 .. L
  BY <1>2, <1>4, SizeType
<1> QED
  BY <1>2, <1>3, <1>5 DEF q

\* What is read of a stream does not change when more is written behind it.
LEMMA PieceKept ==
    ASSUME NEW s, NEW n, NEW H, Holds(s, n, H), NEW m \in Seq(Cell),
           NEW i \in 1 .. n
    PROVE  Piece(s \o m, i) = Piece(s, i)
<1>1. /\ (i - 1) * MESSAGE_SIZE + 1 \in 1 .. Len(s)
      /\ i * MESSAGE_SIZE \in 1 .. Len(s)
  BY PiecePlace DEF Holds
<1> QED
  BY <1>1, SubSeqOfConcat1 DEF Holds, Piece

\* What is written behind a stream is what is read after it.
LEMMA PieceWritten ==
    ASSUME NEW s, NEW n, NEW H, Holds(s, n, H), NEW m, Whole(m, H)
    PROVE  Piece(s \o m, n + 1) = m
<1> DEFINE L == Len(s)
           M == MESSAGE_SIZE
<1>1. /\ s \in Seq(Cell) /\ m \in Seq(Cell) /\ L \in Nat /\ L = n * M
      /\ M \in Nat /\ M > 1 /\ Len(m) = M /\ n \in Nat
  BY SizeType, LenProperties DEF Holds, Whole
<1>2. ((n + 1) - 1) * M = L /\ (n + 1) * M = L + M
  <2>1. (n + 1) - 1 = n
    BY <1>1
  <2> QED
    BY <1>1, <2>1, NextMultiple
<1>3. Piece(s \o m, n + 1) = SubSeq(s \o m, L + 1, L + M)
  <2>1. Piece(s \o m, n + 1) =
           SubSeq(s \o m, ((n + 1) - 1) * M + 1, (n + 1) * M)
    BY DEF Piece
  <2> HIDE DEF L, M
  <2> QED
    BY <1>2, <2>1, Zenon
<1> HIDE DEF L, M
<1>4. /\ L + 1 \in L + 1 .. L + M /\ L + M \in L + 1 .. L + M
      /\ L + 1 - L = 1 /\ L + M - L = M
  BY <1>1
<1>5. SubSeq(s \o m, L + 1, L + M) = SubSeq(m, 1, M)
  BY <1>1, <1>4, SubSeqOfConcat2 DEF L
<1>6. SubSeq(m, 1, M) = m
  BY <1>1, SubSeqFull
<1> QED
  BY <1>3, <1>5, <1>6

LEMMA DecodedWritten ==
    ASSUME NEW s, NEW n, NEW H, Holds(s, n, H), NEW m, Whole(m, H)
    PROVE  Decoded(s \o m) = Append(Decoded(s), Decode(m))
<1>1. Holds(s \o m, n + 1, H) /\ n \in Nat /\ m \in Seq(Cell)
  <2>1. Holds(s \o m, n + 1, H)
    BY HoldsWritten
  <2> QED
    BY <2>1 DEF Holds, Whole
<1> DEFINE f == Decoded(s)
           g == Decoded(s \o m)
<1>2. f = [i \in 1 .. n |-> Decode(Piece(s, i))]
  BY DecodedHolds
<1>3. g = [i \in 1 .. n + 1 |-> Decode(Piece(s \o m, i))]
  BY <1>1, DecodedHolds
<1> HIDE DEF f, g
<1>4. \A i \in 1 .. n : g[i] = f[i]
  <2> SUFFICES ASSUME NEW i \in 1 .. n PROVE g[i] = f[i]
    OBVIOUS
  <2>1. Piece(s \o m, i) = Piece(s, i)
    BY <1>1, PieceKept
  <2>2. i \in 1 .. n + 1
    BY <1>1
  <2> QED
    BY <1>2, <1>3, <2>1, <2>2
<1>5. g[n + 1] = Decode(m)
  <2>1. n + 1 \in 1 .. n + 1
    BY <1>1
  <2> QED
    BY <1>3, <2>1, PieceWritten
<1> DEFINE T == {Decode(Piece(s \o m, i)) : i \in 1 .. n + 1}
<1>6. g \in [1 .. n + 1 -> T]
  BY <1>3
<1>7. f \in [1 .. n -> T]
  <2>1. ASSUME NEW i \in 1 .. n PROVE f[i] \in T
    <3>1. i \in 1 .. n + 1
      BY <1>1
    <3>2. f[i] = Decode(Piece(s \o m, i))
      BY <1>3, <1>4, <3>1
    <3> QED
      BY <3>1, <3>2
  <2> HIDE DEF T
  <2> QED
    BY <1>2, <2>1
<1> HIDE DEF T
<1>8. g = Append(f, g[n + 1])
  BY <1>1, <1>4, <1>6, <1>7, OneMore
<1> QED
  BY <1>5, <1>8 DEF f, g

\* Once the first message is taken, the others are each one place earlier.
LEMMA PieceLeft ==
    ASSUME NEW s, NEW n, NEW H, Holds(s, n, H), NEW i \in 1 .. n - 1
    PROVE  Piece(SubSeq(s, MESSAGE_SIZE + 1, Len(s)), i) = Piece(s, i + 1)
<1> DEFINE L == Len(s)
           M == MESSAGE_SIZE
           q == (i - 1) * M
<1>1. /\ s \in Seq(Cell) /\ L \in Nat /\ L = n * M
      /\ M \in Nat /\ M > 1 /\ n \in Nat /\ i \in Nat /\ i < n
  BY SizeType, LenProperties DEF Holds
<1>2. q \in Nat /\ i * M = q + M
  BY <1>1, PiecePlace
<1>3. (i + 1) * M = q + M + M /\ ((i + 1) - 1) * M = q + M
  <2>1. (i + 1) - 1 = i
    BY <1>1
  <2> QED
    BY <1>1, <1>2, <2>1, NextMultiple
<1>4. q + M + M <= L
  <2>1. i + 1 \in 1 .. n
    BY <1>1
  <2>2. (i + 1) * M \in 1 .. L
    BY <1>1, <2>1, PiecePlace
  <2> QED
    BY <1>3, <2>2
<1>5. Piece(SubSeq(s, M + 1, L), i) = SubSeq(SubSeq(s, M + 1, L), q + 1, q + M)
  BY <1>2 DEF Piece
<1>6. Piece(s, i + 1) = SubSeq(s, q + M + 1, q + M + M)
  <2>1. Piece(s, i + 1) = SubSeq(s, ((i + 1) - 1) * M + 1, (i + 1) * M)
    BY DEF Piece
  <2> HIDE DEF L, M, q
  <2> QED
    BY <1>3, <2>1, Zenon
<1> HIDE DEF L, M, q
<1>7. /\ M + 1 \in 1 .. L /\ L \in 1 .. L
      /\ q + 1 \in 1 .. L - (M + 1) + 1 /\ q + M \in 1 .. L - (M + 1) + 1
  BY <1>1, <1>2, <1>4
<1>8. SubSeq(SubSeq(s, M + 1, L), q + 1, q + M) =
         SubSeq(s, M + 1 + (q + 1) - 1, M + 1 + (q + M) - 1)
  <2> DEFINE a == M + 1
             x == q + 1
             y == q + M
  <2>1. /\ a \in 1 .. Len(s) /\ Len(s) \in 1 .. Len(s)
        /\ x \in 1 .. Len(s) - a + 1 /\ y \in 1 .. Len(s) - a + 1
    BY <1>7 DEF L
  <2> HIDE DEF a, x, y
  <2>2. SubSeq(SubSeq(s, a, Len(s)), x, y) = SubSeq(s, a + x - 1, a + y - 1)
    BY <1>1, <2>1, SubSeqOfSubSeq
  <2> QED
    BY <2>2 DEF a, x, y, L
<1>9. M + 1 + (q + 1) - 1 = q + M + 1 /\ M + 1 + (q + M) - 1 = q + M + M
  BY <1>1, <1>2
<1> QED
  BY <1>5, <1>6, <1>8, <1>9 DEF L, M

\* The first message is what is decoded of the whole stream.
LEMMA PieceFirst ==
    ASSUME NEW s, NEW n, NEW H, Holds(s, n, H), n > 0
    PROVE  Decode(Piece(s, 1)) = Decode(s)
<1> DEFINE L == Len(s)
           M == MESSAGE_SIZE
           p == Piece(s, 1)
<1>1. /\ s \in Seq(Cell) /\ L \in Nat /\ L = n * M
      /\ M \in Nat /\ M > 1 /\ n \in Nat /\ 1 \in 1 .. n
  BY SizeType, LenProperties DEF Holds
<1>2. M <= L
  <2>1. 1 * M \in 1 .. L /\ 1 * M = M
    BY <1>1, PiecePlace
  <2> QED
    BY <1>1, <2>1
<1>3. p = SubSeq(s, 1, M)
  <2>1. (1 - 1) * M + 1 = 1 /\ 1 * M = M
    BY <1>1
  <2>2. p = SubSeq(s, (1 - 1) * M + 1, 1 * M)
    BY DEF Piece
  <2> HIDE DEF M, p
  <2> QED
    BY <2>1, <2>2, Zenon
<1> HIDE DEF L, M, p
<1>4. p[1] = s[1]
  <2>1. \A i \in 1 .. M : s[i] \in Cell
    BY <1>1, <1>2, ElementOfSeq DEF L
  <2>2. 1 \in 1 .. M - 1 + 1 /\ 1 + 1 - 1 = 1
    BY <1>1
  <2> QED
    BY <1>1, <1>3, <2>1, <2>2, SubSeqProperties
<1>5. SubSeq(p, 2, M) = SubSeq(s, 2, M)
  <2>1. /\ 1 \in 1 .. L /\ M \in 1 .. L
        /\ 2 \in 1 .. M - 1 + 1 /\ M \in 1 .. M - 1 + 1
        /\ 1 + 2 - 1 = 2 /\ 1 + M - 1 = M
    BY <1>1, <1>2
  <2>2. SubSeq(SubSeq(s, 1, M), 2, M) = SubSeq(s, 1 + 2 - 1, 1 + M - 1)
    BY <1>1, <2>1, SubSeqOfSubSeq DEF L
  <2> QED
    BY <1>3, <2>1, <2>2
<1> QED
  BY <1>4, <1>5 DEF Decode, Header, Pointer, M, p

\* Reading the first message of a stream takes the oldest of its messages.
LEMMA DecodedRead ==
    ASSUME NEW s, NEW n, NEW H, Holds(s, n, H), n > 0,
           NEW r, r = SubSeq(s, MESSAGE_SIZE + 1, Len(s)), Holds(r, n - 1, H)
    PROVE  /\ Decoded(s) # <<>>
           /\ Head(Decoded(s)) = Decode(s)
           /\ Decoded(r) = Tail(Decoded(s))
<1>1. n \in Nat \ {0}
  BY DEF Holds
<1> DEFINE f == Decoded(r)
           g == Decoded(s)
           T == {Decode(Piece(s, i)) : i \in 1 .. n}
<1>2. f = [i \in 1 .. n - 1 |-> Decode(Piece(r, i))]
  BY DecodedHolds
<1>3. g = [i \in 1 .. n |-> Decode(Piece(s, i))]
  BY DecodedHolds
<1> HIDE DEF f, g
<1>4. ASSUME NEW i \in 1 .. n - 1 PROVE f[i] = g[i + 1] /\ g[i + 1] \in T
  <2>1. Piece(r, i) = Piece(s, i + 1)
    BY PieceLeft
  <2>2. i + 1 \in 1 .. n
    BY <1>1
  <2> QED
    BY <1>2, <1>3, <2>1, <2>2
<1>5. g \in [1 .. n -> T]
  BY <1>3
<1> HIDE DEF T
<1>6. f \in [1 .. n - 1 -> T]
  BY <1>2, <1>4
<1>7. f = Tail(g) /\ g # <<>> /\ Head(g) = g[1]
  BY <1>1, <1>4, <1>5, <1>6, OneLess
<1>8. g[1] = Decode(s)
  <2>1. 1 \in 1 .. n
    BY <1>1
  <2> QED
    BY <1>3, <2>1, PieceFirst
<1> QED
  BY <1>7, <1>8 DEF f, g

-----------------------------------------------------------------------------
(* The stream is a queue. *)

\* What the receiver makes of what was sent.
LEMMA DecodeHeader ==
    ASSUME NEW h \in HeaderOnly, Whole(HeaderMessage(h), {h})
    PROVE  Decode(HeaderMessage(h)) = [type |-> h, body |-> <<>>]
<1>1. HeaderMessage(h)[1] = h /\ h \notin WithBody
  BY DEF Whole, HeaderOnly, WithBody
<1> QED
  BY <1>1 DEF Decode, Header

LEMMA DecodeBody ==
    ASSUME NEW h \in WithBody, NEW a \in Addr
    PROVE  Decode(BodyMessage(h, a)) = [type |-> h, body |-> Body(a)]
<1> DEFINE b == Body(a)
           m == <<h>> \o b
<1>1. b \in Seq(Cell) /\ Len(b) = PointerCells
  BY BodyCells
<1>2. <<h>> \in Seq(Cell) /\ Len(<<h>>) = 1
  BY DEF Cell
<1>3. m[1] = h
  BY WholeBody DEF Whole, BodyMessage
<1> HIDE DEF b
<1>4. SubSeq(m, 2, MESSAGE_SIZE) = b
  <2>1. /\ PointerCells \in Nat \ {0} /\ MESSAGE_SIZE = 1 + PointerCells
        /\ 2 \in 1 + 1 .. 1 + PointerCells
        /\ 1 + PointerCells \in 1 + 1 .. 1 + PointerCells
        /\ 2 - 1 = 1 /\ (1 + PointerCells) - 1 = PointerCells
    BY CellAssumption DEF MESSAGE_SIZE
  <2>2. SubSeq(m, 2, 1 + PointerCells) =
           SubSeq(b, 2 - 1, (1 + PointerCells) - 1)
    BY <1>1, <1>2, <2>1, SubSeqOfConcat2
  <2>3. SubSeq(b, 1, PointerCells) = b
    BY <1>1, SubSeqFull
  <2> QED
    BY <2>1, <2>2, <2>3
<1> QED
  BY <1>3, <1>4 DEF Decode, Header, Pointer, BodyMessage, b

LEMMA QueueInit == Init => Queue!Init
<1> SUFFICES ASSUME Init PROVE Queue!Init
  OBVIOUS
<1>1. Holds(<<>>, 0, Handled)
  BY HoldsNothing
<1>2. Under(<<>>) = 0 /\ Decoded(<<>>) = <<>>
  BY <1>1, DecodedHolds
<1> QED
  BY <1>2 DEF Init, Queue!Init

\* A message sent is the youngest of the queue.
LEMMA QueueSend ==
    ASSUME NEW n, Holds(toServer, n, Handled), NEW m, Whole(m, Handled),
           Decode(m) \in Messages, toServer' = toServer \o m,
           UNCHANGED <<toClient, last>>
    PROVE  Queue!Send
<1>1. Decoded(toServer') = Append(Decoded(toServer), Decode(m))
  BY DecodedWritten
<1> QED
  BY <1>1 DEF Queue!Send

LEMMA QueueStep == Aligned /\ [Next]_vars => [Queue!Next]_(Queue!vars)
<1> SUFFICES ASSUME Aligned, [Next]_vars PROVE [Queue!Next]_(Queue!vars)
  OBVIOUS
<1>0. PICK n \in Nat, k \in Nat :
          Holds(toServer, n, Handled) /\ Holds(toClient, k, {"CONT"})
  BY DEF Aligned
<1>1. CASE UNCHANGED <<toServer, toClient, last>>
  BY <1>1 DEF Queue!vars
<1>2. ASSUME NEW c \in Client, NEW h \in WithBody, NEW a \in Addr,
             SendBody(c, h, a)
      PROVE  Queue!Send
  <2>1. Whole(BodyMessage(h, a), Handled)
    BY WholeBody, WholeAmong DEF WithBody, Handled
  <2>2. Decode(BodyMessage(h, a)) \in Messages
    BY DecodeBody DEF Messages
  <2> QED
    BY <1>0, <1>2, <2>1, <2>2, QueueSend DEF SendBody
<1>3. ASSUME NEW c \in Client, NEW h \in HeaderOnly,
             SendHeader(c, h)
      PROVE  Queue!Send
  <2>1. Whole(HeaderMessage(h), {h})
    BY WholeHeader DEF Aligned
  <2>2. Whole(HeaderMessage(h), Handled)
    BY <2>1, WholeAmong DEF HeaderOnly, Handled
  <2>3. Decode(HeaderMessage(h)) \in Messages
    BY <2>1, DecodeHeader DEF Messages
  <2> QED
    BY <1>0, <1>3, <2>2, <2>3, QueueSend DEF SendHeader
<1>4. ASSUME NEW c \in Client, RecvContinue(c) PROVE Queue!Continue
  <2>1. k > 0 /\ Holds(toClient', k - 1, {"CONT"})
    <3>1. Len(toClient) >= MESSAGE_SIZE
      BY <1>4 DEF RecvContinue
    <3>2. k > 0 /\ Holds(SubSeq(toClient, MESSAGE_SIZE + 1, Len(toClient)),
                         k - 1, {"CONT"})
      BY <1>0, <3>1, HoldsRead
    <3> QED
      BY <1>4, <3>2 DEF RecvContinue
  <2>2. Under(toClient) = k /\ Under(toClient') = k - 1
    BY <1>0, <2>1, DecodedHolds
  <2>3. UNCHANGED <<toServer, last>>
    BY <1>4 DEF RecvContinue
  <2> QED
    BY <2>1, <2>2, <2>3 DEF Queue!Continue
<1>5. CASE Dispatch
  <2>1. Len(toServer) >= MESSAGE_SIZE
        /\ toServer' = SubSeq(toServer, MESSAGE_SIZE + 1, Len(toServer))
    BY <1>5 DEF Dispatch
  <2>2. n > 0 /\ toServer[1] \in Handled /\ Holds(toServer', n - 1, Handled)
    BY <1>0, <2>1, HoldsRead
  <2>3. /\ Decoded(toServer) # <<>>
        /\ Head(Decoded(toServer)) = Decode(toServer)
        /\ Decoded(toServer') = Tail(Decoded(toServer))
    BY <1>0, <2>1, <2>2, DecodedRead
  <2>4. Handles(toServer[1]) /\ last' = <<Decode(toServer)>>
    BY <1>5, <2>2 DEF Dispatch, Header
  <2>5. Under(toClient') \in {Under(toClient), Under(toClient) + 1}
    <3>2. Holds(toClient \o PaddedMessage("CONT"), k + 1, {"CONT"})
      BY <1>0, WholePadded, HoldsWritten
    <3>3. /\ Under(toClient) = k
          /\ Under(toClient \o PaddedMessage("CONT")) = k + 1
      BY <1>0, <3>2, DecodedHolds
    <3>4. \/ UNCHANGED toClient
          \/ toClient' = toClient \o PaddedMessage("CONT")
      BY <2>4 DEF Handles
    <3> QED
      BY <3>3, <3>4
  <2>6. Queue!Handle
    BY <2>3, <2>4, <2>5 DEF Queue!Handle
  <2> QED
    BY <2>6 DEF Queue!Next
<1>6. ASSUME NEW c \in Client, RecvShort(c)
      PROVE  UNCHANGED <<toServer, toClient, last>>
  <2>1. toClient = <<>>
    BY <1>0, <1>6, HoldsShort DEF RecvShort
  <2> QED
    BY <1>6, <2>1 DEF RecvShort
<1>7. ASSUME NEW c \in Client, Exit(c)
      PROVE  UNCHANGED <<toServer, toClient, last>>
  BY <1>7 DEF Exit
<1>8. CASE ServerSeesEnd
  BY <1>1, <1>8 DEF ServerSeesEnd
<1>9. CASE UNCHANGED vars
  BY <1>1, <1>9 DEF vars
<1>10. CASE \E c \in Client : ClientStep(c)
  <2>1. PICK c \in Client : ClientStep(c)
    BY <1>10
  <2>2. \/ Queue!Send \/ Queue!Continue
        \/ UNCHANGED <<toServer, toClient, last>>
    BY <1>2, <1>3, <1>4, <1>6, <1>7, <2>1 DEF ClientStep
  <2> QED
    BY <1>1, <2>2 DEF Queue!Next
<1> QED
  BY <1>5, <1>8, <1>9, <1>10 DEF Next, Queue!Next

\* The stream of cells implements the queue of whole messages, whatever lies
\* behind the headers: messages are handled in the order they were sent, with
\* the pointers they were sent with, and Continues are read one at a time.
THEOREM StreamIsQueue == Spec => IsQueue
<1>1. QED
  BY QueueInit, QueueStep, InitAligned, AlignedStep, PTL
     DEF Spec, IsQueue, Queue!Spec
=============================================================================
