-------------------------- MODULE ExternalSSProofs --------------------------
(***************************************************************************)
(* Theorems about the external mode, for any number of clients, any set of *)
(* addresses, any depth and any capacity of the socket.                    *)
(***************************************************************************)
EXTENDS ExternalSS, SequenceTheorems, FiniteSetTheorems, TLAPS

-----------------------------------------------------------------------------
(* The sequence operations of both sides. *)

\* Append keeps the type and adds one element at the end.
LEMMA AppendFacts ==
    ASSUME NEW S, NEW s \in Seq(S), NEW e \in S
    PROVE  /\ Append(s, e) \in Seq(S)
           /\ Len(Append(s, e)) = Len(s) + 1
           /\ \A i \in 1 .. Len(s) : Append(s, e)[i] = s[i]
           /\ Append(s, e)[Len(s) + 1] = e
  BY AppendProperties

\* Tail of a queue that is not empty drops the oldest element only.
LEMMA TailFacts ==
    ASSUME NEW S, NEW s \in Seq(S), s # <<>>
    PROVE  /\ Head(s) \in S
           /\ Head(s) = s[1]
           /\ Tail(s) \in Seq(S)
           /\ Len(s) \in Nat \ {0}
           /\ Len(Tail(s)) = Len(s) - 1
           /\ \A i \in 1 .. Len(Tail(s)) : Tail(s)[i] = s[i + 1]
  BY EmptySeq, HeadTailProperties

\* Front has the type of its sequence, which may be empty.
LEMMA FrontInSeq ==
    ASSUME NEW S, NEW s \in Seq(S)
    PROVE  Front(s) \in Seq(S)
<1>1. CASE s = <<>>
  BY <1>1, EmptySeq, SubSeqEmpty DEF Front
<1>2. CASE s # <<>>
  <2>1. Len(s) \in Nat \ {0}
    BY <1>2, EmptySeq
  <2>2. \A i \in 1 .. Len(s) - 1 : s[i] \in S
    BY <2>1, ElementOfSeq
  <2> QED
    BY <2>1, <2>2, SubSeqProperties DEF Front
<1> QED
  BY <1>1, <1>2

-----------------------------------------------------------------------------
(* Type correctness. *)

\* What a client sends is a message.
LEMMA MessageTypes ==
    ASSUME NEW c \in Client, NEW a \in Addr
    PROVE  /\ [type |-> "CALL", addr |-> a, from |-> c] \in Message
           /\ [type |-> "RET-", addr |-> a, from |-> c] \in Message
           /\ [type |-> "NEWS", from |-> c] \in Message
           /\ [type |-> "EXEC", from |-> c] \in Message
  BY DEF Message

\* What the server reads of a message.
LEMMA MessageFields ==
    ASSUME NEW m \in Message
    PROVE  /\ m.from \in Client
           /\ m.type \in {"CALL", "RET-"} => m.addr \in Addr
  BY DEF Message

\* send_msg keeps the types of the socket.
LEMMA SendType ==
    ASSUME TypeOK, NEW m \in Message, Send(m)
    PROVE  toServer' \in Seq(Message) /\ toClient' \in Seq(Client)
<1>1. Append(toServer, m) \in Seq(Message)
  BY AppendFacts DEF TypeOK
<1> QED
  BY <1>1 DEF TypeOK, Send, socketVars

\* Every step of the server keeps the types.
LEMMA ServerType == TypeOK /\ ServerStep => TypeOK'
<1> SUFFICES ASSUME TypeOK, ServerStep PROVE TypeOK'
  OBVIOUS
<1> USE DEF TypeOK, ServerStates, Alarms, Raise, socketVars, historyVars
<1>0. <<>> \in Seq(Frame)
  BY EmptySeq
<1>1. ASSUME NEW type, Receive(type)
      PROVE  /\ toServer' \in Seq(Message)
             /\ Head(toServer) \in Message
             /\ Head(toServer).from \in Client
             /\ type \in {"CALL", "RET-"} => Head(toServer).addr \in Addr
  <2>1. Head(toServer) \in Message /\ Tail(toServer) \in Seq(Message)
    BY <1>1, TailFacts DEF Receive
  <2> QED
    BY <1>1, <2>1, MessageFields DEF Receive
<1>2. Front(stk) \in Seq(Frame)
  BY FrontInSeq
<1>3. CASE CallHandler
  <2>1. Append(stk, Head(toServer).addr) \in Seq(Frame)
    BY <1>1, <1>3, AppendFacts DEF CallHandler, Frame
  <2> QED
    BY <1>1, <1>3, <2>1 DEF CallHandler
<1>4. CASE AddWildcard
  <2>1. Append(stk, WILDCARD) \in Seq(Frame)
    BY AppendFacts DEF Frame
  <2> QED
    BY <1>1, <1>4, <2>1 DEF AddWildcard
<1>5. CASE ClearStack
  BY <1>0, <1>1, <1>5 DEF ClearStack
<1>6. CASE RetHandlerRefuses
  BY <1>1, <1>6 DEF RetHandlerRefuses
<1>7. CASE RetHandlerContinues
  <2>1. Append(toClient, Head(toServer).from) \in Seq(Client)
    BY <1>1, <1>7, AppendFacts DEF RetHandlerContinues
  <2> QED
    BY <1>1, <1>2, <1>7, <2>1 DEF RetHandlerContinues
<1>8. CASE ServerSeesEnd
  BY <1>8 DEF ServerSeesEnd
<1>9. CASE ServerKillsGroup
  BY <1>9 DEF ServerKillsGroup
<1> QED
  BY <1>3, <1>4, <1>5, <1>6, <1>7, <1>8, <1>9 DEF ServerStep

\* A return that is executed keeps the types of the client's history.
LEMMA ExecutedType ==
    ASSUME TypeOK, NEW c \in Client, ReturnExecuted(c)
    PROVE  /\ status' \in [Client -> Statuses]
           /\ frames' \in [Client -> Seq(Frame)]
           /\ lost' \in [Client -> Nat]
           /\ goal' \in [Client -> Addr \union {NoAddr}]
<1> DEFINE f == Front(frames[c])
           n == IF lost[c] < Len(frames[c]) THEN lost[c] ELSE Len(f)
<1>1. f \in Seq(Frame)
  BY FrontInSeq DEF TypeOK
<1>2. n \in Nat
  BY <1>1, LenProperties DEF TypeOK
<1>3. /\ status' = [status EXCEPT ![c] = "running"]
      /\ frames' = [frames EXCEPT ![c] = f]
      /\ lost' = [lost EXCEPT ![c] = n]
      /\ goal' = [goal EXCEPT ![c] = NoAddr]
  BY DEF ReturnExecuted
<1> HIDE DEF f, n
<1> QED
  BY <1>1, <1>2, <1>3 DEF TypeOK, Statuses

\* Every step of a client keeps the types.
LEMMA ClientType ==
    ASSUME NEW c \in Client
    PROVE  TypeOK /\ ClientStep(c) => TypeOK'
<1> SUFFICES ASSUME TypeOK, ClientStep(c) PROVE TypeOK'
  OBVIOUS
<1> USE DEF TypeOK, Statuses, socketVars, serverVars, historyVars
<1>0. <<>> \in Seq(Frame) /\ Front(frames[c]) \in Seq(Frame)
      /\ Len(frames[c]) \in Nat
  BY EmptySeq, FrontInSeq, LenProperties
<1>1. ASSUME NEW a \in Addr, OnCall(c, a) PROVE TypeOK'
  <2>1. toServer' \in Seq(Message) /\ toClient' \in Seq(Client)
    BY <1>1, SendType, MessageTypes DEF OnCall
  <2>2. Append(frames[c], a) \in Seq(Frame)
    BY AppendFacts DEF Frame
  <2> QED
    BY <1>1, <2>1, <2>2 DEF OnCall
<1>2. ASSUME NEW a \in Addr, OnRetSends(c, a) PROVE TypeOK'
  <2>1. toServer' \in Seq(Message) /\ toClient' \in Seq(Client)
    BY <1>2, SendType, MessageTypes DEF OnRetSends
  <2> QED
    BY <1>2, <2>1 DEF OnRetSends
<1>3. CASE OnSignal(c)
  <2>1. [type |-> "NEWS", from |-> c] \in Message
    BY DEF Message
  <2>2. toServer' \in Seq(Message) /\ toClient' \in Seq(Client)
    BY <1>3, <2>1, SendType DEF OnSignal
  <2>3. Append(frames[c], WILDCARD) \in Seq(Frame)
    BY AppendFacts DEF Frame
  <2> QED
    BY <1>3, <2>2, <2>3 DEF OnSignal
<1>4. CASE OnRetContinues(c) \/ AstrayContinues(c)
  <2>1. CASE OnRetContinues(c)
    <3>1. Tail(toClient) \in Seq(Client)
      BY <2>1, TailFacts DEF OnRetContinues
    <3>2. ReturnExecuted(c)
      BY <2>1 DEF OnRetContinues
    <3> QED
      BY <2>1, <3>1, <3>2, ExecutedType DEF OnRetContinues
  <2>2. CASE AstrayContinues(c)
    <3>1. ReturnExecuted(c)
      BY <2>2 DEF AstrayContinues
    <3> QED
      BY <2>2, <3>1, ExecutedType DEF AstrayContinues
  <2> QED
    BY <1>4, <2>1, <2>2
<1>5. CASE RecvFails(c) \/ RecvInterrupted(c) \/ AstrayFails(c)
  BY <1>5 DEF RecvFails, RecvInterrupted, AstrayFails
<1>6. CASE WriteFails(c) \/ WriteRaisesSigpipe(c)
  BY <1>6 DEF WriteFails, WriteRaisesSigpipe
<1>7. CASE DropSocket(c)
  BY <1>7 DEF DropSocket
<1>8. CASE PreExecve(c) \/ ExecveFails(c)
  <2>1. [type |-> "EXEC", from |-> c] \in Message
    BY DEF Message
  <2>2. toServer' \in Seq(Message) /\ toClient' \in Seq(Client)
    BY <1>8, <2>1, SendType DEF PreExecve, ExecveFails
  <2>3. CASE PreExecve(c)
    BY <1>0, <2>2, <2>3 DEF PreExecve
  <2>4. CASE ExecveFails(c)
    BY <2>2, <2>4 DEF ExecveFails
  <2> QED
    BY <1>8, <2>3, <2>4
<1>9. CASE EnvWalkCrashes(c)
  BY <1>9 DEF EnvWalkCrashes
<1>10. CASE ExecveSucceeds(c)
  BY <1>0, <1>10 DEF ExecveSucceeds
<1>11. ASSUME NEW d \in Children, Fork(c, d) PROVE TypeOK'
  <2>1. d \in Client
    BY DEF Client
  <2> QED
    BY <1>11, <2>1 DEF Fork
<1>12. ASSUME NEW d \in Workers, Clone(c, d) PROVE TypeOK'
  <2>1. d \in Client
    BY DEF Client
  <2> QED
    BY <1>12, <2>1 DEF Clone
<1>13. CASE ThreadExit(c) \/ ExitProcess(c)
  BY <1>13 DEF ThreadExit, ExitProcess
<1>14. CASE ClientKillsGroup(c)
  BY <1>14 DEF ClientKillsGroup
<1> HIDE DEF TypeOK
<1> QED
  BY <1>1, <1>2, <1>3, <1>4, <1>5, <1>6, <1>7, <1>8, <1>9, <1>10, <1>11,
     <1>12, <1>13, <1>14 DEF ClientStep

LEMMA InitType == Init => TypeOK
<1>1. /\ <<>> \in Seq(Frame) /\ <<>> \in Seq(Message)
      /\ <<>> \in Seq(Client)
  BY EmptySeq
<1>2. Init => killed \in BOOLEAN
  BY Zenon DEF Init
<1> QED
  BY <1>1, <1>2 DEF Init, TypeOK, Statuses, ServerStates, Alarms, Client

LEMMA StepType == TypeOK /\ [Next]_vars => TypeOK'
<1> SUFFICES ASSUME TypeOK, [Next]_vars PROVE TypeOK'
  OBVIOUS
<1>1. ASSUME NEW c \in Client, Reap(c) PROVE TypeOK'
  BY <1>1 DEF Reap, TypeOK, Statuses, socketVars, serverVars, historyVars
<1>2. CASE ServerCrashes \/ ReapServer
  BY <1>2 DEF ServerCrashes, ReapServer, TypeOK, ServerStates, socketVars,
     historyVars
<1>3. CASE UNCHANGED vars
  BY <1>3 DEF vars, TypeOK, socketVars, serverVars, historyVars
<1> QED
  BY <1>1, <1>2, <1>3, ServerType, ClientType DEF Next

\* Type correctness.
THEOREM TypeCorrect == Spec => []TypeOK
  BY InitType, StepType, PTL DEF Spec

-----------------------------------------------------------------------------
(* Who is in a return.                                                     *)

\* A client is in a return from OnRetSends until the return is executed, and
\* asks astray only once its process has dropped the socket.  A client that
\* does not exist yet is in no process but its own.
Shape ==
    \A c \in Client :
        /\ status[c] \in {"unborn", "running", "execing"} => goal[c] = NoAddr
        /\ status[c] \in {"waiting", "astray"} => goal[c] # NoAddr
        /\ status[c] = "astray" => proc[c] \notin held
        /\ status[c] = "unborn" => proc[c] = c

LEMMA ShapeStep == TypeOK /\ Shape /\ [Next]_vars => Shape'
<1> SUFFICES ASSUME TypeOK, Shape, [Next]_vars PROVE Shape'
  OBVIOUS
<1>0. /\ status \in [Client -> Statuses] /\ proc \in [Client -> Client]
      /\ goal \in [Client -> Addr \union {NoAddr}] /\ held \subseteq Client
  BY DEF TypeOK
<1> USE <1>0 DEF Shape, Live, historyVars
<1>1. CASE ServerStep \/ ServerCrashes \/ ReapServer \/ UNCHANGED vars
  <2>1. UNCHANGED <<status, proc, held, goal>>
    BY <1>1 DEF ServerStep, CallHandler, AddWildcard, ClearStack,
       RetHandlerRefuses, RetHandlerContinues, ServerSeesEnd,
       ServerKillsGroup, ServerCrashes, ReapServer, vars
  <2> QED
    BY <2>1
<1>2. ASSUME NEW c \in Client, Reap(c) PROVE Shape'
  BY <1>2 DEF Reap
<1>3. ASSUME NEW c \in Client, ClientStep(c) PROVE Shape'
  <2>1. ASSUME NEW a \in Addr, OnCall(c, a) PROVE Shape'
    BY <2>1 DEF OnCall
  <2>2. ASSUME NEW a \in Addr, OnRetSends(c, a) PROVE Shape'
    BY <2>2, AddrAssumption DEF OnRetSends
  <2>3. CASE OnSignal(c)
    BY <2>3 DEF OnSignal
  <2>4. CASE OnRetContinues(c) \/ AstrayContinues(c)
    BY <2>4 DEF OnRetContinues, AstrayContinues, ReturnExecuted
  <2>5. CASE RecvFails(c) \/ RecvInterrupted(c) \/ AstrayFails(c)
    BY <2>5 DEF RecvFails, RecvInterrupted, AstrayFails
  <2>6. CASE WriteFails(c) \/ WriteRaisesSigpipe(c)
    BY <2>6 DEF WriteFails, WriteRaisesSigpipe
  <2>7. CASE DropSocket(c)
    BY <2>7 DEF DropSocket
  <2>8. CASE PreExecve(c) \/ ExecveFails(c)
    BY <2>8 DEF PreExecve, ExecveFails
  <2>9. CASE EnvWalkCrashes(c) \/ ExecveSucceeds(c)
    BY <2>9 DEF EnvWalkCrashes, ExecveSucceeds
  <2>10. ASSUME NEW d \in Children, Fork(c, d) PROVE Shape'
    <3>1. d \in Client
      BY DEF Client
    <3> QED
      BY <2>10, <3>1 DEF Fork
  <2>11. ASSUME NEW d \in Workers, Clone(c, d) PROVE Shape'
    <3>1. d \in Client
      BY DEF Client
    <3> QED
      BY <2>11, <3>1 DEF Clone
  <2>12. CASE ThreadExit(c) \/ ExitProcess(c)
    BY <2>12 DEF ThreadExit, ExitProcess
  <2>13. CASE ClientKillsGroup(c)
    BY <2>13 DEF ClientKillsGroup
  <2> HIDE DEF Shape
  <2> QED
    BY <1>3, <2>1, <2>2, <2>3, <2>4, <2>5, <2>6, <2>7, <2>8, <2>9, <2>10,
       <2>11, <2>12, <2>13 DEF ClientStep
<1> HIDE DEF Shape
<1> QED
  BY <1>1, <1>2, <1>3 DEF Next

LEMMA InitShape == Init => Shape
  BY DEF Init, Shape

-----------------------------------------------------------------------------
(* As many answers as clients waiting.                                     *)

\* The places of a queue that hold a return.
Returns(q) == {i \in 1 .. Len(q) : q[i].type = "RET-"}

LEMMA ReturnsFinite ==
    ASSUME NEW q \in Seq(Message)
    PROVE  IsFiniteSet(Returns(q)) /\ Cardinality(Returns(q)) \in Nat
<1>1. Len(q) \in Nat
  BY LenProperties
<1>2. IsFiniteSet(1 .. Len(q))
  BY <1>1, FS_Interval
<1> QED
  BY <1>2, FS_Subset, FS_CardinalityType DEF Returns

\* A message that is no return does not change their number, a return adds one.
LEMMA ReturnsAppend ==
    ASSUME NEW q \in Seq(Message), NEW m \in Message
    PROVE  Cardinality(Returns(Append(q, m))) =
              Cardinality(Returns(q)) + (IF m.type = "RET-" THEN 1 ELSE 0)
<1>1. Len(q) \in Nat
  BY LenProperties
<1>2. /\ Len(Append(q, m)) = Len(q) + 1
      /\ \A i \in 1 .. Len(q) : Append(q, m)[i] = q[i]
      /\ Append(q, m)[Len(q) + 1] = m
  BY AppendFacts
<1>3. IsFiniteSet(Returns(q)) /\ Cardinality(Returns(q)) \in Nat
  BY ReturnsFinite
<1>4. CASE m.type = "RET-"
  <2>1. Returns(Append(q, m)) = Returns(q) \union {Len(q) + 1}
    BY <1>1, <1>2, <1>4 DEF Returns
  <2>2. Len(q) + 1 \notin Returns(q)
    BY <1>1 DEF Returns
  <2> QED
    BY <1>3, <1>4, <2>1, <2>2, FS_AddElement
<1>5. CASE m.type # "RET-"
  <2>1. Returns(Append(q, m)) = Returns(q)
    BY <1>1, <1>2, <1>5 DEF Returns
  <2> QED
    BY <1>3, <1>5, <2>1
<1> QED
  BY <1>4, <1>5

\* Taking the oldest message takes one return away or none: those that stay
\* move one place.
LEMMA ReturnsTail ==
    ASSUME NEW q \in Seq(Message), q # <<>>
    PROVE  Cardinality(Returns(Tail(q))) =
              Cardinality(Returns(q)) - (IF Head(q).type = "RET-" THEN 1 ELSE 0)
<1>1. /\ Len(q) \in Nat \ {0}
      /\ Head(q) = q[1]
      /\ Tail(q) \in Seq(Message)
      /\ Len(Tail(q)) = Len(q) - 1
      /\ \A i \in 1 .. Len(Tail(q)) : Tail(q)[i] = q[i + 1]
  BY TailFacts
<1>2. /\ IsFiniteSet(Returns(q)) /\ Cardinality(Returns(q)) \in Nat
      /\ IsFiniteSet(Returns(Tail(q)))
  BY <1>1, ReturnsFinite
<1>3. Cardinality(Returns(Tail(q))) = Cardinality(Returns(q) \ {1})
  <2> DEFINE shift == [i \in Returns(Tail(q)) |-> i + 1]
  <2>1. \A i \in Returns(Tail(q)) : i \in Nat /\ i + 1 \in Returns(q) \ {1}
    BY <1>1 DEF Returns
  <2>2. \A j \in Returns(q) \ {1} : j - 1 \in Returns(Tail(q)) /\ j \in Nat
    BY <1>1 DEF Returns
  <2>3. shift \in [Returns(Tail(q)) -> Returns(q) \ {1}]
    BY <2>1
  <2>4. \A i, j \in Returns(Tail(q)) : shift[i] = shift[j] => i = j
    BY <2>1
  <2>5. \A j \in Returns(q) \ {1} : \E i \in Returns(Tail(q)) : shift[i] = j
    <3> SUFFICES ASSUME NEW j \in Returns(q) \ {1}
                 PROVE  \E i \in Returns(Tail(q)) : shift[i] = j
      OBVIOUS
    <3>1. j - 1 \in Returns(Tail(q)) /\ shift[j - 1] = j
      BY <2>2
    <3> QED
      BY <3>1
  <2> HIDE DEF shift
  <2>6. shift \in Bijection(Returns(Tail(q)), Returns(q) \ {1})
    BY <2>3, <2>4, <2>5 DEF Bijection, Injection, Surjection, IsInjective
  <2> QED
    BY <1>2, <2>6, FS_Bijection DEF ExistsBijection
<1>4. 1 \in Returns(q) <=> Head(q).type = "RET-"
  BY <1>1 DEF Returns
<1>5. Cardinality(Returns(q) \ {1}) =
         IF 1 \in Returns(q) THEN Cardinality(Returns(q)) - 1
                            ELSE Cardinality(Returns(q))
  BY <1>2, FS_RemoveElement
<1>6. CASE Head(q).type = "RET-"
  BY <1>3, <1>4, <1>5, <1>6
<1>7. CASE Head(q).type # "RET-"
  BY <1>2, <1>3, <1>4, <1>5, <1>7
<1> QED
  BY <1>6, <1>7

\* The clients in a return; those of them whose return was certainly announced
\* over the socket; and those whose return may have been.
InReturn == {c \in Client : goal[c] # NoAddr}
Owed == {c \in InReturn : proc[c] \in held \/ status[c] = "waiting"}
Announced == {c \in InReturn : status[c] # "astray"}

\* The returns and Continues under way, between the two.
UnderWay == Cardinality(Returns(toServer)) + Len(toClient)

Counted ==
    /\ IsFiniteSet(InReturn)
    /\ srv = "serving" => Cardinality(Owed) <= UnderWay
    /\ UnderWay <= Cardinality(Announced)

LEMMA CountTypes ==
    ASSUME TypeOK, Counted
    PROVE  /\ toServer \in Seq(Message) /\ toClient \in Seq(Client)
           /\ Len(toClient) \in Nat
           /\ Cardinality(Returns(toServer)) \in Nat
           /\ UnderWay \in Nat
           /\ IsFiniteSet(Owed) /\ Cardinality(Owed) \in Nat
           /\ IsFiniteSet(Announced) /\ Cardinality(Announced) \in Nat
<1>1. Owed \subseteq InReturn /\ Announced \subseteq InReturn
  BY DEF Owed, Announced
<1> QED
  BY <1>1, FS_Subset, FS_CardinalityType, ReturnsFinite, LenProperties
  DEF TypeOK, Counted, UnderWay

\* A step that takes no Continue and at most adds a message that is no return
\* keeps the count, if it brings no client into a return and takes none out of
\* one that may have been announced.
LEMMA FewerOwed ==
    ASSUME TypeOK, Counted, NEW m \in Message, m.type # "RET-",
           InReturn' \subseteq InReturn,
           Owed' \subseteq Owed, Announced \subseteq Announced',
           toClient' = toClient,
           toServer' \in {toServer, Append(toServer, m)},
           srv' = "serving" => srv = "serving"
    PROVE  Counted'
<1>1. /\ toServer \in Seq(Message)
      /\ Cardinality(Returns(toServer)) \in Nat
      /\ UnderWay \in Nat
      /\ IsFiniteSet(Owed) /\ Cardinality(Owed) \in Nat
      /\ Cardinality(Announced) \in Nat
  BY CountTypes
<1>2. IsFiniteSet(InReturn)'
  BY FS_Subset DEF Counted
<1>3. IsFiniteSet(Announced') /\ Cardinality(Announced') \in Nat
  <2>1. Announced' \subseteq InReturn'
    BY DEF Announced
  <2> QED
    BY <1>2, <2>1, FS_Subset, FS_CardinalityType
<1>4. Cardinality(Announced) <= Cardinality(Announced')
  BY <1>3, FS_Subset
<1>5. Cardinality(Owed') <= Cardinality(Owed) /\ Cardinality(Owed') \in Nat
  BY <1>1, FS_Subset, FS_CardinalityType
<1>6. Cardinality(Returns(toServer')) = Cardinality(Returns(toServer))
  <2>1. Cardinality(Returns(Append(toServer, m))) = Cardinality(Returns(toServer))
    BY <1>1, ReturnsAppend
  <2> QED
    BY <2>1
<1>7. UnderWay' = UnderWay
  BY <1>6 DEF UnderWay
<1> QED
  BY <1>1, <1>2, <1>3, <1>4, <1>5, <1>7 DEF Counted

\* Every step of the server keeps the count.
LEMMA ServerCounts == TypeOK /\ Counted /\ ServerStep => Counted'
<1> SUFFICES ASSUME TypeOK, Counted, ServerStep PROVE Counted'
  OBVIOUS
<1>1. /\ toServer \in Seq(Message) /\ toClient \in Seq(Client)
      /\ Len(toClient) \in Nat
      /\ Cardinality(Returns(toServer)) \in Nat
      /\ Cardinality(Owed) \in Nat /\ Cardinality(Announced) \in Nat
  BY CountTypes
<1>2. InReturn' = InReturn /\ Owed' = Owed /\ Announced' = Announced
  <2>1. UNCHANGED <<status, proc, held, goal>>
    BY DEF ServerStep, CallHandler, AddWildcard, ClearStack,
       RetHandlerRefuses, RetHandlerContinues, ServerSeesEnd,
       ServerKillsGroup, historyVars
  <2> QED
    BY <2>1 DEF InReturn, Owed, Announced
<1>3. ASSUME NEW type, Receive(type)
      PROVE  Cardinality(Returns(toServer')) =
                Cardinality(Returns(toServer))
                  - (IF type = "RET-" THEN 1 ELSE 0)
  BY <1>1, <1>3, ReturnsTail DEF Receive
<1>4. CASE CallHandler \/ AddWildcard \/ ClearStack
  <2>1. Cardinality(Returns(toServer')) = Cardinality(Returns(toServer))
    BY <1>1, <1>3, <1>4 DEF CallHandler, AddWildcard, ClearStack
  <2>2. toClient' = toClient /\ srv' = srv
    BY <1>4 DEF CallHandler, AddWildcard, ClearStack
  <2> QED
    BY <1>1, <1>2, <2>1, <2>2 DEF Counted, UnderWay
<1>5. CASE RetHandlerContinues
  <2>1. Cardinality(Returns(toServer')) = Cardinality(Returns(toServer)) - 1
    BY <1>3, <1>5 DEF RetHandlerContinues
  <2>2. CASE Connected
    <3>1. srv = "serving" /\ srv' = srv
      BY <1>5, <2>2 DEF RetHandlerContinues, Receive
    <3>2. Len(toClient') = Len(toClient) + 1
      <4>1. toClient' = Append(toClient, Head(toServer).from)
        BY <1>5, <2>2 DEF RetHandlerContinues
      <4>2. Head(toServer) \in Message
        BY <1>1, <1>5, TailFacts DEF RetHandlerContinues, Receive
      <4> QED
        BY <1>1, <4>1, <4>2, MessageFields, AppendFacts
    <3> QED
      BY <1>1, <1>2, <2>1, <3>1, <3>2 DEF Counted, UnderWay
  <2>3. CASE ~Connected
    <3>1. srv' # "serving" /\ toClient' = toClient
      BY <1>5, <2>3 DEF RetHandlerContinues, Raise
    <3> QED
      BY <1>1, <1>2, <2>1, <3>1 DEF Counted, UnderWay
  <2> QED
    BY <2>2, <2>3
<1>6. CASE RetHandlerRefuses
  <2>1. Cardinality(Returns(toServer')) = Cardinality(Returns(toServer)) - 1
    BY <1>3, <1>6 DEF RetHandlerRefuses
  <2>2. srv' # "serving" /\ toClient' = toClient
    BY <1>6 DEF RetHandlerRefuses, Raise
  <2> QED
    BY <1>1, <1>2, <2>1, <2>2 DEF Counted, UnderWay
<1>7. CASE ServerSeesEnd \/ ServerKillsGroup
  <2>1. srv' # "serving" /\ UNCHANGED <<toServer, toClient>>
    BY <1>7 DEF ServerSeesEnd, ServerKillsGroup, Raise, socketVars
  <2> QED
    BY <1>1, <1>2, <2>1 DEF Counted, UnderWay
<1> QED
  BY <1>4, <1>5, <1>6, <1>7 DEF ServerStep

\* A return that is announced adds one client in a return and one return under
\* way; one that is sent astray adds neither.
LEMMA SentReturnCounts ==
    ASSUME TypeOK, Shape, Counted, NEW c \in Client, NEW a \in Addr,
           OnRetSends(c, a)
    PROVE  Counted'
<1> DEFINE m == [type |-> "RET-", addr |-> a, from |-> c]
<1>0. m \in Message /\ m.type = "RET-" /\ m.from = c
  BY MessageTypes
<1>1. /\ toServer \in Seq(Message) /\ Len(toClient) \in Nat
      /\ Cardinality(Returns(toServer)) \in Nat
      /\ IsFiniteSet(Owed) /\ Cardinality(Owed) \in Nat
      /\ IsFiniteSet(Announced) /\ Cardinality(Announced) \in Nat
  BY CountTypes
<1>2. /\ Send(m) /\ UNCHANGED <<srv, proc, held>>
      /\ status' = [status EXCEPT ![c] =
                       IF proc[c] \in held THEN "waiting" ELSE "astray"]
      /\ goal' = [goal EXCEPT ![c] = a]
      /\ status[c] = "running" /\ a # NoAddr
  BY AddrAssumption DEF OnRetSends, serverVars
<1> HIDE DEF m
<1>3. c \notin InReturn /\ c \notin Owed /\ c \notin Announced
  BY <1>2 DEF Shape, InReturn, Owed, Announced
<1>4. InReturn' = InReturn \union {c}
  BY <1>2 DEF InReturn, TypeOK
<1>5. IsFiniteSet(InReturn)'
  BY <1>4, FS_AddElement DEF Counted
<1>6. CASE proc[c] \in held
  <2>1. Owed' = Owed \union {c} /\ Announced' = Announced \union {c}
    BY <1>2, <1>3, <1>4, <1>6 DEF InReturn, Owed, Announced, TypeOK
  <2>2. toServer' = Append(toServer, m) /\ toClient' = toClient
    BY <1>0, <1>2, <1>6 DEF Send
  <2>3. Cardinality(Returns(toServer')) = Cardinality(Returns(toServer)) + 1
    BY <1>0, <1>1, <2>2, ReturnsAppend
  <2>4. /\ Cardinality(Owed') = Cardinality(Owed) + 1
        /\ Cardinality(Announced') = Cardinality(Announced) + 1
    BY <1>1, <1>3, <2>1, FS_AddElement
  <2> QED
    BY <1>1, <1>2, <1>5, <2>2, <2>3, <2>4 DEF Counted, UnderWay
<1>7. CASE proc[c] \notin held
  <2>1. Owed' = Owed /\ Announced' = Announced
    BY <1>2, <1>3, <1>4, <1>7 DEF InReturn, Owed, Announced, TypeOK
  <2>2. toServer' = toServer /\ toClient' = toClient
    BY <1>0, <1>2, <1>7 DEF Send, socketVars
  <2> QED
    BY <1>1, <1>2, <1>5, <2>1, <2>2 DEF Counted, UnderWay
<1> QED
  BY <1>6, <1>7

\* A Continue that is taken takes one client out of its return, whoever it was
\* written for.
LEMMA TakenContinueCounts ==
    ASSUME TypeOK, Shape, Counted, NEW c \in Client, OnRetContinues(c)
    PROVE  Counted'
<1>1. /\ Cardinality(Returns(toServer)) \in Nat
      /\ Len(toClient') = Len(toClient) - 1
      /\ Len(toClient) \in Nat
      /\ IsFiniteSet(Owed) /\ Cardinality(Owed) \in Nat
      /\ IsFiniteSet(Announced) /\ Cardinality(Announced) \in Nat
  <2>1. toClient \in Seq(Client) /\ toClient # <<>> /\ toClient' = Tail(toClient)
    BY DEF OnRetContinues, TypeOK
  <2> QED
    BY <2>1, TailFacts, CountTypes
<1>2. /\ UNCHANGED <<toServer, srv, proc, held>>
      /\ status[c] = "waiting"
      /\ status' = [status EXCEPT ![c] = "running"]
      /\ goal' = [goal EXCEPT ![c] = NoAddr]
  BY DEF OnRetContinues, ReturnExecuted, serverVars
<1>3. c \in InReturn /\ c \in Owed /\ c \in Announced
  BY <1>2 DEF Shape, InReturn, Owed, Announced
<1>4. /\ InReturn' = InReturn \ {c} /\ Owed' = Owed \ {c}
      /\ Announced' = Announced \ {c}
  BY <1>2 DEF InReturn, Owed, Announced, TypeOK
<1>5. /\ IsFiniteSet(InReturn)'
      /\ Cardinality(Owed') = Cardinality(Owed) - 1
      /\ Cardinality(Announced') = Cardinality(Announced) - 1
  BY <1>1, <1>3, <1>4, FS_RemoveElement DEF Counted
<1> QED
  BY <1>1, <1>2, <1>5 DEF Counted, UnderWay

\* Every step of a client keeps the count.
LEMMA ClientCounts ==
    ASSUME NEW c \in Client
    PROVE  TypeOK /\ Shape /\ Counted /\ ClientStep(c) => Counted'
<1> SUFFICES ASSUME TypeOK, Shape, Counted, ClientStep(c) PROVE Counted'
  OBVIOUS
<1> USE DEF socketVars, serverVars, historyVars
<1>0. /\ [type |-> "NEWS", from |-> c] \in Message
      /\ [type |-> "EXEC", from |-> c] \in Message
      /\ \A a \in Addr : [type |-> "CALL", addr |-> a, from |-> c] \in Message
  BY DEF Message
<1>a. ASSUME status' = status \/ (status[c] \in {"running", "execing"}
                /\ \E p \in {"running", "execing"} :
                       status' = [status EXCEPT ![c] = p]),
             UNCHANGED <<proc, held, goal>>
      PROVE  InReturn' = InReturn /\ Owed' = Owed /\ Announced' = Announced
  BY <1>a DEF InReturn, Owed, Announced, TypeOK
<1>1. ASSUME NEW a \in Addr, OnCall(c, a) PROVE Counted'
  <2> DEFINE m == [type |-> "CALL", addr |-> a, from |-> c]
  <2>1. /\ toServer' \in {toServer, Append(toServer, m)}
        /\ toClient' = toClient /\ UNCHANGED <<status, proc, held, goal, srv>>
    BY <1>1 DEF OnCall, Send
  <2>2. m \in Message /\ m.type # "RET-"
    BY <1>0
  <2> HIDE DEF m
  <2> QED
    BY <1>a, <2>1, <2>2, FewerOwed
<1>2. ASSUME NEW a \in Addr, OnRetSends(c, a) PROVE Counted'
  BY <1>2, SentReturnCounts
<1>3. CASE OnSignal(c)
  <2> DEFINE m == [type |-> "NEWS", from |-> c]
  <2>1. /\ toServer' \in {toServer, Append(toServer, m)}
        /\ toClient' = toClient /\ UNCHANGED <<status, proc, held, goal, srv>>
    BY <1>3 DEF OnSignal, Send
  <2>2. m \in Message /\ m.type # "RET-"
    BY <1>0
  <2> HIDE DEF m
  <2> QED
    BY <1>a, <2>1, <2>2, FewerOwed
<1>4. CASE OnRetContinues(c)
  BY <1>4, TakenContinueCounts
<1>5. CASE PreExecve(c) \/ ExecveFails(c)
  <2> DEFINE m == [type |-> "EXEC", from |-> c]
  <2>1. /\ toServer' \in {toServer, Append(toServer, m)}
        /\ toClient' = toClient /\ UNCHANGED <<proc, held, goal, srv>>
        /\ status[c] \in {"running", "execing"}
        /\ \E p \in {"running", "execing"} : status' = [status EXCEPT ![c] = p]
    BY <1>5 DEF PreExecve, ExecveFails, Send
  <2>2. m \in Message /\ m.type # "RET-"
    BY <1>0
  <2> HIDE DEF m
  <2> QED
    BY <1>a, <2>1, <2>2, FewerOwed
<1>6. ASSUME UNCHANGED <<toServer, toClient, srv>>, InReturn' \subseteq InReturn,
             Owed' \subseteq Owed, Announced \subseteq Announced'
      PROVE  Counted'
  <2> DEFINE m == [type |-> "NEWS", from |-> c]
  <2>1. m \in Message /\ m.type # "RET-"
    BY <1>0
  <2> HIDE DEF m
  <2> QED
    BY <1>6, <2>1, FewerOwed
<1>7. CASE RecvFails(c) \/ RecvInterrupted(c) \/ AstrayFails(c)
  <2>1. /\ UNCHANGED <<toServer, toClient, srv, proc, held, goal>>
        /\ status' = [status EXCEPT ![c] = "failing"]
    BY <1>7 DEF RecvFails, RecvInterrupted, AstrayFails
  <2> QED
    BY <1>6, <2>1 DEF InReturn, Owed, Announced, TypeOK
<1>8. CASE AstrayContinues(c)
  <2>1. /\ UNCHANGED <<toServer, toClient, srv, proc, held>>
        /\ status[c] = "astray"
        /\ status' = [status EXCEPT ![c] = "running"]
        /\ goal' = [goal EXCEPT ![c] = NoAddr]
    BY <1>8 DEF AstrayContinues, ReturnExecuted
  <2> QED
    BY <1>6, <2>1 DEF InReturn, Owed, Announced, TypeOK
<1>9. CASE WriteFails(c) \/ DropSocket(c) \/ ClientKillsGroup(c) \/ ThreadExit(c)
  <2>1. /\ UNCHANGED <<toServer, toClient, srv, proc, goal>>
        /\ held' \subseteq held
        /\ \E p \in {"failing", "spinning", "dead"} :
              status' = status \/ status' = [status EXCEPT ![c] = p]
    BY <1>9 DEF WriteFails, DropSocket, ClientKillsGroup, ThreadExit
  <2> QED
    BY <1>6, <2>1 DEF InReturn, Owed, Announced, TypeOK
<1>10. CASE WriteRaisesSigpipe(c) \/ EnvWalkCrashes(c) \/ ExitProcess(c)
  <2>1. /\ UNCHANGED <<toServer, toClient, srv, proc, held, goal>>
        /\ \A d \in Client : status'[d] \in {status[d], "dead"}
    BY <1>10 DEF WriteRaisesSigpipe, EnvWalkCrashes, ExitProcess
  <2> QED
    BY <1>6, <2>1 DEF InReturn, Owed, Announced, TypeOK
<1>11. CASE ExecveSucceeds(c)
  <2>1. /\ UNCHANGED <<toServer, toClient, srv, proc, held, goal>>
        /\ \A d \in Client : status'[d] \in {status[d], "dead", "running"}
    BY <1>11 DEF ExecveSucceeds
  <2> QED
    BY <1>6, <2>1 DEF InReturn, Owed, Announced, TypeOK
<1>12. ASSUME NEW d \in Children, Fork(c, d) PROVE Counted'
  <2>1. /\ UNCHANGED <<toServer, toClient, srv, proc, goal>>
        /\ held' \subseteq held
        /\ status[d] = "unborn" /\ status' = [status EXCEPT ![d] = "running"]
    BY <1>12 DEF Fork
  <2> QED
    BY <1>6, <2>1 DEF InReturn, Owed, Announced, TypeOK
<1>13. ASSUME NEW d \in Workers, Clone(c, d) PROVE Counted'
  <2>1. /\ UNCHANGED <<toServer, toClient, srv, held, goal>>
        /\ status[d] = "unborn" /\ status' = [status EXCEPT ![d] = "running"]
        /\ proc' = [proc EXCEPT ![d] = proc[c]]
        /\ d \in Client
    BY <1>13 DEF Clone, Client
  <2>2. d \notin InReturn
    BY <2>1 DEF Shape, InReturn
  <2> QED
    BY <1>6, <2>1, <2>2 DEF InReturn, Owed, Announced, TypeOK
<1> QED
  BY <1>1, <1>2, <1>3, <1>4, <1>5, <1>7, <1>8, <1>9, <1>10, <1>11, <1>12,
     <1>13 DEF ClientStep

LEMMA InitCounted == Init => Counted
<1> SUFFICES ASSUME Init PROVE Counted
  OBVIOUS
<1>1. InReturn = {} /\ toServer = <<>> /\ toClient = <<>>
  BY DEF Init, InReturn
<1>2. Owed = {} /\ Announced = {} /\ Returns(<<>>) = {}
  BY <1>1 DEF Owed, Announced, Returns
<1>3. Cardinality({}) = 0 /\ IsFiniteSet({}) /\ Len(<<>>) = 0
  BY FS_EmptySet
<1>4. UnderWay = 0
  <2>1. Returns(toServer) = {} /\ Len(toClient) = 0
    BY <1>1, <1>2, <1>3
  <2> QED
    BY <1>3, <2>1 DEF UnderWay
<1> QED
  BY <1>1, <1>2, <1>3, <1>4 DEF Counted

LEMMA CountedStep == TypeOK /\ Shape /\ Counted /\ [Next]_vars => Counted'
<1> SUFFICES ASSUME TypeOK, Shape, Counted, [Next]_vars PROVE Counted'
  OBVIOUS
<1>0. [type |-> "NEWS", from |-> Main] \in Message
  BY DEF Message, Client
<1>1. ASSUME NEW c \in Client, Reap(c) PROVE Counted'
  <2>1. /\ UNCHANGED <<toServer, toClient, srv, proc, held, goal>>
        /\ \A d \in Client : status'[d] \in {status[d], "dead"}
    BY <1>1 DEF Reap, socketVars, serverVars, historyVars
  <2>2. /\ InReturn' = InReturn /\ Owed' \subseteq Owed
        /\ Announced \subseteq Announced'
    BY <2>1 DEF InReturn, Owed, Announced
  <2> QED
    BY <1>0, <2>1, <2>2, FewerOwed
<1>2. CASE ServerCrashes \/ ReapServer \/ UNCHANGED vars
  <2>1. /\ UNCHANGED <<toServer, toClient, status, proc, held, goal>>
        /\ srv' = "serving" => srv = "serving"
    BY <1>2 DEF ServerCrashes, ReapServer, vars, socketVars, serverVars,
       historyVars
  <2>2. InReturn' = InReturn /\ Owed' = Owed /\ Announced' = Announced
    BY <2>1 DEF InReturn, Owed, Announced
  <2> QED
    BY <1>0, <2>1, <2>2, FewerOwed
<1> QED
  BY <1>1, <1>2, ServerCounts, ClientCounts DEF Next

\* However many clients share the socket, take each other's Continue and die
\* waiting, no client waits for an answer that is not under way.
THEOREM WaitersCorrect == Spec => []NoWaiterForgotten
<1>1. TypeOK /\ Shape /\ Counted => NoWaiterForgotten
  <2> SUFFICES ASSUME TypeOK, Shape, Counted, srv = "serving"
               PROVE  Cardinality(Waiting)
                         <= Cardinality(PendingReturns) + Len(toClient)
    BY DEF NoWaiterForgotten
  <2>1. Waiting \subseteq Owed
    BY DEF Waiting, Owed, InReturn, Shape
  <2>2. /\ UnderWay = Cardinality(PendingReturns) + Len(toClient)
        /\ UnderWay \in Nat
        /\ IsFiniteSet(Owed) /\ Cardinality(Owed) \in Nat
    BY CountTypes DEF UnderWay, Returns, PendingReturns
  <2>3. Cardinality(Waiting) <= Cardinality(Owed) /\ Cardinality(Waiting) \in Nat
    BY <2>1, <2>2, FS_Subset, FS_CardinalityType
  <2> QED
    BY <2>2, <2>3 DEF Counted
<1> QED
  BY <1>1, InitShape, InitCounted, ShapeStep, CountedStep, TypeCorrect, PTL
  DEF Spec

-----------------------------------------------------------------------------
(* What the server reports when nobody is left.                            *)

\* A client that stopped inside a return stays there.
StuckInReturn(c) ==
    goal[c] # NoAddr /\ status[c] \in {"failing", "spinning", "dead"}

\* What keeps the report true: once the connection is closed nobody can write
\* to it, wait on it or pass it on.
Told ==
    /\ srv = "serving" => alarm = "none"
    /\ alarm = "exited" =>
          \A c \in Client :
              /\ Live(c) => proc[c] \notin held /\ status[c] # "waiting"
              /\ goal[c] # NoAddr => proc[c] \notin held
    /\ alarm = "broken" => \E c \in Client : StuckInReturn(c)

\* Nobody who stopped goes on, and only a return that is announced takes a
\* client into one.
LEMMA StuckStays ==
    ASSUME TypeOK, Shape, [Next]_vars, NEW d \in Client, StuckInReturn(d)
    PROVE  StuckInReturn(d)'
<1>0. /\ status \in [Client -> Statuses] /\ proc \in [Client -> Client]
      /\ goal \in [Client -> Addr \union {NoAddr}]
  BY DEF TypeOK
<1>1. CASE ServerStep \/ ServerCrashes \/ ReapServer \/ UNCHANGED vars
  <2>1. UNCHANGED <<status, goal>>
    BY <1>1 DEF ServerStep, CallHandler, AddWildcard, ClearStack,
       RetHandlerRefuses, RetHandlerContinues, ServerSeesEnd,
       ServerKillsGroup, ServerCrashes, ReapServer, vars, historyVars
  <2> QED
    BY <2>1 DEF StuckInReturn
<1>2. ASSUME NEW c \in Client, Reap(c) PROVE StuckInReturn(d)'
  BY <1>0, <1>2 DEF Reap, StuckInReturn, historyVars
<1>3. ASSUME NEW c \in Client, ClientStep(c) PROVE StuckInReturn(d)'
  <2> USE <1>0 DEF StuckInReturn, historyVars
  <2>1. ASSUME NEW a \in Addr, OnCall(c, a) \/ OnRetSends(c, a)
        PROVE  StuckInReturn(d)'
    BY <2>1 DEF OnCall, OnRetSends
  <2>2. CASE OnSignal(c) \/ OnRetContinues(c) \/ AstrayContinues(c)
    BY <2>2 DEF OnSignal, OnRetContinues, AstrayContinues, ReturnExecuted
  <2>3. CASE RecvFails(c) \/ RecvInterrupted(c) \/ AstrayFails(c) \/ WriteFails(c)
    BY <2>3 DEF RecvFails, RecvInterrupted, AstrayFails, WriteFails
  <2>4. CASE WriteRaisesSigpipe(c) \/ EnvWalkCrashes(c) \/ ExitProcess(c)
             \/ ThreadExit(c)
    BY <2>4 DEF WriteRaisesSigpipe, EnvWalkCrashes, ExitProcess, ThreadExit
  <2>5. CASE DropSocket(c) \/ PreExecve(c) \/ ExecveFails(c)
    BY <2>5 DEF DropSocket, PreExecve, ExecveFails
  <2>6. CASE ExecveSucceeds(c)
    BY <2>6 DEF ExecveSucceeds
  <2>7. ASSUME NEW e \in Children \union Workers, Fork(c, e) \/ Clone(c, e)
        PROVE  StuckInReturn(d)'
    BY <2>7 DEF Fork, Clone
  <2>8. CASE ClientKillsGroup(c)
    BY <2>8 DEF ClientKillsGroup
  <2> QED
    BY <1>3, <2>1, <2>2, <2>3, <2>4, <2>5, <2>6, <2>7, <2>8 DEF ClientStep
<1> QED
  BY <1>1, <1>2, <1>3 DEF Next

\* Without a process that has the socket there will be none again.
LEMMA ExitedStays ==
    ASSUME TypeOK, Shape, Told, alarm = "exited", NEW c \in Client,
           ClientStep(c) \/ Reap(c)
    PROVE  \A d \in Client :
               /\ Live(d)' => proc'[d] \notin held' /\ status'[d] # "waiting"
               /\ goal'[d] # NoAddr => proc'[d] \notin held'
<1>0. /\ status \in [Client -> Statuses] /\ proc \in [Client -> Client]
      /\ goal \in [Client -> Addr \union {NoAddr}] /\ held \subseteq Client
  BY DEF TypeOK
<1> DEFINE Goal ==
        \A d \in Client :
            /\ Live(d)' => proc'[d] \notin held' /\ status'[d] # "waiting"
            /\ goal'[d] # NoAddr => proc'[d] \notin held'
<1> USE <1>0 DEF Told, Live, historyVars
<1>1. CASE Reap(c)
  BY <1>1 DEF Reap
<1>2. ASSUME NEW a \in Addr, OnCall(c, a) \/ OnRetSends(c, a) PROVE Goal
  BY <1>2 DEF OnCall, OnRetSends
<1>3. CASE OnSignal(c) \/ OnRetContinues(c) \/ AstrayContinues(c)
  BY <1>3 DEF OnSignal, OnRetContinues, AstrayContinues, ReturnExecuted
<1>4. CASE RecvFails(c) \/ RecvInterrupted(c) \/ AstrayFails(c) \/ WriteFails(c)
  BY <1>4 DEF RecvFails, RecvInterrupted, AstrayFails, WriteFails
<1>5. CASE WriteRaisesSigpipe(c) \/ EnvWalkCrashes(c) \/ ExitProcess(c)
           \/ ThreadExit(c)
  BY <1>5 DEF WriteRaisesSigpipe, EnvWalkCrashes, ExitProcess, ThreadExit
<1>6. CASE DropSocket(c) \/ PreExecve(c) \/ ExecveFails(c)
  BY <1>6 DEF DropSocket, PreExecve, ExecveFails
<1>7. CASE ExecveSucceeds(c)
  BY <1>7 DEF ExecveSucceeds
<1>8. ASSUME NEW e \in Children, Fork(c, e) PROVE Goal
  <2>1. e \in Client
    BY DEF Client
  <2> QED
    BY <1>8, <2>1 DEF Fork, Shape
<1>9. ASSUME NEW e \in Workers, Clone(c, e) PROVE Goal
  <2>1. e \in Client
    BY DEF Client
  <2> QED
    BY <1>9, <2>1 DEF Clone, Shape
<1>10. CASE ClientKillsGroup(c)
  BY <1>10 DEF ClientKillsGroup
<1> HIDE DEF Told
<1> QED
  BY <1>1, <1>2, <1>3, <1>4, <1>5, <1>6, <1>7, <1>8, <1>9, <1>10
  DEF ClientStep

\* When nobody is connected a return that may have been announced and is not
\* executed belongs to a client that stopped.
LEMMA UnansweredIsStuck ==
    ASSUME TypeOK, Shape, Counted, ~Connected, UnderWay > 0
    PROVE  \E c \in Client : StuckInReturn(c)
<1>1. /\ Cardinality(Announced) \in Nat /\ UnderWay \in Nat
      /\ UnderWay <= Cardinality(Announced)
  BY CountTypes DEF Counted
<1>2. PICK c \in Client : c \in Announced
  <2>1. Announced # {}
    BY <1>1, FS_EmptySet
  <2> QED
    BY <2>1 DEF Announced, InReturn
<1>3. goal[c] # NoAddr /\ status[c] # "astray" /\ status[c] \in Statuses
  BY <1>2 DEF Announced, InReturn, TypeOK
<1>4. status[c] # "waiting"
  BY DEF Connected, Live
<1> QED
  BY <1>3, <1>4 DEF Shape, Statuses, StuckInReturn

LEMMA ServerTells ==
    TypeOK /\ Shape /\ Counted /\ Told /\ ServerStep => Told'
<1> SUFFICES ASSUME TypeOK, Shape, Counted, Told, ServerStep PROVE Told'
  OBVIOUS
<1>0. /\ toServer \in Seq(Message) /\ Len(toClient) \in Nat
      /\ Cardinality(Returns(toServer)) \in Nat
      /\ IsFiniteSet(Owed) /\ Cardinality(Owed) \in Nat
      /\ toClient \in Seq(Client)
  BY CountTypes
<1>1. UNCHANGED <<status, proc, held, goal>>
  BY DEF ServerStep, CallHandler, AddWildcard, ClearStack, RetHandlerRefuses,
     RetHandlerContinues, ServerSeesEnd, ServerKillsGroup, historyVars
<1>2. \A c \in Client : /\ StuckInReturn(c)' <=> StuckInReturn(c)
                        /\ Live(c)' <=> Live(c)
  BY <1>1 DEF StuckInReturn, Live
<1>3. CASE CallHandler \/ AddWildcard \/ ClearStack \/ ServerKillsGroup
  <2>1. alarm' = alarm /\ (srv' = "serving" => srv = "serving")
    BY <1>3 DEF CallHandler, AddWildcard, ClearStack, ServerKillsGroup
  <2> QED
    BY <1>1, <1>2, <2>1 DEF Told
<1>4. CASE RetHandlerRefuses
  <2>1. srv' = "terminating" /\ alarm' \in {"empty", "mismatch"}
    BY <1>4 DEF RetHandlerRefuses, Raise
  <2> QED
    BY <2>1 DEF Told
<1>5. CASE RetHandlerContinues
  <2>1. CASE Connected
    <3>1. srv' = srv /\ alarm' = alarm
      BY <1>5, <2>1 DEF RetHandlerContinues
    <3> QED
      BY <1>1, <1>2, <3>1 DEF Told
  <2>2. CASE ~Connected
    <3>1. srv' = "terminating" /\ alarm' = "broken"
      BY <1>5, <2>2 DEF RetHandlerContinues, Raise
    <3>2. UnderWay > 0
      <4>1. toServer # <<>> /\ Head(toServer).type = "RET-"
        BY <1>5 DEF RetHandlerContinues, Receive
      <4>2. 1 \in Returns(toServer)
        BY <1>0, <4>1, TailFacts DEF Returns
      <4>3. Cardinality(Returns(toServer)) # 0
        BY <1>0, <4>2, ReturnsFinite, FS_EmptySet
      <4> QED
        BY <1>0, <4>3 DEF UnderWay
    <3>3. \E c \in Client : StuckInReturn(c)
      BY <2>2, <3>2, UnansweredIsStuck
    <3> QED
      BY <1>2, <3>1, <3>3 DEF Told
  <2> QED
    BY <2>1, <2>2
<1>6. CASE ServerSeesEnd
  <2>1. /\ srv = "serving" /\ toServer = <<>> /\ ~Connected
        /\ srv' = "terminating"
        /\ alarm' = IF toClient = <<>> THEN "exited" ELSE "broken"
    BY <1>6 DEF ServerSeesEnd, Raise
  <2>2. Returns(toServer) = {} /\ Cardinality({}) = 0
    BY <2>1, FS_EmptySet DEF Returns
  <2>3. UnderWay = Len(toClient)
    BY <1>0, <2>2 DEF UnderWay
  <2>4. CASE toClient = <<>>
    <3>1. Cardinality(Owed) = 0
      <4>1. Len(toClient) = 0
        BY <2>4
      <4> QED
        BY <1>0, <2>1, <2>3, <4>1 DEF Counted
    <3>2. Owed = {}
      BY <1>0, <3>1, FS_EmptySet
    <3>3. \A c \in Client : goal[c] # NoAddr => proc[c] \notin held
      BY <3>2 DEF Owed, InReturn
    <3>4. \A c \in Client : Live(c) => proc[c] \notin held
                                        /\ status[c] # "waiting"
      BY <2>1 DEF Connected
    <3> QED
      BY <1>1, <1>2, <2>1, <2>4, <3>3, <3>4 DEF Told
  <2>5. CASE toClient # <<>>
    <3>1. UnderWay > 0
      BY <1>0, <2>3, <2>5, EmptySeq
    <3>2. \E c \in Client : StuckInReturn(c)
      BY <2>1, <3>1, UnansweredIsStuck
    <3> QED
      BY <1>2, <2>1, <2>5, <3>2 DEF Told
  <2> QED
    BY <2>4, <2>5
<1> QED
  BY <1>3, <1>4, <1>5, <1>6 DEF ServerStep

LEMMA ToldStep ==
    TypeOK /\ Shape /\ Counted /\ Told /\ [Next]_vars => Told'
<1> SUFFICES ASSUME TypeOK, Shape, Counted, Told, [Next]_vars PROVE Told'
  OBVIOUS
<1>1. alarm = "broken" => \E c \in Client : StuckInReturn(c)'
  BY StuckStays DEF Told
<1>2. ASSUME NEW c \in Client, ClientStep(c) \/ Reap(c) PROVE Told'
  <2>1. UNCHANGED <<srv, alarm>>
    BY <1>2 DEF ClientStep, OnCall, OnRetSends, OnSignal, OnRetContinues,
       RecvFails, RecvInterrupted, AstrayContinues, AstrayFails, WriteFails,
       WriteRaisesSigpipe, DropSocket, PreExecve, EnvWalkCrashes, ExecveFails,
       ExecveSucceeds, Fork, Clone, ThreadExit, ExitProcess, ClientKillsGroup,
       Reap, serverVars
  <2>2. alarm = "exited" =>
            \A d \in Client :
               /\ Live(d)' => proc'[d] \notin held' /\ status'[d] # "waiting"
               /\ goal'[d] # NoAddr => proc'[d] \notin held'
    BY <1>2, ExitedStays
  <2> QED
    BY <1>1, <2>1, <2>2 DEF Told
<1>3. CASE ServerCrashes \/ ReapServer \/ UNCHANGED vars
  <2>1. /\ UNCHANGED <<status, proc, held, goal, alarm>>
        /\ srv' = "serving" => srv = "serving"
    BY <1>3 DEF ServerCrashes, ReapServer, vars, serverVars, historyVars
  <2> QED
    BY <2>1 DEF Told, Live, StuckInReturn
<1> QED
  BY <1>2, <1>3, ServerTells DEF Next

\* Whichever clients took each other's Continue, dropped the socket and died:
\* the server reports the end of the program only if no return was left
\* unexecuted by a process that had the socket, and a failed recv or write
\* only if a client stopped inside a return.
THEOREM EndCorrect == Spec => []EndIsTold
<1>1. Init => Told
  BY DEF Init, Told
<1>2. Told => EndIsTold
  BY DEF Told, EndIsTold, StuckInReturn
<1> QED
  BY <1>1, <1>2, InitShape, InitCounted, ShapeStep, CountedStep, ToldStep,
     TypeCorrect, PTL DEF Spec
=============================================================================
