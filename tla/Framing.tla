------------------------------ MODULE Framing -------------------------------
(***************************************************************************)
(* Messages as they are on the socket: a stream without boundaries.        *)
(* Every message is MESSAGE_SIZE long, a header of four characters and the *)
(* room of a pointer.  A client writes a header-only message straight from *)
(* the string literal of its header, so that its body is whatever the      *)
(* memory behind the literal holds; the server writes its Continue from a  *)
(* buffer filled with zeros.  The receiver knows where a message begins    *)
(* only by having read whole messages so far.                              *)
(*                                                                         *)
(* The stream is cut in cells of four characters.  One write of this size  *)
(* is one buffer of the kernel, which no other write is mixed with, and    *)
(* recv with MSG_WAITALL comes back short only when the other side has     *)
(* closed the socket (or after a signal: ExternalSS).                      *)
(***************************************************************************)
EXTENDS Integers, Sequences

CONSTANTS
    Client,         \* threads that share the client's end
    Addr,           \* pointers sent as bodies
    Memory,         \* what a cell behind a literal may hold: headers too,
                    \* as the literals lie next to each other
    PointerCells,   \* POINTER_SIZE in cells: 1 or 2
    MaxMessages     \* bound on the messages under way

ASSUME CellAssumption == PointerCells \in Nat \ {0} /\ MaxMessages \in Nat

WithBody == {"CALL", "RET-"}

HeaderOnly == {"NEWS", "EXEC"}

\* The headers call_correct_function knows.
Handled == {"CALL", "RET-", "NEWS", "EXEC"}

MESSAGE_SIZE == 1 + PointerCells

VARIABLES
    beyond,     \* beyond[h]: the cells behind the literal of h
    toServer,   \* the cells written by the clients
    toClient,   \* the cells written by the server
    status,     \* status[c]: what client c is doing
    srv,        \* what the server is doing
    last        \* the message the server handled last

vars == <<beyond, toServer, toClient, status, srv, last>>

Init ==
    /\ beyond \in [HeaderOnly -> [1 .. PointerCells -> Memory]]
    /\ toServer = <<>>
    /\ toClient = <<>>
    /\ status = [c \in Client |-> "running"]
    /\ srv = "serving"
    /\ last = <<>>

-----------------------------------------------------------------------------
(* Layout. *)

\* The cells of a pointer.
Body(a) == [i \in 1 .. PointerCells |-> <<a, i>>]

\* MessageType<false, Info>( ptr ), which send_msg writes with its size.
BodyMessage(h, a) == <<h>> \o Body(a)

\* Mutant of HeaderMessage: the size written is that of the header.
HeaderAlone(h) == <<h>>

\* write( sock, Msg::header, Msg::size ).
HeaderMessage(h) == <<h>> \o beyond[h]

\* What set_length leaves in MessageType<true, T>::message: the header and
\* zeros up to the size.
PaddedMessage(h) == <<h>> \o [i \in 1 .. PointerCells |-> "zero"]

-----------------------------------------------------------------------------
(* The clients. *)

\* Some client has its end open.
Connected == \E c \in Client : status[c] \in {"running", "waiting"}

MayWrite(c) ==
    /\ status[c] = "running"
    /\ srv = "serving"
    /\ Len(toServer) < MaxMessages * MESSAGE_SIZE

SendBody(c, h, a) ==
    /\ MayWrite(c)
    /\ toServer' = toServer \o BodyMessage(h, a)
    /\ status' = [status EXCEPT ![c] = IF h = "RET-" THEN "waiting" ELSE @]
    /\ UNCHANGED <<beyond, toClient, srv, last>>

SendHeader(c, h) ==
    /\ MayWrite(c)
    /\ toServer' = toServer \o HeaderMessage(h)
    /\ UNCHANGED <<beyond, toClient, status, srv, last>>

\* Message::is_a_valid<Message::Continue>, of the first characters.
IsContinue(cells) == cells[1] = "CONT"

\* recv_msg<Message::Continue> of a whole message: "Received incorrect
\* message!" if it is another.
RecvContinue(c) ==
    /\ status[c] = "waiting"
    /\ Len(toClient) >= MESSAGE_SIZE
    /\ toClient' = SubSeq(toClient, MESSAGE_SIZE + 1, Len(toClient))
    /\ status' = [status EXCEPT ![c] =
                     IF IsContinue(toClient) THEN "running" ELSE "confused"]
    /\ UNCHANGED <<beyond, toServer, srv, last>>

\* The server has closed its end and less than a message is left: "Did not
\* get full size message!", of no message at all or of part of one.
RecvShort(c) ==
    /\ status[c] = "waiting"
    /\ Len(toClient) < MESSAGE_SIZE
    /\ srv # "serving"
    /\ toClient' = <<>>
    /\ status' = [status EXCEPT ![c] =
                     IF toClient = <<>> THEN "failing" ELSE "confused"]
    /\ UNCHANGED <<beyond, toServer, srv, last>>

Exit(c) ==
    /\ status[c] \in {"running", "waiting"}
    /\ status' = [status EXCEPT ![c] = "ended"]
    /\ UNCHANGED <<beyond, toServer, toClient, srv, last>>

-----------------------------------------------------------------------------
(* The server. *)

\* The first message in the stream of cells s.
Header(s) == s[1]
Pointer(s) == SubSeq(s, 2, MESSAGE_SIZE)

\* What a handler is given: those of header-only messages ignore the body.
Decode(s) ==
    [type |-> Header(s),
     body |-> IF Header(s) \in WithBody THEN Pointer(s) ELSE <<>>]

\* The handlers, by what they write: ret_handler answers, "write() failed."
\* if nobody has the other end, or terminates.
Handles(h) ==
    \/ /\ h # "RET-"
       /\ UNCHANGED <<toClient, srv>>
    \/ /\ h = "RET-"
       /\ Connected
       /\ toClient' = toClient \o PaddedMessage("CONT")
       /\ UNCHANGED srv
    \/ /\ h = "RET-"
       /\ ~Connected
       /\ srv' = "broken"
       /\ UNCHANGED toClient
    \/ /\ h = "RET-"
       /\ srv' = "refused"
       /\ UNCHANGED toClient

\* Mutant of Dispatch: num_bytes is the size of a pointer.
DispatchPointer ==
    /\ srv = "serving"
    /\ Len(toServer) >= MESSAGE_SIZE
    /\ toServer' = SubSeq(toServer, MESSAGE_SIZE, Len(toServer))
    /\ IF Header(toServer) \in Handled
       THEN Handles(Header(toServer)) /\ last' = <<Decode(toServer)>>
       ELSE srv' = "confused" /\ UNCHANGED <<toClient, last>>
    /\ UNCHANGED <<beyond, status>>

\* One iteration of the loop: recv, and the handler the map has for the
\* header, or "Sever recieved wrong type of message!".
Dispatch ==
    /\ srv = "serving"
    /\ Len(toServer) >= MESSAGE_SIZE
    /\ toServer' = SubSeq(toServer, MESSAGE_SIZE + 1, Len(toServer))
    /\ IF Header(toServer) \in Handled
       THEN Handles(Header(toServer)) /\ last' = <<Decode(toServer)>>
       ELSE srv' = "confused" /\ UNCHANGED <<toClient, last>>
    /\ UNCHANGED <<beyond, status>>

\* All clients are gone and less than a message is left.  recv returns 0 at
\* the end of the stream and an error if the clients left a Continue unread;
\* it returns part of a message if that is all there is.  "recv() failed"
\* but in the first case.
ServerSeesEnd ==
    /\ srv = "serving"
    /\ Len(toServer) < MESSAGE_SIZE
    /\ ~Connected
    /\ srv' = CASE toServer # <<>> -> "confused"
                 [] toClient # <<>> -> "broken"
                 [] OTHER -> "ended"
    /\ UNCHANGED <<beyond, toServer, toClient, status, last>>

ClientStep(c) ==
    \/ \E h \in WithBody, a \in Addr : SendBody(c, h, a)
    \/ \E h \in HeaderOnly : SendHeader(c, h)
    \/ RecvContinue(c)
    \/ RecvShort(c)
    \/ Exit(c)

Next ==
    \/ \E c \in Client : ClientStep(c)
    \/ Dispatch
    \/ ServerSeesEnd

Spec == Init /\ [][Next]_vars

-----------------------------------------------------------------------------
(* Properties *)

\* Whatever the memory behind the headers holds, neither side ever takes a
\* body for a header or is left with part of a message: the assertions of
\* message.hpp:230 and external_stack_server.cpp:176 do not fail, and those
\* of message.hpp:228 and external_stack_server.cpp:105 and 158 fail only
\* because the other side is gone.
NeverConfused ==
    /\ srv # "confused"
    /\ srv = "broken" => ~Connected
    /\ \A c \in Client :
          /\ status[c] # "confused"
          /\ status[c] = "failing" => srv # "serving"

Messages ==
    [type : WithBody, body : {Body(a) : a \in Addr}]
        \union [type : HeaderOnly, body : {<<>>}]

Under(s) == Len(s) \div MESSAGE_SIZE

\* The messages in a stream of cells, if it begins with the first of one.
Decoded(s) ==
    [i \in 1 .. Under(s) |->
        Decode(SubSeq(s, (i - 1) * MESSAGE_SIZE + 1, i * MESSAGE_SIZE))]

Queue == INSTANCE MessageQueue
            WITH Message <- Messages, up <- Decoded(toServer),
                 down <- Under(toClient), last <- last

\* The stream is a queue of whole messages: the server handles what the
\* clients sent, in order, with the pointers they sent, and a client reads
\* one Continue at a time.
IsQueue == Queue!Spec
=============================================================================
