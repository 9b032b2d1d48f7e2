------------------------------ MODULE Connection ------------------------------
(***************************************************************************)
(* One TCP connection of p2d.hpp: the two Connection objects at its ends   *)
(* (p2d.hpp:285-536), each driven by the single thread that runs its       *)
(* io_context, and the threads that call send() and disconnect() on them.  *)
(*                                                                         *)
(* io[e] is what asio keeps for end e: the open flag of m_socket, the      *)
(* outstanding reads and writes (each served in the order they were        *)
(* started, a pending connect first), and the queue of handlers that are   *)
(* ready to run.  Every handler is one action: the io thread runs them one *)
(* at a time.  The bytes in flight are the units the program reads and     *)
(* writes: a handshake word and a header are 8 bytes both, so that one can *)
(* be read as the other.                                                   *)
(***************************************************************************)
EXTENDS Integers, Sequences, FiniteSets


CONSTANTS MessagesOf, \* end -> the messages its application sends
          MaxSends,   \* bound of the model: end -> number of send() calls
          MaxBreaks   \* bound of the model: number of disconnect() calls, of
                      \* stop() calls of the server and of failures of the network

Ends == {"client", "server"}

Peer(e) == IF e = "client" THEN "server" ELSE "client"

Messages == UNION {MessagesOf[e] : e \in Ends}

HeaderSize == 8       \* sizeof(MessageHeader<T>), T an enum of 32 bits
Byte       == 0 .. 255

\* header.size is 0 until operator<< or >> sets it to the size of the whole.
ASSUME MessagesAssumption ==
    /\ \A m \in Messages : /\ m = [id |-> m.id, size |-> m.size, body |-> m.body]
                           /\ m.body \in Seq(Byte)
                           /\ m.size \in {0, HeaderSize + Len(m.body)}
                           /\ (m.size = 0) => (m.body = << >>)
    /\ MaxSends \in [Ends -> Nat]
    /\ MaxBreaks \in Nat

VARIABLES io,          \* end -> socket and io_context, see above
          link,        \* TCP: "syn", "up", "refused" or "reset"
          wire,        \* end -> the units on their way to it, oldest first
          qOut,        \* end -> m_qMessagesOut
          handshakeIn, \* end -> m_handshakeIn
          tmpIn,       \* end -> m_msgTemporaryIn
          qIn,         \* end -> all that was pushed to m_qMessagesIn
          validated,   \* the server called onClientValidated
          sent,        \* history: end -> the messages send() was called with
          opening,     \* history: the first unit the client put on the wire
          breaks       \* history: how many of these there were so far

vars == <<io, link, wire, qOut, handshakeIn, tmpIn, qIn, validated, sent, opening, breaks>>

-----------------------------------------------------------------------------
(* The handshake and the units on the wire *)

\* m_handshakeOut of the server is one fixed word, and scramble() sends it to
\* another; what else scramble() is given does not pass for an answer.
Challenge   == "challenge"
scramble(w) == IF w = Challenge THEN "answer" ELSE "noise"

Handshake(w) == [unit |-> "handshake", word |-> w]
Header(m)    == [unit |-> "header", id |-> m.id, size |-> m.size]
Body(m)      == [unit |-> "body", body |-> m.body]
NoUnit       == [unit |-> "none"]

-----------------------------------------------------------------------------
(* asio.  An operation started on a closed socket completes with an error;   *)
(* one that is outstanding when the socket is closed is aborted.             *)

Done(h, success) == [handler |-> h, ok |-> success]

post(r, h) == [r EXCEPT !.ready = Append(@, h)]

async_read(r, op) ==
    IF r.socket = "open"
    THEN [r EXCEPT !.reading = Append(@, op)]
    ELSE post(r, Done(op, FALSE))

async_write(r, op, u) ==
    IF r.socket = "open"
    THEN [r EXCEPT !.writing = Append(@, [op |-> op, unit |-> u])]
    ELSE post(r, Done(op, FALSE))

\* (A faulty variant, as those below: what is outstanding is left to complete)
close_NoAbort(r) == [r EXCEPT !.socket = "closed"]

\* m_socket.close()
close(r) ==
    LET reads  == [i \in DOMAIN r.reading |-> Done(r.reading[i], FALSE)]
        writes == [i \in DOMAIN r.writing |-> Done(r.writing[i].op, FALSE)]
    IN  [r EXCEPT !.socket = "closed", !.reading = << >>, !.writing = << >>,
                  !.ready = @ \o reads \o writes]

isConnected(e) == io[e].socket = "open"

\* run() returns when no operation is outstanding and no handler is ready.  The
\* server's never does: its acceptor always waits for the next client.
KeepRunning(e, r) ==
    [r EXCEPT !.running = \/ e = "server"
                          \/ r.ready # << >> \/ r.reading # << >> \/ r.writing # << >>]

-----------------------------------------------------------------------------
(* The client has called connectToServer, the server has not accepted yet. *)
Init ==
    /\ io = [e \in Ends |->
                [socket |-> IF e = "client" THEN "open" ELSE "none",
                 reading |-> << >>,
                 writing |-> IF e = "client"
                             THEN <<[op |-> "connect", unit |-> NoUnit]>> ELSE << >>,
                 ready |-> << >>, running |-> TRUE]]
    /\ link = "syn"
    /\ wire = [e \in Ends |-> << >>]
    /\ qOut = [e \in Ends |-> << >>]
    /\ handshakeIn = [e \in Ends |-> NoUnit]
    /\ tmpIn = [e \in Ends |-> [header |-> NoUnit, body |-> << >>]]
    /\ qIn = [e \in Ends |-> << >>]
    /\ validated = FALSE
    /\ sent = [e \in Ends |-> << >>]
    /\ opening = NoUnit
    /\ breaks = 0

-----------------------------------------------------------------------------
(* The application's threads *)

\* Anyone may call client_interface::sendMessage as soon as connect() has made
\* the Connection; the server sends to clients that isConnected() (672-719).
send(e, m) ==
    /\ Len(sent[e]) < MaxSends[e]
    /\ e = "server" => isConnected(e)
    /\ io' = [io EXCEPT ![e] = post(@, [handler |-> "send", msg |-> m])]
    /\ sent' = [sent EXCEPT ![e] = Append(@, m)]
    /\ UNCHANGED <<link, wire, qOut, handshakeIn, tmpIn, qIn, validated, opening, breaks>>

\* Bound of the model: one close is posted at a time.
disconnect(e) ==
    /\ isConnected(e)
    /\ breaks < MaxBreaks /\ breaks' = breaks + 1
    /\ \A i \in DOMAIN io[e].ready : io[e].ready[i].handler # "close"
    /\ io' = [io EXCEPT ![e] = post(@, [handler |-> "close"])]
    /\ UNCHANGED <<link, wire, qOut, handshakeIn, tmpIn, qIn, validated, sent, opening>>

\* m_context.stop(): no handler of e runs any more, nothing of it completes, and
\* its socket stays as it is.  client_interface::disconnect() calls it right after
\* it has posted the close, if isConnected() told it to; server_interface::stop()
\* posts nothing.
stop(e) ==
    /\ io[e].running
    /\ \/ /\ e = "client" /\ UNCHANGED breaks
          /\ isConnected(e) =>
                \E i \in DOMAIN io[e].ready : io[e].ready[i].handler = "close"
       \/ e = "server" /\ breaks < MaxBreaks /\ breaks' = breaks + 1
    /\ io' = [io EXCEPT ![e].running = FALSE]
    /\ UNCHANGED <<link, wire, qOut, handshakeIn, tmpIn, qIn, validated, sent, opening>>

-----------------------------------------------------------------------------
(* The handlers, run by the io thread of their end.  A handler that is due at *)
(* end e is at the head of its queue; rest(e) is io[e] without it.            *)

Due(e, h) == io[e].running /\ io[e].ready # << >> /\ Head(io[e].ready).handler = h

ok(e)   == Head(io[e].ready).ok
rest(e) == [io[e] EXCEPT !.ready = Tail(@)]

Continue(e, r) == io' = [io EXCEPT ![e] = KeepRunning(e, r)]

-----------------------------------------------------------------------------
(* Faulty variants.  No specification uses them: each takes the place of the  *)
(* definition it is named after, to see that a property notices.              *)

\* every send starts a write, whether or not one is under way
RunSend_Always(e) ==
    /\ Due(e, "send")
    /\ LET m == Head(io[e].ready).msg
       IN  /\ qOut' = [qOut EXCEPT ![e] = Append(@, m)]
           /\ Continue(e, async_write(rest(e), "writeHeader", Header(m)))
    /\ UNCHANGED <<link, wire, handshakeIn, tmpIn, qIn, validated, sent, opening, breaks>>

\* the queue is asked whether it is empty after the push, not before
RunSend_PushedFirst(e) ==
    /\ Due(e, "send")
    /\ qOut' = [qOut EXCEPT ![e] = Append(@, Head(io[e].ready).msg)]
    /\ Continue(e, rest(e))
    /\ UNCHANGED <<link, wire, handshakeIn, tmpIn, qIn, validated, sent, opening, breaks>>

\* the client waits for no challenge
Connected_NoRead(e) ==
    /\ Due(e, "connect") /\ Continue(e, rest(e))
    /\ UNCHANGED <<link, wire, qOut, handshakeIn, tmpIn, qIn, validated, sent, opening, breaks>>

\* the server takes any answer
ValidationRead_AnyAnswer(e) ==
    /\ Due(e, "readValidation")
    /\ \/ /\ ok(e) /\ e = "server"
          /\ validated' = TRUE
          /\ Continue(e, async_read(rest(e), "readHeader"))
       \/ /\ ok(e) /\ e = "client"
          /\ Continue(e, async_write(rest(e), "writeValidation",
                                     Handshake(scramble(handshakeIn[e].word))))
          /\ UNCHANGED validated
       \/ /\ ~ok(e)
          /\ Continue(e, close(rest(e)))
          /\ UNCHANGED validated
    /\ UNCHANGED <<link, wire, qOut, handshakeIn, tmpIn, qIn, sent, opening, breaks>>

\* the server, too, reads headers once its handshake is out
ValidationWritten_BothRead(e) ==
    /\ Due(e, "writeValidation")
    /\ Continue(e, IF ok(e) THEN async_read(rest(e), "readHeader") ELSE close(rest(e)))
    /\ UNCHANGED <<link, wire, qOut, handshakeIn, tmpIn, qIn, validated, sent, opening, breaks>>

\* the body keeps its bytes when it should become shorter
resize_OnlyGrows(b, n) == b

\* a header that announces no body is followed by one all the same
HeaderRead_AlwaysBody(e) ==
    /\ Due(e, "readHeader")
    /\ Continue(e, IF ok(e) THEN async_read(rest(e), "readBody") ELSE close(rest(e)))
    /\ UNCHANGED <<link, wire, qOut, handshakeIn, tmpIn, qIn, validated, sent, opening, breaks>>

\* an error is only reported
Failed_Ignored(e) == Continue(e, rest(e))

\* the body is left out
HeaderWritten_NoBody(e) ==
    /\ Due(e, "writeHeader")
    /\ \/ /\ ok(e)
          /\ qOut' = [qOut EXCEPT ![e] = Tail(@)]
          /\ Continue(e, IF Len(qOut[e]) > 1
                         THEN async_write(rest(e), "writeHeader", Header(qOut[e][2]))
                         ELSE rest(e))
       \/ ~ok(e) /\ Continue(e, close(rest(e))) /\ UNCHANGED qOut
    /\ UNCHANGED <<link, wire, handshakeIn, tmpIn, qIn, validated, sent, opening, breaks>>

-----------------------------------------------------------------------------
(* The handlers *)

\* m_socket.close(), all that any of them does about an error
Failed(e) == Continue(e, close(rest(e)))

\* if(!writingMessage) writeHeader()
RunSend(e) ==
    /\ Due(e, "send")
    /\ LET m == Head(io[e].ready).msg
       IN  /\ qOut' = [qOut EXCEPT ![e] = Append(@, m)]
           /\ Continue(e, IF qOut[e] = << >> THEN async_write(rest(e), "writeHeader", Header(m))
                                             ELSE rest(e))
    /\ UNCHANGED <<link, wire, handshakeIn, tmpIn, qIn, validated, sent, opening, breaks>>

RunClose(e) ==
    /\ Due(e, "close")
    /\ Continue(e, close(rest(e)))
    /\ UNCHANGED <<link, wire, qOut, handshakeIn, tmpIn, qIn, validated, sent, opening, breaks>>

\* async_connect's handler: nothing is done about an error
Connected(e) ==
    /\ Due(e, "connect")
    /\ Continue(e, IF ok(e) THEN async_read(rest(e), "readValidation") ELSE rest(e))
    /\ UNCHANGED <<link, wire, qOut, handshakeIn, tmpIn, qIn, validated, sent, opening, breaks>>

\* The server compares, the client answers.
ValidationRead(e) ==
    LET matches == handshakeIn[e] = Handshake(scramble(Challenge))
    IN  /\ Due(e, "readValidation")
        /\ \/ /\ ok(e) /\ e = "server" /\ matches
              /\ validated' = TRUE
              /\ Continue(e, async_read(rest(e), "readHeader"))
           \/ /\ ok(e) /\ e = "client"
              /\ Continue(e, async_write(rest(e), "writeValidation",
                                         Handshake(scramble(handshakeIn[e].word))))
              /\ UNCHANGED validated
           \/ /\ ~ok(e) \/ (e = "server" /\ ~matches)
              /\ Failed(e)
              /\ UNCHANGED validated
        /\ UNCHANGED <<link, wire, qOut, handshakeIn, tmpIn, qIn, sent, opening, breaks>>

ValidationWritten(e) ==
    /\ Due(e, "writeValidation")
    /\ \/ /\ ok(e)
          /\ Continue(e, IF e = "client" THEN async_read(rest(e), "readHeader") ELSE rest(e))
       \/ ~ok(e) /\ Failed(e)
    /\ UNCHANGED <<link, wire, qOut, handshakeIn, tmpIn, qIn, validated, sent, opening, breaks>>

\* addToIncomingMessageQueue, whose last call is readHeader
addToIncoming(e) ==
    /\ qIn' = [qIn EXCEPT ![e] = Append(@, [id   |-> tmpIn[e].header.id,
                                            size |-> tmpIn[e].header.size,
                                            body |-> tmpIn[e].body])]
    /\ Continue(e, async_read(rest(e), "readHeader"))

\* body.resize(n); the new bytes are overwritten before anyone looks at them
resize(b, n) == IF n <= Len(b) THEN SubSeq(b, 1, n) ELSE b

\* Reading into a body of no bytes completes at once, on any socket.
HeaderRead(e) ==
    LET n == tmpIn[e].header.size - HeaderSize
    IN  /\ Due(e, "readHeader")
        /\ \/ /\ ok(e) /\ tmpIn[e].header.size > 0
              /\ tmpIn' = [tmpIn EXCEPT ![e].body = resize(@, n)]
              /\ Continue(e, IF n = 0 THEN post(rest(e), Done("readBody", TRUE))
                                      ELSE async_read(rest(e), "readBody"))
              /\ UNCHANGED qIn
           \/ /\ ok(e) /\ tmpIn[e].header.size = 0
              /\ addToIncoming(e)
              /\ UNCHANGED tmpIn
           \/ /\ ~ok(e)
              /\ Failed(e)
              /\ UNCHANGED <<qIn, tmpIn>>
        /\ UNCHANGED <<link, wire, qOut, handshakeIn, validated, sent, opening, breaks>>

BodyRead(e) ==
    /\ Due(e, "readBody")
    /\ \/ ok(e) /\ addToIncoming(e)
       \/ ~ok(e) /\ Failed(e) /\ UNCHANGED qIn
    /\ UNCHANGED <<link, wire, qOut, handshakeIn, tmpIn, validated, sent, opening, breaks>>

\* m_qMessagesOut.pop_front(); if(!m_qMessagesOut.empty()) writeHeader();
NextMessage(e) ==
    /\ qOut' = [qOut EXCEPT ![e] = Tail(@)]
    /\ Continue(e, IF Len(qOut[e]) > 1
                   THEN async_write(rest(e), "writeHeader", Header(qOut[e][2]))
                   ELSE rest(e))

HeaderWritten(e) ==
    /\ Due(e, "writeHeader")
    /\ \/ /\ ok(e) /\ Head(qOut[e]).body # << >>
          /\ Continue(e, async_write(rest(e), "writeBody", Body(Head(qOut[e]))))
          /\ UNCHANGED qOut
       \/ ok(e) /\ Head(qOut[e]).body = << >> /\ NextMessage(e)
       \/ ~ok(e) /\ Failed(e) /\ UNCHANGED qOut
    /\ UNCHANGED <<link, wire, handshakeIn, tmpIn, qIn, validated, sent, opening, breaks>>

BodyWritten(e) ==
    /\ Due(e, "writeBody")
    /\ \/ ok(e) /\ NextMessage(e)
       \/ ~ok(e) /\ Failed(e) /\ UNCHANGED qOut
    /\ UNCHANGED <<link, wire, handshakeIn, tmpIn, qIn, validated, sent, opening, breaks>>

Run(e) == \/ RunSend(e) \/ RunClose(e) \/ Connected(e)
          \/ ValidationRead(e) \/ ValidationWritten(e)
          \/ HeaderRead(e) \/ BodyRead(e) \/ HeaderWritten(e) \/ BodyWritten(e)

-----------------------------------------------------------------------------
(* TCP and the reactor, which is part of run() *)

CompleteWrite(e, success) ==
    io' = [io EXCEPT ![e] = post([io[e] EXCEPT !.writing = Tail(@)],
                                 Done(Head(io[e].writing).op, success))]

Connecting == io["client"].writing # << >> /\ Head(io["client"].writing).op = "connect"

\* A refused connect leaves the socket open (asio/impl/connect.hpp:366-421).
Connect ==
    /\ link = "syn" /\ Connecting /\ io["client"].running
    /\ \/ link' = "up" /\ CompleteWrite("client", TRUE)
       \/ link' = "refused" /\ CompleteWrite("client", FALSE)
    /\ UNCHANGED <<wire, qOut, handshakeIn, tmpIn, qIn, validated, sent, opening, breaks>>

\* The accept handler: a Connection whose onClientConnect says no is dropped,
\* and its socket with it; the other starts the handshake (connectToClient).
Accept ==
    /\ link = "up" /\ io["server"].socket = "none" /\ io["server"].running
    /\ LET opened == [io["server"] EXCEPT !.socket = "open"]
       IN  \/ io' = [io EXCEPT !["server"] =
                        async_read(async_write(opened, "writeValidation", Handshake(Challenge)),
                                   "readValidation")]
           \/ io' = [io EXCEPT !["server"] = close(opened)]
    /\ UNCHANGED <<link, wire, qOut, handshakeIn, tmpIn, qIn, validated, sent, opening, breaks>>

\* The oldest write of e reaches the wire, vanishes because the peer has closed,
\* or fails because the connection is gone.
Transmit(e) ==
    /\ io[e].running /\ io[e].writing # << >> /\ Head(io[e].writing).op # "connect"
    /\ LET w == Head(io[e].writing)
       IN  \/ /\ link = "up" /\ io[Peer(e)].socket # "closed"
              /\ wire' = [wire EXCEPT ![Peer(e)] = Append(@, w.unit)]
              /\ opening' = IF e = "client" /\ opening = NoUnit THEN w.unit ELSE opening
              /\ CompleteWrite(e, TRUE)
           \/ /\ link = "up" /\ io[Peer(e)].socket = "closed"
              /\ CompleteWrite(e, TRUE) /\ UNCHANGED <<wire, opening>>
           \/ /\ link # "up" \/ io[Peer(e)].socket = "closed"
              /\ CompleteWrite(e, FALSE) /\ UNCHANGED <<wire, opening>>
    /\ UNCHANGED <<link, qOut, handshakeIn, tmpIn, qIn, validated, sent, breaks>>

CompleteRead(e, success) ==
    io' = [io EXCEPT ![e] = post([io[e] EXCEPT !.reading = Tail(@)],
                                 Done(Head(io[e].reading), success))]

\* The bytes of a unit, when they land in the body of a message.
Bytes(u) == IF u.unit = "body" THEN u.body ELSE [i \in 1 .. HeaderSize |-> 0]

\* The outstanding read takes the next unit, whatever it is, into its buffer.
Receive(e) ==
    /\ io[e].running /\ io[e].reading # << >> /\ wire[e] # << >>
    /\ wire' = [wire EXCEPT ![e] = Tail(@)]
    /\ LET u == Head(wire[e])
       IN  \/ /\ Head(io[e].reading) = "readValidation"
              /\ handshakeIn' = [handshakeIn EXCEPT ![e] = u] /\ UNCHANGED tmpIn
           \/ /\ Head(io[e].reading) = "readHeader"
              /\ tmpIn' = [tmpIn EXCEPT ![e].header = u] /\ UNCHANGED handshakeIn
           \/ /\ Head(io[e].reading) = "readBody"
              /\ tmpIn' = [tmpIn EXCEPT ![e].body = Bytes(u)] /\ UNCHANGED handshakeIn
    /\ CompleteRead(e, TRUE)
    /\ UNCHANGED <<link, qOut, qIn, validated, sent, opening, breaks>>

\* End of stream, or the connection was reset
ReceiveFails(e) ==
    /\ io[e].running /\ io[e].reading # << >> /\ wire[e] = << >>
    /\ link = "reset" \/ io[Peer(e)].socket = "closed"
    /\ CompleteRead(e, FALSE)
    /\ UNCHANGED <<link, wire, qOut, handshakeIn, tmpIn, qIn, validated, sent, opening, breaks>>

\* The connection breaks at any time; what was in flight is lost from some
\* point on.
Reset ==
    /\ link = "up" /\ link' = "reset"
    /\ breaks < MaxBreaks /\ breaks' = breaks + 1
    /\ \E c \in 0 .. Len(wire["client"]), s \in 0 .. Len(wire["server"]) :
          wire' = [e \in Ends |-> SubSeq(wire[e], 1, IF e = "client" THEN c ELSE s)]
    /\ UNCHANGED <<io, qOut, handshakeIn, tmpIn, qIn, validated, sent, opening>>

Network == \/ Connect \/ Accept
           \/ \E e \in Ends : Transmit(e) \/ Receive(e) \/ ReceiveFails(e)

-----------------------------------------------------------------------------
Next == \/ \E e \in Ends : \/ Run(e) \/ disconnect(e) \/ stop(e)
                            \/ \E m \in MessagesOf[e] : send(e, m)
        \/ Network \/ Reset

Spec == Init /\ [][Next]_vars

\* The io threads run what is ready, until their context is stopped, and the
\* network works or fails, but does not stall; nobody has to send, to disconnect,
\* to stop or to reset.
Fairness ==
    /\ WF_vars(Connect) /\ WF_vars(Accept)
    /\ \A e \in Ends : /\ WF_vars(Run(e)) /\ WF_vars(Transmit(e))
                       /\ WF_vars(Receive(e)) /\ WF_vars(ReceiveFails(e))

FairSpec == Spec /\ Fairness
-----------------------------------------------------------------------------
(* Properties *)

ReadOps  == {"readValidation", "readHeader", "readBody"}
DataOps  == {"writeHeader", "writeBody"}
WriteOps == {"writeValidation"} \cup DataOps

Handlers == [handler : {"send"}, msg : Messages] \cup [handler : {"close"}]
                \cup [handler : {"connect"} \cup ReadOps \cup WriteOps, ok : BOOLEAN]

Headers == {Header(m) : m \in Messages}
Bodies  == {Body(m) : m \in Messages}
Words   == {Handshake(w) : w \in {Challenge, scramble(Challenge)}}
Units   == Words \cup Headers \cup Bodies
Writes  == [op : WriteOps, unit : Units] \cup [op : {"connect"}, unit : {NoUnit}]

TypeOK ==
    /\ io \in [Ends -> [socket : {"none", "open", "closed"}, reading : Seq(ReadOps),
                        writing : Seq(Writes), ready : Seq(Handlers), running : BOOLEAN]]
    /\ link \in {"syn", "up", "refused", "reset"}
    /\ wire \in [Ends -> Seq(Units)]
    /\ qOut \in [Ends -> Seq(Messages)]
    /\ handshakeIn \in [Ends -> Words \cup Headers \cup {NoUnit}]
    /\ tmpIn \in [Ends -> [header : Headers \cup {NoUnit}, body : Seq(Byte)]]
    /\ qIn \in [Ends -> Seq([id   : {m.id : m \in Messages},
                             size : {m.size : m \in Messages},
                             body : Seq(Byte)])]
    /\ validated \in BOOLEAN /\ breaks \in 0 .. MaxBreaks
    /\ sent \in [Ends -> Seq(Messages)]
    /\ opening \in Words \cup Headers \cup {NoUnit}

\* The operations of a set that end e has outstanding, and the handlers of such
\* operations that wait to run.
Reading(e, ops)  == {i \in DOMAIN io[e].reading : io[e].reading[i] \in ops}
Writing(e, ops)  == {i \in DOMAIN io[e].writing : io[e].writing[i].op \in ops}
Ready(e, ops)    == {i \in DOMAIN io[e].ready : io[e].ready[i].handler \in ops}
Pending(e, ops)  == Cardinality(Reading(e, ops)) + Cardinality(Writing(e, ops))
                        + Cardinality(Ready(e, ops))

\* What keeps an end reading: one operation after the other, each started by the
\* handler of the one before.  The client's begins with its connect and passes
\* through its answer to the challenge.
ReadChain(e) == ReadOps \cup IF e = "client" THEN {"connect", "writeValidation"} ELSE {}

\* The reads of an end follow one another: never two at once (both would write
\* into m_msgTemporaryIn), and never none, which would leave an open connection
\* deaf, except at a client whose connect has failed.
OneReader ==
    \A e \in Ends :
        /\ Pending(e, ReadChain(e)) <= 1
        /\ (isConnected(e) /\ link # "refused") => Pending(e, ReadChain(e)) = 1

\* The messages of an end are written one after the other, through one header
\* and at most one body each: never two at once, and never none while
\* m_qMessagesOut holds a message of an open connection, which would leave it
\* there for good.
OneWriter ==
    \A e \in Ends :
        /\ Pending(e, DataOps) <= IF qOut[e] = << >> THEN 0 ELSE 1
        /\ (isConnected(e) /\ qOut[e] # << >>) => Pending(e, DataOps) = 1

\* One of each at a time, as asio asks for, and what they carry is of its kind.
OneOfEach == TypeOK /\ OneReader /\ OneWriter

\* A read gets what it asks for, even though the two ends agree on nothing but
\* the order of their bytes: readHeader meets a header, readBody the body that
\* the header announced.  The exception is a client that sends before it has
\* answered the challenge: the server takes the header of its message for the
\* answer, and never lets it in.
FramingInSync ==
    /\ \A e \in Ends :
        (io[e].reading # << >> /\ wire[e] # << >>) =>
            \/ /\ Head(io[e].reading) = "readValidation"
               /\ Head(wire[e]).unit = "handshake" \/ e = "server"
            \/ Head(io[e].reading) = "readHeader" /\ Head(wire[e]).unit = "header"
            \/ /\ Head(io[e].reading) = "readBody" /\ Head(wire[e]).unit = "body"
               /\ Len(Head(wire[e]).body) = tmpIn[e].header.size - HeaderSize
    /\ opening \in Headers => ~validated

\* What the receiver makes of the messages s.  m_msgTemporaryIn is one object and
\* a message that was never filled (header.size is 0) does not touch its body:
\* it arrives with the body of the message before.
Delivered(s) ==
    LET body[i \in 0 .. Len(s)] == IF i = 0 THEN << >>
                                   ELSE IF s[i].size = 0 THEN body[i - 1] ELSE s[i].body
    IN  [i \in DOMAIN s |-> [id |-> s[i].id, size |-> s[i].size, body |-> body[i]]]

\* To the programs at its ends a connection is two queues of messages: they arrive
\* in the order of the send() calls, none twice, none skipped, none torn, whatever
\* was lost when the connection broke.  See Channel.tla.  An end whose socket is
\* closed may still have one message coming, when the handler of a read is ready.
C == INSTANCE Channel WITH
        Arrived <- Delivered,
        pushed <- [e \in Ends |-> sent[Peer(e)]],
        got <- qIn,
        state <- [e \in Ends |->
                    IF io[e].socket # "closed" THEN "open"
                    ELSE IF \E i \in Ready(e, {"readHeader", "readBody"}) : io[e].ready[i].ok
                         THEN "closing" ELSE "closed"],
        admitted <- validated

ImplementsChannel == C!Spec

\* The io_context of e was stopped in the middle of its work, and did not just run
\* out of it.
Stopped(e) == ~io[e].running /\ (e = "server" \/ Pending(e, ReadChain(e)) # 0)

\* It was before the handler that closes the socket ran: release() leaks the
\* Connection, and the socket stays open for ever.
Leaked(e) == isConnected(e) /\ Stopped(e)

\* The messages of e that were written whole and taken out of m_qMessagesOut
Written(e) == Len(sent[e]) - Cardinality(Ready(e, {"send"})) - Len(qOut[e])

\* The server comes to a verdict on every client it has accepted, unless it is
\* stopped itself, or the client was before a word of it was on its way: the
\* server then waits for an answer on a socket that nobody will ever close.
HandshakeResolves ==
    isConnected("server") ~> \/ validated \/ ~isConnected("server")
                             \/ Leaked("server") \/ (Leaked("client") /\ opening = NoUnit)

\* A connection does not stay open at one end only, unless that end was stopped
\* while it was connected.
PeerCloseNoticed ==
    \A e \in Ends : (io[e].socket = "closed" /\ isConnected(Peer(e)))
                        ~> (~isConnected(Peer(e)) \/ Leaked(Peer(e)))

\* A message sent is received, unless an end closes or the server is not there, or
\* the receiver was stopped, or the sender before it had written the message or
\* could notice that the connection broke.
Arrives(e, n) ==
    Len(sent[e]) >= n ~> \/ Len(qIn[Peer(e)]) >= n \/ link = "refused"
                         \/ \E d \in Ends : io[d].socket = "closed"
                         \/ Stopped(Peer(e))
                         \/ Leaked(e) /\ (Written(e) < n \/ link = "reset")
EventuallyDelivered == \A e \in Ends : \A n \in 1 .. MaxSends[e] : Arrives(e, n)

-----------------------------------------------------------------------------
(* What the documentation and the examples say, and the code does not do *)

\* asio asks the program to have one async_write on a socket at a time
\* (include/asio/write.hpp:727).  The handshake and the messages do not know of
\* each other.
OneWriteAtATime == \A e \in Ends : Cardinality(Writing(e, WriteOps)) <= 1

\* exampleClient.cpp:56-60 reports "Server Down" when isConnected() is false.
\* A client that is refused never gets there: async_connect leaves the socket
\* open, and its handler does nothing.
ServerDownSeen == (link = "refused") ~> ~isConnected("client")
=============================================================================
