-------------------------------- MODULE Client --------------------------------
(***************************************************************************)
(* client_interface (p2d.hpp:538-604): one io_context, the thread that     *)
(* runs it, and the Connection the program talks through, over any         *)
(* sequence of connect(), sendMessage() and disconnect() calls.            *)
(*                                                                         *)
(* Connections are numbered as they are made.  Of each one its socket and  *)
(* its chain of operations is kept (Connection.tla has the rest): connect, *)
(* then reads.  After undefined behaviour, or std::terminate, nothing      *)
(* follows; fault says which it was.                                       *)
(***************************************************************************)
EXTENDS Naturals, Sequences

CONSTANTS MaxConnects,  \* bound of the model: calls of connect()
          MaxPosted     \* bound of the model: handlers posted and not yet run

ASSUME BoundsAssumption == MaxConnects \in Nat /\ MaxPosted \in Nat

Connections == 1 .. MaxConnects
NoConnection == 0

VARIABLES made,        \* the number of Connections made
          connection,  \* m_connection, NoConnection when it is null
          socket,      \* Connection -> "none", "open", "closed"
          chain,       \* Connection -> its outstanding operation
          freed,       \* the Connections that were deleted
          posted,      \* the handlers posted to m_context, oldest first
          stopped,     \* m_context.stopped()
          thread,      \* thrContext: "none", "running", or "ended", not joined
          main,        \* what the calling thread is in the middle of
          fault        \* what ended the program, or "none"

vars == <<made, connection, socket, chain, freed, posted, stopped, thread, main, fault>>

Ops    == {"connect", "read"}
NoOp   == [op |-> "none", state |-> "none"]
Op(op, state) == [op |-> op, state |-> state]

Init ==
    /\ made = 0 /\ connection = NoConnection
    /\ socket = [k \in Connections |-> "none"]
    /\ chain = [k \in Connections |-> NoOp]
    /\ freed = {}
    /\ posted = << >>
    /\ stopped = FALSE
    /\ thread = "none" /\ main = "idle"
    /\ fault = "none"

isConnected == connection # NoConnection /\ socket[connection] = "open"

-----------------------------------------------------------------------------
(* Faulty variants.  No specification uses them: each takes the place of the  *)
(* definition it is named after, to see that a property notices.              *)

\* the thread is not joined
Join_Skipped ==
    /\ main = "join" /\ fault = "none"
    /\ main' = "release"
    /\ UNCHANGED <<made, connection, socket, chain, freed, posted, stopped, thread, fault>>

\* m_connection.reset() instead of release()
Release_Deletes ==
    /\ main = "release" /\ fault = "none"
    /\ main' = "idle"
    /\ connection' = NoConnection
    /\ freed' = freed \cup ({connection} \ {NoConnection})
    /\ UNCHANGED <<made, socket, chain, posted, stopped, thread, fault>>

\* the context is not stopped
StopContext_Not ==
    /\ main = "stop" /\ fault = "none"
    /\ main' = "join"
    /\ UNCHANGED <<made, connection, socket, chain, freed, posted, stopped, thread, fault>>

-----------------------------------------------------------------------------
(* The calling thread *)

\* An operation that is aborted leaves a handler that is ready to run.
Aborted(c) == IF c.state = "waiting" THEN [c EXCEPT !.state = "failed"] ELSE c

\* connect(): m_connection = make_unique(...), which deletes the Connection that
\* m_connection held, while the io thread goes on.  (When resolve() throws, nothing
\* has changed yet.  That no thread can be made is left out.)
Connect ==
    /\ main = "idle" /\ fault = "none" /\ made < MaxConnects
    /\ LET old == {connection} \ {NoConnection}
       IN  /\ made' = made + 1 /\ connection' = made + 1
           /\ freed' = freed \cup old
           /\ socket' = [j \in Connections |-> IF j \in old THEN "closed" ELSE socket[j]]
           /\ chain' = [j \in Connections |-> IF j \in old THEN Aborted(chain[j]) ELSE chain[j]]
    /\ main' = "connect"
    /\ UNCHANGED <<posted, stopped, thread, fault>>

\* m_connection->connectToServer(endpoints)
ConnectToServer ==
    /\ main = "connect" /\ fault = "none"
    /\ socket' = [socket EXCEPT ![connection] = "open"]
    /\ chain' = [chain EXCEPT ![connection] = Op("connect", "waiting")]
    /\ main' = "start"
    /\ UNCHANGED <<made, connection, freed, posted, stopped, thread, fault>>

\* thrContext = std::thread(...): assigning to a thrContext that is joinable ends the
\* program.  What the new thread does until then the old one can do as well.
StartThread ==
    /\ main = "start" /\ fault = "none"
    /\ \/ thread = "none" /\ thread' = "running" /\ main' = "idle" /\ UNCHANGED fault
       \/ thread # "none" /\ fault' = "terminate" /\ UNCHANGED <<thread, main>>
    /\ UNCHANGED <<made, connection, socket, chain, freed, posted, stopped>>

\* sendMessage(): m_connection is not checked
SendMessage ==
    /\ main = "idle" /\ fault = "none"
    /\ \/ connection = NoConnection /\ fault' = "null" /\ UNCHANGED posted
       \/ /\ connection # NoConnection /\ Len(posted) < MaxPosted
          /\ posted' = Append(posted, [conn |-> connection, handler |-> "send"])
          /\ UNCHANGED fault
    /\ UNCHANGED <<made, connection, socket, chain, freed, stopped, thread, main>>

\* disconnect(), which the destructor calls too: post the close, stop the
\* io_context, join its thread, let go of the Connection
Disconnect ==
    /\ main = "idle" /\ fault = "none"
    /\ posted' = IF isConnected
                 THEN Append(posted, [conn |-> connection, handler |-> "close"])
                 ELSE posted
    /\ main' = "stop"
    /\ UNCHANGED <<made, connection, socket, chain, freed, stopped, thread, fault>>

StopContext ==
    /\ main = "stop" /\ fault = "none"
    /\ stopped' = TRUE
    /\ main' = "join"
    /\ UNCHANGED <<made, connection, socket, chain, freed, posted, thread, fault>>

\* if(thrContext.joinable()) thrContext.join()
Join ==
    /\ main = "join" /\ fault = "none" /\ thread # "running"
    /\ thread' = "none"
    /\ main' = "release"
    /\ UNCHANGED <<made, connection, socket, chain, freed, posted, stopped, fault>>

\* m_connection.release(): the pointer is dropped, the Connection is not deleted
Release ==
    /\ main = "release" /\ fault = "none"
    /\ connection' = NoConnection
    /\ main' = "idle"
    /\ UNCHANGED <<made, socket, chain, freed, posted, stopped, thread, fault>>

-----------------------------------------------------------------------------
(* The io thread: m_context.run() *)

Ready(k)   == chain[k].state \in {"ok", "failed"}
Waiting(k) == chain[k].state = "waiting"

OutOfWork == posted = << >> /\ \A k \in Connections : chain[k] = NoOp

\* run() returns when the context is stopped; out of work, it stops it itself.
RunReturns ==
    /\ thread = "running" /\ fault = "none" /\ (stopped \/ OutOfWork)
    /\ thread' = "ended"
    /\ stopped' = TRUE
    /\ UNCHANGED <<made, connection, socket, chain, freed, posted, main, fault>>

Runs == thread = "running" /\ fault = "none" /\ ~stopped

\* close() of Connection k, with its chain at c
CloseSocket(k, c) ==
    /\ socket' = [socket EXCEPT ![k] = "closed"]
    /\ chain' = [chain EXCEPT ![k] = Aborted(c)]

\* The posted handlers: of send() only that it runs; a write that fails closes
\* the socket in its handler.
RunPosted ==
    /\ Runs /\ posted # << >>
    /\ posted' = Tail(posted)
    /\ LET h == Head(posted)
       IN  IF h.conn \in freed
           THEN fault' = "freed" /\ UNCHANGED <<socket, chain>>
           ELSE /\ UNCHANGED fault
                /\ \/ CloseSocket(h.conn, chain[h.conn])
                   \/ h.handler = "send" /\ UNCHANGED <<socket, chain>>
    /\ UNCHANGED <<made, connection, freed, stopped, thread, main>>

\* The handlers of the chain: a connect that failed is the end of it, and leaves
\* the socket open; a read that failed closes.
RunChain(k) ==
    /\ Runs /\ Ready(k)
    /\ LET c == chain[k]
           next == Op("read", IF socket[k] = "open" THEN "waiting" ELSE "failed")
       IN  \/ /\ k \in freed /\ fault' = "freed" /\ UNCHANGED <<socket, chain>>
           \/ /\ k \notin freed /\ c.state = "ok"
              /\ chain' = [chain EXCEPT ![k] = next] /\ UNCHANGED <<socket, fault>>
           \/ /\ k \notin freed /\ c = Op("connect", "failed")
              /\ chain' = [chain EXCEPT ![k] = NoOp] /\ UNCHANGED <<socket, fault>>
           \/ /\ k \notin freed /\ c = Op("read", "failed")
              /\ CloseSocket(k, NoOp) /\ UNCHANGED fault
    /\ UNCHANGED <<made, connection, freed, posted, stopped, thread, main>>

\* The reactor is part of run(): nothing completes once it has returned.
Complete(k) ==
    /\ Runs /\ Waiting(k) /\ socket[k] = "open"
    /\ \E r \in {"ok", "failed"} : chain' = [chain EXCEPT ![k].state = r]
    /\ UNCHANGED <<made, connection, socket, freed, posted, stopped, thread, main, fault>>

-----------------------------------------------------------------------------
MainStep == ConnectToServer \/ StartThread \/ StopContext \/ Join \/ Release

IoStep == RunReturns \/ RunPosted \/ \E k \in Connections : RunChain(k) \/ Complete(k)

Next == Connect \/ SendMessage \/ Disconnect \/ MainStep \/ IoStep

Spec == Init /\ [][Next]_vars

\* A call that was started goes on, and so does the io thread as long as it has
\* anything to do, in whatever order; the program need not call anything.
FairSpec == Spec /\ WF_vars(MainStep) /\ WF_vars(IoStep)

-----------------------------------------------------------------------------
(* Properties *)

TypeOK ==
    /\ made \in 0 .. MaxConnects
    /\ connection \in 0 .. made
    /\ socket \in [Connections -> {"none", "open", "closed"}]
    /\ chain \in [Connections -> {NoOp} \cup [op : Ops, state : {"waiting", "ok", "failed"}]]
    /\ freed \subseteq 1 .. made
    /\ posted \in Seq([conn : 1 .. made, handler : {"send", "close"}])
    /\ stopped \in BOOLEAN
    /\ thread \in {"none", "running", "ended"}
    /\ main \in {"idle", "connect", "start", "stop", "join", "release"}
    /\ fault \in {"none", "freed", "null", "terminate"}

\* The handlers of a Connection hold a raw this.  A Connection is deleted under them,
\* so that one may run on what is left of it, only by a connect() that is about to end
\* the program, because the thread of the connect() before was never joined:
\* disconnect(), which joins it, leaks the Connection.
HandlersOwned ==
    (fault = "freed" \/ \E k \in freed : \/ chain[k] # NoOp
                                        \/ \E i \in DOMAIN posted : posted[i].conn = k) =>
        main \in {"connect", "start"} /\ thread # "none"

\* Once disconnect() has returned, no thread of the client is left that could
\* touch the members its destructor is about to destroy.
QuietAfterDisconnect == (main \in {"release", "idle"} /\ connection = NoConnection) => thread = "none"

\* disconnect(), and with it the destructor, comes to its end, though it waits for
\* a thread that reads from a server which may talk, or be silent, for ever.
DisconnectReturns == (main \in {"stop", "join", "release"}) ~> (main = "idle")

-----------------------------------------------------------------------------
(* What the documentation of asio asks for, and the code does not give *)

\* restart() must be called before run() is called a second time, when the first run()
\* was stopped (include/asio/io_context.hpp:525-531).  The code never calls it: a
\* connect() after a disconnect() gives a client that is connected for ever and never
\* hears a word.  (Every connect() before has called run().)
RestartBeforeRun == [][thread = "none" /\ thread' = "running" /\ made > 1 => ~stopped]_vars
=============================================================================
