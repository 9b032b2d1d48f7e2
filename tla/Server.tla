-------------------------------- MODULE Server --------------------------------
(***************************************************************************)
(* server_interface (p2d.hpp:606-772): the registry of its clients, which  *)
(* two threads use without a lock, and the lifetime of the Connections in  *)
(* it.                                                                     *)
(*                                                                         *)
(* The io thread accepts clients and runs the handlers of their            *)
(* Connections.  The main thread calls update(), messageClient() and       *)
(* messageAllClients().  A Connection lives as long as a shared_ptr to it: *)
(* in m_deqConnections, in a message of m_qMessagesIn, in the message that *)
(* is being handled.  Its own handlers hold the raw this.                  *)
(*                                                                         *)
(* Of a Connection only its socket and its outstanding handlers are kept   *)
(* here: the chain of reads, the chain of writes, the handshake's write,   *)
(* the posted sends (Connection.tla has the rest).  Each call on a         *)
(* container is taken as atomic.  What the program does after undefined    *)
(* behaviour is not described: fault says which, and nothing follows.  Nor *)
(* does anything follow an exception nobody catches, which ends it.        *)
(***************************************************************************)
EXTENDS Integers, Sequences, FiniteSets

LOCAL INSTANCE SequencesExt  \* ToSet

CONSTANTS Clients,     \* the Connections that may be made
          Ids,         \* what generateUniqueID draws from; 0 is no member
          Null,        \* a null shared_ptr
          HookErases,  \* onClientDisconnect is the base's, which erases the id,
                       \* not exampleServer's override, which does not
          MaxPosted,   \* bound of the model: messages under way to one client; when
                       \* some client has as many, one more is dropped
          MaxQueue     \* bound of the model: length of m_qMessagesIn

ASSUME ServerAssumption ==
    /\ Null \notin Clients
    /\ 0 \notin Ids
    /\ HookErases \in BOOLEAN
    /\ MaxPosted \in Nat /\ MaxQueue \in Nat

VARIABLES conns,     \* m_deqConnections
          ids,       \* ids
          idOf,      \* Connection -> its id, 0 before connectToClient
          socket,    \* Connection -> "none" (not made), "open", "closed"
          reads,     \* Connection -> its outstanding read handler
          writes,    \* Connection -> the outstanding handler of a message's write
          greets,    \* Connection -> the handshake's write is outstanding
          posted,    \* Connection -> the number of posted sends
          out,       \* Connection -> the length of m_qMessagesOut
          qIn,       \* m_qMessagesIn, the remote of each message
          io,        \* what the io thread is in the middle of
          main,      \* what the main thread is in the middle of
          reported,  \* Connection -> calls of onClientDisconnect for it
          raced,     \* history: the ids whose push_back fell into the loop that
                     \* takes ids out, where it can cost them
          running,   \* stop() has not been called
          fault      \* the undefined behaviour met, or "terminate", or "none"

links    == <<socket, reads, writes, greets, posted, out>>
registry == <<conns, ids, idOf, raced>>
vars     == <<registry, links, qIn, io, main, reported, running, fault>>

\* A handler that is outstanding waits for its operation, or is ready to run
\* with success or with an error.
HandlerStates == {"none", "waiting", "ok", "failed"}

Idle == [at |-> "idle"]

MainRemote == IF main.at = "message" THEN {main.remote} ELSE {}

\* Some shared_ptr points to c.
Alive(c) == \/ \E i \in DOMAIN conns : conns[i] = c
            \/ \E i \in DOMAIN qIn : qIn[i] = c
            \/ c \in MainRemote

Init ==
    /\ conns = << >> /\ ids = << >>
    /\ idOf = [c \in Clients |-> 0]
    /\ socket = [c \in Clients |-> "none"]
    /\ reads = [c \in Clients |-> "none"] /\ writes = [c \in Clients |-> "none"]
    /\ greets = [c \in Clients |-> FALSE] /\ raced = {}
    /\ posted = [c \in Clients |-> 0] /\ out = [c \in Clients |-> 0]
    /\ qIn = << >>
    /\ io = Idle /\ main = Idle
    /\ reported = [c \in Clients |-> 0]
    /\ running = TRUE
    /\ fault = "none"

\* An operation started on a closed socket fails.
StartOp(c) == IF socket[c] = "open" THEN "waiting" ELSE "failed"

-----------------------------------------------------------------------------
(* Faulty variants.  No specification uses them: each takes the place of the  *)
(* definition it is named after, to see that a property notices.              *)

\* the wrong id goes: the last one, without the swap
Swapped_Not(v, k) == v

\* nulls stay in the registry
NonNull_KeepsAll(s) == s

\* for(auto client : m_deqConnections): what is reset is a copy
Dropped_Copy(s, i) == s

\* the loop begins at the second client
StartBroadcast_FromSecond ==
    /\ main = Idle
    /\ \E c \in Clients \cup {Null} :
          main' = [at |-> "loop", i |-> 2, ignore |-> c, toRemove |-> {}]
    /\ UNCHANGED <<registry, links, qIn, io, reported, running, fault>>

\* the message just written is not popped before the next is looked for
NextWrite_Again(c) == IF out[c] > 0 THEN StartOp(c) ELSE "none"

-----------------------------------------------------------------------------
(* The io thread: accepting *)

Accepting == io.at \in {"push", "name", "register"}

\* The main thread is in the loop over ids, at the end of messageAllClients.
InIdsLoop == main.at \in {"test", "swap", "pop"}

\* The accept handler: a socket arrives, onClientConnect says yes.  (When it says
\* no the Connection is gone at once, and nothing here has changed.)  The line
\* that logs it asks for its remote_endpoint(), which throws when the client is
\* gone again; nothing on the io thread catches that.
Accept(c) ==
    /\ running /\ io = Idle /\ socket[c] = "none"
    /\ \/ /\ socket' = [socket EXCEPT ![c] = "open"]
          /\ io' = [at |-> "push", conn |-> c]
          /\ UNCHANGED fault
       \/ fault' = "terminate" /\ UNCHANGED <<socket, io>>
    /\ UNCHANGED <<registry, reads, writes, greets, posted, out, qIn, main, reported, running>>

\* m_deqConnections.push_back: invalidates the iterators of a range-for over it
PushConnection ==
    /\ io.at = "push"
    /\ conns' = Append(conns, io.conn)
    /\ io' = [io EXCEPT !.at = "name"]
    /\ fault' = IF main.at = "loop" THEN "iterator" ELSE fault
    /\ UNCHANGED <<ids, idOf, raced, links, qIn, main, reported, running>>

\* generateUniqueID, then connectToClient of m_deqConnections.back(), which starts
\* to write the challenge and to read the answer
NameConnection ==
    /\ io.at = "name"
    /\ \E id \in Ids :
          /\ \A i \in DOMAIN ids : ids[i] # id
          /\ LET c == conns[Len(conns)]
             IN  /\ idOf'   = [idOf EXCEPT ![c] = id]
                 /\ reads'  = [reads EXCEPT ![c] = "waiting"]
                 /\ greets' = [greets EXCEPT ![c] = TRUE]
          /\ io' = [at |-> "register", conn |-> io.conn, id |-> id]
    /\ UNCHANGED <<conns, ids, raced, socket, writes, posted, out, qIn, main, reported,
                   running, fault>>

\* ids.push_back(id), for which nothing is locked
RegisterId ==
    /\ io.at = "register"
    /\ ids' = Append(ids, io.id)
    /\ raced' = IF main.at = "pop" \/ (InIdsLoop /\ io.id \in main.toRemove)
                THEN raced \cup {io.id} ELSE raced
    /\ io' = Idle
    /\ UNCHANGED <<conns, idOf, links, qIn, main, reported, running, fault>>

-----------------------------------------------------------------------------
(* The io thread: the handlers of a Connection *)

\* A handler runs on a Connection that is gone.
RunOnFreed(c) ==
    /\ io = Idle /\ running /\ ~Alive(c)
    /\ \/ \E h \in {reads[c], writes[c]} : h \in {"ok", "failed"}
       \/ greets[c]
       \/ posted[c] > 0
    /\ fault' = "freed"
    /\ UNCHANGED <<registry, links, qIn, io, main, reported, running>>

CanRun(c) == io = Idle /\ running /\ Alive(c)

\* A read has succeeded.  Perhaps it completes a message.
RunRead(c) ==
    /\ CanRun(c) /\ reads[c] = "ok"
    /\ reads' = [reads EXCEPT ![c] = StartOp(c)]
    /\ \/ qIn' = Append(qIn, c) /\ Len(qIn) < MaxQueue
       \/ UNCHANGED qIn
    /\ UNCHANGED <<registry, socket, writes, greets, posted, out, io, main, reported, running,
                   fault>>

\* A handler with an error is about to call m_socket.close().
RunFailed(c) ==
    /\ CanRun(c)
    /\ \/ /\ reads[c] = "failed" /\ reads' = [reads EXCEPT ![c] = "none"]
          /\ UNCHANGED <<writes, greets>>
       \/ /\ writes[c] = "failed" /\ writes' = [writes EXCEPT ![c] = "none"]
          /\ UNCHANGED <<reads, greets>>
       \/ /\ greets[c] /\ greets' = [greets EXCEPT ![c] = FALSE]
          /\ UNCHANGED <<reads, writes>>
    /\ io' = [at |-> "close", conn |-> c]
    /\ UNCHANGED <<registry, socket, posted, out, qIn, main, reported, running, fault>>

Aborted(h) == IF h = "waiting" THEN "failed" ELSE h

Close ==
    /\ io.at = "close"
    /\ IF Alive(io.conn)
       THEN /\ socket' = [socket EXCEPT ![io.conn] = "closed"]
            /\ reads'  = [reads EXCEPT ![io.conn] = Aborted(@)]
            /\ writes' = [writes EXCEPT ![io.conn] = Aborted(@)]
            /\ UNCHANGED fault
       ELSE fault' = "freed" /\ UNCHANGED <<socket, reads, writes>>
    /\ io' = Idle
    /\ UNCHANGED <<registry, greets, posted, out, qIn, main, reported, running>>

\* The posted part of send()
RunSend(c) ==
    /\ CanRun(c) /\ posted[c] > 0
    /\ posted' = [posted EXCEPT ![c] = @ - 1]
    /\ out' = [out EXCEPT ![c] = @ + 1]
    /\ writes' = IF out[c] = 0 THEN [writes EXCEPT ![c] = StartOp(c)] ELSE writes
    /\ UNCHANGED <<registry, socket, reads, greets, qIn, io, main, reported, running, fault>>

\* pop_front(); if(!m_qMessagesOut.empty()) writeHeader();
NextWrite(c) == IF out[c] > 1 THEN StartOp(c) ELSE "none"

\* A write has succeeded: the rest of the message, or the next one, or nothing.
RunWrite(c) ==
    /\ CanRun(c) /\ writes[c] = "ok"
    /\ \/ /\ writes' = [writes EXCEPT ![c] = StartOp(c)]
          /\ UNCHANGED out
       \/ /\ out' = [out EXCEPT ![c] = @ - 1]
          /\ writes' = [writes EXCEPT ![c] = NextWrite(c)]
    /\ UNCHANGED <<registry, socket, reads, greets, posted, qIn, io, main, reported, running, fault>>

\* The challenge is written, about which the server's end does nothing: when the
\* write completed before, between two handlers, nobody can tell.
RunGreeting(c) ==
    /\ CanRun(c) /\ greets[c]
    /\ greets' = [greets EXCEPT ![c] = FALSE]
    /\ UNCHANGED <<registry, socket, reads, writes, posted, out, qIn, io, main, reported,
                   running, fault>>

-----------------------------------------------------------------------------
(* The reactor completes an operation *)

CompleteRead(c) ==
    /\ socket[c] = "open" /\ reads[c] = "waiting"
    /\ \E r \in {"ok", "failed"} : reads' = [reads EXCEPT ![c] = r]
    /\ UNCHANGED <<registry, socket, writes, greets, posted, out, qIn, io, main, reported,
                   running, fault>>

CompleteWrite(c) ==
    /\ socket[c] = "open" /\ writes[c] = "waiting"
    /\ \E r \in {"ok", "failed"} : writes' = [writes EXCEPT ![c] = r]
    /\ UNCHANGED <<registry, socket, reads, greets, posted, out, qIn, io, main, reported,
                   running, fault>>

-----------------------------------------------------------------------------
(* The main thread *)

\* erase(std::remove(...)), of an id or of a null pointer
Without(s, x) ==
    LET kept[i \in 0 .. Len(s)] ==
            IF i = 0 THEN << >>
            ELSE IF s[i] = x THEN kept[i - 1] ELSE Append(kept[i - 1], s[i])
    IN  kept[Len(s)]

\* What onClientDisconnect does to ids
Hook(s, id) == IF HookErases THEN Without(s, id) ELSE s

AtBound(c) == \E d \in Clients : posted[d] + out[d] = MaxPosted

post(c) == posted' = [posted EXCEPT ![c] = @ + 1]

\* The destructor of a Connection: its socket closes, its handlers remain.
Destroyed(c) ==
    /\ socket' = [socket EXCEPT ![c] = "closed"]
    /\ reads'  = [reads EXCEPT ![c] = Aborted(@)]
    /\ writes' = [writes EXCEPT ![c] = Aborted(@)]

\* update(): m_qMessagesIn.pop_front(), then onMessage
Update ==
    /\ main = Idle /\ qIn # << >>
    /\ main' = [at |-> "message", remote |-> Head(qIn)]
    /\ qIn' = Tail(qIn)
    /\ UNCHANGED <<registry, links, io, reported, running, fault>>

\* onMessage returns, and the message goes, perhaps with the last shared_ptr
EndMessage ==
    /\ main.at = "message"
    /\ main' = Idle
    /\ LET c == main.remote
       IN  IF c \in ToSet(conns) \cup ToSet(qIn)
           THEN UNCHANGED <<socket, reads, writes>> ELSE Destroyed(c)
    /\ UNCHANGED <<registry, greets, posted, out, qIn, io, reported, running, fault>>

\* messageClient(), which onMessage calls with the remote of its message.  When
\* the client is gone, client.reset() comes before client->getID().
MessageClient ==
    /\ main.at = "message"
    /\ LET c == main.remote
       IN  \/ /\ socket[c] = "open"
              /\ IF AtBound(c) THEN UNCHANGED posted ELSE post(c)
              /\ UNCHANGED <<ids, reported, fault>>
           \/ /\ socket[c] # "open"
              /\ reported' = [reported EXCEPT ![c] = @ + 1]
              /\ ids' = Hook(ids, idOf[c])
              /\ fault' = "null"
              /\ UNCHANGED posted
    /\ UNCHANGED <<conns, idOf, raced, socket, reads, writes, greets, out, qIn, io, main, running>>

\* messageAllClients(msg, ignoreClient)
StartBroadcast ==
    /\ main = Idle
    /\ \E c \in Clients \cup {Null} :
          main' = [at |-> "loop", i |-> 1, ignore |-> c, toRemove |-> {}]
    /\ UNCHANGED <<registry, links, qIn, io, reported, running, fault>>

\* client.reset(), through the reference into m_deqConnections
Dropped(s, i) == [s EXCEPT ![i] = Null]

\* One round of the range-for.  reset() may drop the last shared_ptr.
VisitClient ==
    /\ main.at = "loop" /\ main.i <= Len(conns)
    /\ LET c == conns[main.i]
       IN  \/ /\ c # Null /\ socket[c] = "open"
              /\ IF c = main.ignore \/ AtBound(c) THEN UNCHANGED posted ELSE post(c)
              /\ main' = [main EXCEPT !.i = @ + 1]
              /\ UNCHANGED <<ids, conns, reported, socket, reads, writes, fault>>
           \/ /\ c # Null /\ socket[c] # "open"
              /\ main' = [main EXCEPT !.i = @ + 1, !.toRemove = @ \cup {idOf[c]}]
              /\ reported' = [reported EXCEPT ![c] = @ + 1]
              /\ ids' = Hook(ids, idOf[c])
              /\ conns' = Dropped(conns, main.i)
              /\ IF c \in ToSet(qIn) THEN UNCHANGED <<socket, reads, writes>>
                                     ELSE Destroyed(c)
              /\ UNCHANGED <<posted, fault>>
           \/ /\ c = Null /\ fault' = "null"
              /\ UNCHANGED <<main, ids, conns, reported, socket, reads, writes, posted>>
    /\ UNCHANGED <<idOf, raced, greets, out, qIn, io, running>>

\* After the range-for: if(invalidClientExists), to the loop over ids
EndVisits ==
    /\ main.at = "loop" /\ main.i > Len(conns)
    /\ main' = IF main.toRemove = {} THEN Idle ELSE [at |-> "test", i |-> 1, toRemove |-> main.toRemove]
    /\ UNCHANGED <<registry, links, qIn, io, reported, running, fault>>

\* i < ids.size(), and whether the id is one of those to remove
TestId ==
    /\ main.at = "test" /\ main.i <= Len(ids)
    /\ main' = IF ids[main.i] \in main.toRemove THEN [main EXCEPT !.at = "swap"]
                                                ELSE [main EXCEPT !.i = @ + 1]
    /\ UNCHANGED <<registry, links, qIn, io, reported, running, fault>>

\* std::swap(ids[i], ids[ids.size() - 1])
Swapped(v, k) == [v EXCEPT ![k] = v[Len(v)], ![Len(v)] = v[k]]

SwapIds ==
    /\ main.at = "swap"
    /\ ids' = Swapped(ids, main.i)
    /\ main' = [main EXCEPT !.at = "pop"]
    /\ UNCHANGED <<conns, idOf, raced, links, qIn, io, reported, running, fault>>

\* ids.pop_back(); i++, past the id that was swapped in
PopId ==
    /\ main.at = "pop"
    /\ ids' = SubSeq(ids, 1, Len(ids) - 1)
    /\ main' = [main EXCEPT !.at = "test", !.i = @ + 1]
    /\ UNCHANGED <<conns, idOf, raced, links, qIn, io, reported, running, fault>>

NonNull(s) == Without(s, Null)

\* The loop over ids is at its end: the null pointers are erased.
EndBroadcast ==
    /\ main.at = "test" /\ main.i > Len(ids)
    /\ conns' = NonNull(conns)
    /\ main' = Idle
    /\ UNCHANGED <<ids, idOf, raced, links, qIn, io, reported, running, fault>>

\* stop(): the handler that runs comes to its end, the others never run
Stop ==
    /\ main = Idle /\ running /\ io = Idle
    /\ running' = FALSE
    /\ UNCHANGED <<registry, links, qIn, io, main, reported, fault>>

-----------------------------------------------------------------------------
IoStep == \/ PushConnection \/ NameConnection \/ RegisterId \/ Close
          \/ \E c \in Clients : \/ RunRead(c) \/ RunFailed(c) \/ RunSend(c) \/ RunWrite(c)
                                \/ RunGreeting(c) \/ RunOnFreed(c)

MainStep == \/ EndMessage \/ MessageClient \/ VisitClient \/ EndVisits
            \/ TestId \/ SwapIds \/ PopId \/ EndBroadcast

Next ==
    /\ fault = "none"
    /\ \/ IoStep \/ MainStep \/ Update \/ StartBroadcast \/ Stop
       \/ \E c \in Clients : Accept(c) \/ CompleteRead(c) \/ CompleteWrite(c)

Spec == Init /\ [][Next]_vars

\* A call of the main thread comes to its end.  Nobody has to connect, to send, or
\* to break off, and nothing is asked of the io thread.
Fairness == WF_vars(fault = "none" /\ MainStep)

FairSpec == Spec /\ Fairness
-----------------------------------------------------------------------------
(* Properties *)

Flags(S) == [Clients -> S]

TypeOK ==
    /\ conns \in Seq(Clients \cup {Null})
    /\ ids \in Seq(Ids)
    /\ idOf \in Flags(Ids \cup {0})
    /\ socket \in Flags({"none", "open", "closed"})
    /\ reads \in Flags(HandlerStates) /\ writes \in Flags(HandlerStates)
    /\ greets \in Flags(BOOLEAN) /\ raced \subseteq Ids
    /\ posted \in Flags(0 .. MaxPosted) /\ out \in Flags(0 .. MaxPosted)
    /\ qIn \in Seq(Clients) /\ Len(qIn) <= MaxQueue
    /\ \/ io = Idle
       \/ io \in [at : {"push", "name", "close"}, conn : Clients]
       \/ io \in [at : {"register"}, conn : Clients, id : Ids]
    /\ \/ main = Idle
       \/ main \in [at : {"message"}, remote : Clients]
       \/ main \in [at : {"loop"}, i : Nat \ {0}, ignore : Clients \cup {Null},
                    toRemove : SUBSET Ids]
       \/ main \in [at : {"test", "swap", "pop"}, i : Nat \ {0}, toRemove : SUBSET Ids]
    /\ reported \in Flags(0 .. 2)
    /\ running \in BOOLEAN
    /\ fault \in {"none", "iterator", "freed", "null", "terminate"}

Registered == {c \in Clients : \E i \in DOMAIN conns : conns[i] = c}

\* The io thread has not come to the end of accepting c.
Newcomer(c) == Accepting /\ io.conn = c

\* getID() tells the clients of the registry apart, and generateUniqueID, which
\* looks only at ids, will not give one of them away again.  The loop that takes
\* ids out skips some that should go, but takes one that should stay only when the
\* io thread pushes it, without a lock, in the middle of a round, between the swap
\* and the pop_back, or when it was drawn again while it is being taken out.
IdsIdentify ==
    \A c \in Registered : (~Newcomer(c) /\ idOf[c] \notin raced) =>
        /\ \E i \in DOMAIN ids : ids[i] = idOf[c]
        /\ \A d \in Registered \ {c} : idOf[d] # idOf[c]

\* messageAllClients calls getID() through the pointers that are not connected,
\* null ones too.  It never meets one, because it leaves none, nor anything else that
\* is not a client, an id, or a step of a call.
NoNullAtRest ==
    /\ TypeOK
    /\ main.at \in {"idle", "message"} => \A i \in DOMAIN conns : conns[i] # Null

\* onClientDisconnect is called for the clients that have left the registry, once
\* for each, and for no other.
ReportedIffRemoved ==
    fault # "null" =>
        \A c \in Clients :
            reported[c] = IF socket[c] # "none" /\ c \notin Registered /\ ~Newcomer(c)
                          THEN 1 ELSE 0

\* If messageAllClients is called again and again, a client that has gone leaves
\* the registry.
GoneIsRemoved ==
    []<><<StartBroadcast>>_vars =>
        \A c \in Clients :
            (socket[c] = "closed" /\ c \in Registered) ~> (c \notin Registered \/ fault # "none")

-----------------------------------------------------------------------------
(* What the documentation of asio asks for, and the code does not give *)

=============================================================================
