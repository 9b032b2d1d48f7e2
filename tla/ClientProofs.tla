----------------------------- MODULE ClientProofs -----------------------------
(***************************************************************************)
(* What holds of Client for any number of connects and of posted handlers. *)
(*                                                                         *)
(* HandlersOwned is not inductive: nothing in it says when a Connection is *)
(* deleted.  Owned adds it: at rest the client has a Connection just when  *)
(* it has a thread, so that a connect() that deletes one is going to meet  *)
(* a joinable thread and to end the program.                               *)
(***************************************************************************)
EXTENDS Client, TLAPS

\* At rest there is a Connection if and only if there is a thread, and a Connection that
\* is deleted is so by a connect() that finds a thread.
Owned ==
    /\ main = "release" => thread = "none"
    /\ main = "idle" => (connection = NoConnection <=> thread = "none")
    /\ main \in {"connect", "start"} => connection # NoConnection
    /\ (freed # {} \/ fault = "freed") => main \in {"connect", "start"} /\ thread # "none"

-----------------------------------------------------------------------------
(* The values of chain *)

OpRecords == [op : Ops, state : {"waiting", "ok", "failed"}]

\* close() wakes an operation, it makes none.
LEMMA AbortedType ==
    ASSUME NEW c \in {NoOp} \cup OpRecords
    PROVE  Aborted(c) \in {NoOp} \cup OpRecords
<1>1. CASE c = NoOp
  BY <1>1 DEF Aborted, NoOp
<1>2. CASE c \in OpRecords
  BY <1>2 DEF Aborted, OpRecords
<1>. QED  BY <1>1, <1>2

-----------------------------------------------------------------------------
\* A later bound on the Connections leaves the posted handlers well typed.
LEMMA PostedType ==
    ASSUME NEW S, NEW T, S \subseteq T, NEW s \in Seq(S)
    PROVE  s \in Seq(T)
<1>1. s \in [1 .. Len(s) -> S] /\ Len(s) \in Nat
  OBVIOUS
<1>2. s \in [1 .. Len(s) -> T]
  BY <1>1
<1>. QED  BY <1>1, <1>2

\* What sendMessage() and disconnect() post is meant for the Connection they hold.
LEMMA AppendType ==
    ASSUME TypeOK, connection # NoConnection, NEW what \in {"send", "close"}
    PROVE  Append(posted, [conn |-> connection, handler |-> what])
             \in Seq([conn : 1 .. made, handler : {"send", "close"}])
<1>1. connection \in 1 .. made
  BY DEF TypeOK, NoConnection
<1>2. [conn |-> connection, handler |-> what] \in [conn : 1 .. made, handler : {"send", "close"}]
  BY <1>1
<1>3. ASSUME NEW S, NEW s \in Seq(S), NEW e \in S PROVE Append(s, e) \in Seq(S)
  OBVIOUS
<1>. QED  BY <1>2, <1>3 DEF TypeOK

LEMMA InitType == Init => TypeOK
<1>. SUFFICES ASSUME Init PROVE TypeOK
  OBVIOUS
<1>1. made \in 0 .. MaxConnects /\ connection \in 0 .. made
  BY BoundsAssumption DEF Init, NoConnection
<1>2. posted \in Seq([conn : 1 .. made, handler : {"send", "close"}])
  BY DEF Init
<1>3. chain \in [Connections -> {NoOp} \cup [op : Ops, state : {"waiting", "ok", "failed"}]]
  BY DEF Init
<1>. QED  BY <1>1, <1>2, <1>3 DEF Init, TypeOK

LEMMA NextType == TypeOK /\ [Next]_vars => TypeOK'
<1>. SUFFICES ASSUME TypeOK, [Next]_vars PROVE TypeOK'
  OBVIOUS
<1>. USE BoundsAssumption DEF TypeOK, Connections, NoConnection
<1>a. chain \in [Connections -> {NoOp} \cup OpRecords]
  BY DEF OpRecords
<1>b. ASSUME NEW k \in Connections, NEW c \in {NoOp} \cup OpRecords, CloseSocket(k, c)
      PROVE  /\ socket' \in [Connections -> {"none", "open", "closed"}]
             /\ chain' \in [Connections -> {NoOp} \cup OpRecords]
  BY <1>a, <1>b, AbortedType DEF CloseSocket
<1>1. CASE Connect
  <2>. DEFINE k == made + 1
              old == {connection} \ {NoConnection}
  <2>1. /\ k \in Connections /\ made' = k /\ connection' = k
        /\ freed' = freed \cup old /\ old \subseteq 1 .. made
    BY <1>1 DEF Connect
  <2>2. socket' \in [Connections -> {"none", "open", "closed"}]
    BY <1>1 DEF Connect
  <2>3. chain' \in [Connections -> {NoOp} \cup OpRecords]
    <3>1. \A j \in Connections : Aborted(chain[j]) \in {NoOp} \cup OpRecords
      BY <1>a, AbortedType
    <3>2. chain' = [j \in Connections |-> IF j \in old THEN Aborted(chain[j]) ELSE chain[j]]
      BY <1>1 DEF Connect
    <3>. QED  BY <3>1, <3>2, <1>a
  <2>4. posted' \in Seq([conn : 1 .. made', handler : {"send", "close"}])
    <3>1. [conn : 1 .. made, handler : {"send", "close"}]
            \subseteq [conn : 1 .. made', handler : {"send", "close"}]
      BY <2>1
    <3>2. posted' = posted
      BY <1>1 DEF Connect
    <3>. QED  BY <3>1, <3>2, PostedType
  <2>5. UNCHANGED <<stopped, thread, fault>> /\ main' = "connect"
    BY <1>1 DEF Connect
  <2>6. made' \in 0 .. MaxConnects /\ connection' \in 0 .. made' /\ freed' \subseteq 1 .. made'
    BY <2>1
  <2>. QED  BY <2>2, <2>3, <2>4, <2>5, <2>6 DEF OpRecords
<1>12. CASE ConnectToServer
  <2>1. Op("connect", "waiting") \in OpRecords
    BY DEF Op, OpRecords, Ops
  <2>2. /\ socket' \in [Connections -> {"none", "open", "closed"}]
        /\ chain' \in [Connections -> {NoOp} \cup OpRecords]
    BY <1>12, <1>a, <2>1 DEF ConnectToServer
  <2>3. UNCHANGED <<made, connection, freed, posted, stopped, thread, fault>> /\ main' = "start"
    BY <1>12 DEF ConnectToServer
  <2>. QED  BY <2>2, <2>3 DEF OpRecords
<1>13. CASE StartThread
  BY <1>13 DEF StartThread
<1>2. CASE SendMessage
  <2>1. \/ posted' = posted
        \/ connection # 0 /\ posted' = Append(posted, [conn |-> connection, handler |-> "send"])
    BY <1>2 DEF SendMessage
  <2>2. posted' \in Seq([conn : 1 .. made, handler : {"send", "close"}])
    BY <2>1, AppendType
  <2>3. /\ UNCHANGED <<made, connection, socket, chain, freed, stopped, thread, main>>
        /\ fault' \in {"none", "freed", "null", "terminate"}
    BY <1>2 DEF SendMessage
  <2>. QED  BY <2>2, <2>3
<1>3. CASE Disconnect
  <2>1. \/ posted' = posted
        \/ connection # 0 /\ posted' = Append(posted, [conn |-> connection, handler |-> "close"])
    BY <1>3 DEF Disconnect, isConnected
  <2>2. posted' \in Seq([conn : 1 .. made, handler : {"send", "close"}])
    BY <2>1, AppendType
  <2>3. /\ UNCHANGED <<made, connection, socket, chain, freed, stopped, thread, fault>>
        /\ main' = "stop"
    BY <1>3 DEF Disconnect
  <2>. QED  BY <2>2, <2>3
<1>4. CASE StopContext
  BY <1>4 DEF StopContext
<1>5. CASE Join
  BY <1>5 DEF Join
<1>6. CASE Release
  BY <1>6 DEF Release
<1>7. CASE RunReturns
  BY <1>7 DEF RunReturns
<1>8. CASE RunPosted
  <2>. DEFINE h == Head(posted)
  <2>1. h \in [conn : 1 .. made, handler : {"send", "close"}] /\ h.conn \in Connections
    <3>1. ASSUME NEW S, NEW s \in Seq(S), s # << >> PROVE Head(s) \in S
      BY <3>1
    <3>2. h \in [conn : 1 .. made, handler : {"send", "close"}]
      BY <1>8, <3>1 DEF RunPosted
    <3>3. h.conn \in 1 .. made
      BY <3>2
    <3>. QED  BY <3>2, <3>3
  <2>2. posted' \in Seq([conn : 1 .. made, handler : {"send", "close"}])
    BY <1>8 DEF RunPosted
  <2>3. /\ UNCHANGED <<made, connection, freed, stopped, thread, main>>
        /\ fault' \in {"none", "freed", "null", "terminate"}
    BY <1>8 DEF RunPosted
  <2>4. \/ CloseSocket(h.conn, chain[h.conn])
        \/ UNCHANGED <<socket, chain>>
    BY <1>8 DEF RunPosted
  <2>5. /\ socket' \in [Connections -> {"none", "open", "closed"}]
        /\ chain' \in [Connections -> {NoOp} \cup OpRecords]
    BY <1>a, <1>b, <2>1, <2>4
  <2>. QED  BY <2>2, <2>3, <2>5 DEF OpRecords
<1>9. ASSUME NEW k \in Connections, RunChain(k) PROVE TypeOK'
  <2>. DEFINE next == Op("read", IF socket[k] = "open" THEN "waiting" ELSE "failed")
  <2>1. next \in OpRecords
    BY DEF Op, OpRecords, Ops
  <2>2. /\ UNCHANGED <<made, connection, freed, posted, stopped, thread, main>>
        /\ fault' \in {"none", "freed", "null", "terminate"}
    BY <1>9 DEF RunChain
  <2>3. \/ CloseSocket(k, NoOp)
        \/ UNCHANGED socket /\ chain' = [chain EXCEPT ![k] = next]
        \/ UNCHANGED socket /\ chain' = [chain EXCEPT ![k] = NoOp]
        \/ UNCHANGED <<socket, chain>>
    BY <1>9 DEF RunChain
  <2>4. /\ socket' \in [Connections -> {"none", "open", "closed"}]
        /\ chain' \in [Connections -> {NoOp} \cup OpRecords]
    <3>1. CASE CloseSocket(k, NoOp)
      BY <3>1, <1>b
    <3>2. CASE UNCHANGED socket /\ chain' = [chain EXCEPT ![k] = next]
      BY <3>2, <1>a, <2>1
    <3>3. CASE UNCHANGED socket /\ chain' = [chain EXCEPT ![k] = NoOp]
      BY <3>3, <1>a
    <3>4. CASE UNCHANGED <<socket, chain>>
      BY <3>4, <1>a
    <3>. QED  BY <2>3, <3>1, <3>2, <3>3, <3>4
  <2>. QED  BY <2>2, <2>4 DEF OpRecords
<1>10. ASSUME NEW k \in Connections, Complete(k) PROVE TypeOK'
  <2>1. PICK r \in {"ok", "failed"} : chain' = [chain EXCEPT ![k].state = r]
    BY <1>10 DEF Complete
  <2>2. chain[k] \in OpRecords
    BY <1>a, <1>10 DEF Complete, Waiting, NoOp
  <2>3. [chain[k] EXCEPT !.state = r] \in OpRecords
    BY <2>2 DEF OpRecords
  <2>4. chain' \in [Connections -> {NoOp} \cup OpRecords]
    BY <1>a, <2>1, <2>3
  <2>5. UNCHANGED <<made, connection, socket, freed, posted, stopped, thread, main, fault>>
    BY <1>10 DEF Complete
  <2>. QED  BY <2>4, <2>5 DEF OpRecords
<1>11. CASE UNCHANGED vars
  BY <1>11 DEF vars
<1>. QED
  BY <1>1, <1>2, <1>3, <1>4, <1>5, <1>6, <1>7, <1>8, <1>9, <1>10, <1>11, <1>12, <1>13
     DEF Next, MainStep, IoStep

\* Client keeps its type, for any number of connects and of posted handlers.
THEOREM TypeCorrect == Spec => []TypeOK
BY InitType, NextType, PTL DEF Spec

-----------------------------------------------------------------------------
LEMMA InitOwned == Init => Owned
BY DEF Init, Owned

LEMMA NextOwned == TypeOK /\ Owned /\ [Next]_vars => Owned'
<1>. SUFFICES ASSUME TypeOK, Owned, [Next]_vars PROVE Owned'
  OBVIOUS
<1>. USE DEF Owned, NoConnection
<1>1. CASE Connect
  \* Had the client a Connection, it has a thread.
  <2>1. /\ main = "idle" /\ main' = "connect" /\ freed = {} /\ UNCHANGED <<thread, fault>>
        /\ freed' = freed \cup ({connection} \ {NoConnection})
    BY <1>1 DEF Connect
  <2>2. connection' # NoConnection
    BY <1>1 DEF Connect, TypeOK
  <2>. QED  BY <2>1, <2>2
<1>12. CASE ConnectToServer
  BY <1>12 DEF ConnectToServer
<1>13. CASE StartThread
  BY <1>13 DEF StartThread
<1>2. CASE SendMessage
  BY <1>2 DEF SendMessage
<1>3. CASE Disconnect
  BY <1>3 DEF Disconnect
<1>4. CASE StopContext
  BY <1>4 DEF StopContext
<1>5. CASE Join
  BY <1>5 DEF Join
<1>6. CASE Release
  BY <1>6 DEF Release
<1>7. CASE RunReturns
  BY <1>7 DEF RunReturns
<1>8. CASE RunPosted
  <2>1. /\ UNCHANGED <<connection, freed, thread, main>>
        /\ fault' = "freed" => freed # {}
    BY <1>8 DEF RunPosted, Runs
  <2>. QED  BY <2>1
<1>9. ASSUME NEW k \in Connections, RunChain(k) PROVE Owned'
  <2>1. /\ UNCHANGED <<connection, freed, thread, main>>
        /\ fault' = "freed" => freed # {}
    BY <1>9 DEF RunChain, Runs
  <2>. QED  BY <2>1
<1>10. ASSUME NEW k \in Connections, Complete(k) PROVE Owned'
  <2>1. UNCHANGED <<connection, freed, thread, main, fault>>
    BY <1>10 DEF Complete
  <2>. QED  BY <2>1
<1>11. CASE UNCHANGED vars
  BY <1>11 DEF vars
<1>. QED
  BY <1>1, <1>2, <1>3, <1>4, <1>5, <1>6, <1>7, <1>8, <1>9, <1>10, <1>11, <1>12, <1>13
     DEF Next, MainStep, IoStep

LEMMA OwnedAlways == Spec => []Owned
BY InitOwned, NextOwned, TypeCorrect, PTL DEF Spec

\* Whatever the sequence of connect(), sendMessage() and disconnect(), a Connection is
\* deleted under its handlers only by a connect() that finds a joinable thread, in which
\* the assignment that follows calls std::terminate.
THEOREM OwnersOutlive == Spec => []HandlersOwned
<1>1. Owned => HandlersOwned
  BY DEF Owned, HandlersOwned
<1>. QED  BY <1>1, OwnedAlways, PTL

\* When disconnect() has returned, the client's thread has been joined.
THEOREM JoinedAfterDisconnect == Spec => []QuietAfterDisconnect
<1>1. Owned => QuietAfterDisconnect
  BY DEF Owned, QuietAfterDisconnect
<1>. QED  BY <1>1, OwnedAlways, PTL
=============================================================================
