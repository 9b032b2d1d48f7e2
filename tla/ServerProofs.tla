------------------------------ MODULE ServerProofs ------------------------------
(***************************************************************************)
(* What holds of Server for any number of clients, of ids and of messages. *)
(*                                                                         *)
(* None of NoNullAtRest, ReportedIffRemoved and IdsIdentify is inductive.  *)
(* SInv adds where a client may be met: at most once in the registry, in   *)
(* no message while it is being accepted, and in messageAllClients a null  *)
(* only behind the iterator of a loop that will clear it away.  IdInv adds *)
(* what becomes of the ids.                                                *)
(***************************************************************************)
EXTENDS Server, Recursion, SequenceTheorems, TLAPS

LOCAL INSTANCE SequencesExt \* ToSet

-----------------------------------------------------------------------------
(* What erase and swap keep of a vector *)

\* erase(remove(s, x)) leaves every element that is not x and nothing else, none twice that
\* was there once, and the last one last unless it is x.
LEMMA WithoutKept ==
    ASSUME NEW S, NEW s \in Seq(S), NEW x
    PROVE  LET w == Without(s, x)
           IN  /\ w \in Seq(S)
               /\ \A k \in DOMAIN w : w[k] # x /\ \E i \in DOMAIN s : s[i] = w[k]
               /\ \A i \in DOMAIN s : s[i] # x => \E k \in DOMAIN w : w[k] = s[i]
               /\ (\A i, j \in DOMAIN s : (s[i] # x /\ s[i] = s[j]) => i = j) =>
                     \A k, l \in DOMAIN w : w[k] = w[l] => k = l
               /\ (s # << >> /\ s[Len(s)] # x) => w # << >> /\ w[Len(w)] = s[Len(s)]
<1>. DEFINE Once == \A i, j \in DOMAIN s : (s[i] # x /\ s[i] = s[j]) => i = j
            D == 0 .. Len(s)
            Kept(f) == [i \in D |-> IF i = 0 THEN << >>
                                    ELSE IF s[i] = x THEN f[i - 1] ELSE Append(f[i - 1], s[i])]
            kept == CHOOSE f : f = Kept(f)
<1>1. Len(s) \in Nat /\ DOMAIN s = 1 .. Len(s) /\ \A i \in 1 .. Len(s) : s[i] \in S
  OBVIOUS
<1>2. \E f : f = Kept(f)
  <2>. DEFINE g == [i \in 1 .. Len(s) |-> [t \in Seq(S) |-> IF s[i] = x THEN t ELSE Append(t, s[i])]]
  <2>1. g \in [1 .. Len(s) -> [Seq(S) -> Seq(S)]] /\ << >> \in Seq(S)
    OBVIOUS
  <2>2. PICK f \in [D -> Seq(S)] : f[0] = << >> /\ \A k \in 1 .. Len(s) : f[k] = g[k][f[k - 1]]
    <3>. DEFINE n == Len(s)
                a == << >>
                Z == Seq(S)
    <3>1. n \in Nat /\ a \in Z /\ g \in [1 .. n -> [Z -> Z]]
      BY <1>1, <2>1
    <3>. HIDE DEF g, n, a, Z
    <3>2. PICK f \in [0 .. n -> Z] : IsRecursion(f, n, a, g)
      BY <3>1, RecursiveFunction
    <3>. QED  BY <3>2 DEF n, a, Z, IsRecursion
  <2>3. ASSUME NEW i \in D PROVE f[i] = Kept(f)[i]
    <3>1. CASE i = 0
      BY <2>2, <3>1
    <3>2. CASE i \in 1 .. Len(s)
      <4>1. f[i - 1] \in Seq(S)
        BY <1>1, <3>2
      <4>. QED  BY <2>2, <3>2, <4>1
    <3>. QED  BY <1>1, <3>1, <3>2
  <2>4. f = [i \in D |-> f[i]] /\ Kept(f) = [i \in D |-> Kept(f)[i]]
    OBVIOUS
  <2>5. f = Kept(f)
    <3>. HIDE DEF Kept
    <3>. QED BY <2>3, <2>4
  <2>. QED  BY <2>5
<1>3. kept = Kept(kept)
  <2>. HIDE DEF Kept
  <2>. QED  BY <1>2
<1>4. Without(s, x) = kept[Len(s)]
  BY DEF Without
<1>. HIDE DEF kept
<1>5. kept[0] = << >> /\ \A i \in 1 .. Len(s) : kept[i] = IF s[i] = x THEN kept[i - 1] ELSE Append(kept[i - 1], s[i])
  <2>1. \A i \in D : kept[i] = Kept(kept)[i]
    <3>. HIDE DEF Kept
    <3>. QED  BY <1>3
  <2>. QED  BY <1>1, <2>1
<1>. DEFINE Good(i, w) ==
               /\ w \in Seq(S)
               /\ \A k \in 1 .. Len(w) : w[k] # x /\ \E j \in 1 .. i : s[j] = w[k]
               /\ \A j \in 1 .. i : s[j] # x => \E k \in 1 .. Len(w) : w[k] = s[j]
               /\ Once => \A k, l \in 1 .. Len(w) : w[k] = w[l] => k = l
            T == {i \in D : Good(i, kept[i])}
<1>6. 0 \in T
  <2>1. Good(0, << >>)
    OBVIOUS
  <2>2. Good(0, kept[0])
    BY <1>5, <2>1
  <2>. QED  BY <1>1, <2>2
<1>7. ASSUME NEW i \in 1 .. Len(s), i - 1 \in T PROVE i \in T
  <2>1. Good(i - 1, kept[i - 1])
    BY <1>7
  <2>2. CASE s[i] = x
    <3>1. kept[i] = kept[i - 1]
      BY <1>5, <2>2
    <3>. DEFINE w == kept[i - 1]
    <3>2. Good(i - 1, w)
      BY <2>1
    <3>. HIDE DEF w
    <3>3. Good(i, w)
      BY <1>1, <2>2, <3>2
    <3>4. Good(i, kept[i])
      BY <3>1, <3>3 DEF w
    <3>. QED  BY <1>1, <3>4
  <2>3. CASE s[i] # x
    <3>. DEFINE v == kept[i - 1]
                w == Append(v, s[i])
    <3>1. kept[i] = w
      BY <1>5, <2>3
    <3>2. v \in Seq(S) /\ s[i] \in S
      BY <1>1, <2>1
    <3>3. /\ w \in Seq(S) /\ Len(w) = Len(v) + 1 /\ w[Len(w)] = s[i]
          /\ \A k \in 1 .. Len(v) : w[k] = v[k]
      BY <3>2
    <3>. HIDE DEF w, v
    <3>4. Good(i - 1, v)
      BY <2>1 DEF v
    <3>5. Once => \A k \in 1 .. Len(v) : v[k] # s[i]
      <4>. SUFFICES ASSUME Once, NEW k \in 1 .. Len(v), v[k] = s[i] PROVE FALSE
        OBVIOUS
      <4>1. PICK j \in 1 .. (i - 1) : s[j] = v[k]
        BY <3>4
      <4>2. j \in DOMAIN s /\ i \in DOMAIN s /\ j # i
        BY <1>1
      <4>. QED  BY <2>3, <4>1, <4>2
    <3>. HIDE DEF Once
    <3>6. Good(i, w)
      <4>1. ASSUME NEW k \in 1 .. Len(w) PROVE w[k] # x /\ \E j \in 1 .. i : s[j] = w[k]
        BY <1>1, <2>3, <3>2, <3>3, <3>4
      <4>2. ASSUME NEW j \in 1 .. i, s[j] # x PROVE \E k \in 1 .. Len(w) : w[k] = s[j]
        <5>1. CASE j = i
          BY <3>3, <5>1
        <5>2. CASE j \in 1 .. (i - 1)
          <6>1. PICK k \in 1 .. Len(v) : v[k] = s[j]
            BY <3>4, <4>2, <5>2
          <6>. QED  BY <3>3, <6>1
        <5>. QED  BY <1>1, <5>1, <5>2
      <4>3. ASSUME Once, NEW k \in 1 .. Len(w), NEW l \in 1 .. Len(w), w[k] = w[l] PROVE k = l
        BY <1>1, <4>3, <3>2, <3>3, <3>4, <3>5
      <4>. QED  BY <3>3, <4>1, <4>2, <4>3
    <3>7. Good(i, kept[i]) /\ i \in D
      BY <1>1, <3>1, <3>6
    <3>. QED  BY <3>7
  <2>. QED  BY <2>2, <2>3
<1>8. Good(Len(s), kept[Len(s)])
  <2>. HIDE DEF T
  <2>1. D \subseteq T
    BY <1>1, <1>6, <1>7, InductionTo
  <2>2. Len(s) \in T
    BY <1>1, <2>1
  <2>. QED  BY <2>2 DEF T
<1>9. (s # << >> /\ s[Len(s)] # x) => 
         kept[Len(s)] # << >> /\ kept[Len(s)][Len(kept[Len(s)])] = s[Len(s)]
  <2>. SUFFICES ASSUME s # << >>, s[Len(s)] # x
                PROVE  kept[Len(s)] # << >> /\ kept[Len(s)][Len(kept[Len(s)])] = s[Len(s)]
    OBVIOUS
  <2>1. Len(s) \in 1 .. Len(s) /\ kept[Len(s)] = Append(kept[Len(s) - 1], s[Len(s)])
    <3>1. Len(s) \in 1 .. Len(s)
      BY <1>1
    <3>. QED  BY <1>5, <3>1
  <2>2. Len(s) - 1 \in T
    <3>. HIDE DEF T
    <3>1. D \subseteq T
      BY <1>1, <1>6, <1>7, InductionTo
    <3>. QED  BY <1>1, <2>1, <3>1
  <2>. QED  BY <1>1, <2>1, <2>2
<1>. DEFINE w == kept[Len(s)]
<1>10. Good(Len(s), w)
  BY <1>8
<1>11. (s # << >> /\ s[Len(s)] # x) => w # << >> /\ w[Len(w)] = s[Len(s)]
  BY <1>9
<1>. HIDE DEF w
<1>12. DOMAIN w = 1 .. Len(w)
  BY <1>10
<1>. QED  BY <1>1, <1>4, <1>10, <1>11, <1>12 DEF w

\* The swap with the last element moves v[k] there and loses nothing.
LEMMA SwappedKeeps ==
    ASSUME NEW S, NEW v \in Seq(S), NEW k \in 1 .. Len(v)
    PROVE  /\ Swapped(v, k) \in Seq(S) /\ Len(Swapped(v, k)) = Len(v)
           /\ Swapped(v, k)[Len(v)] = v[k]
           /\ \A i \in 1 .. Len(v) : \E j \in 1 .. Len(v) : Swapped(v, k)[j] = v[i]
<1>. DEFINE n == Len(v)
            u == [v EXCEPT ![k] = v[n]]
            w == [u EXCEPT ![n] = v[k]]
<1>1. n \in Nat /\ n \in 1 .. n /\ v[n] \in S /\ v[k] \in S
  OBVIOUS
<1>2. u \in Seq(S) /\ Len(u) = n /\ \A i \in 1 .. n : u[i] = IF i = k THEN v[n] ELSE v[i]
  BY <1>1, ExceptSeq
<1>3. w \in Seq(S) /\ Len(w) = n /\ \A i \in 1 .. n : w[i] = IF i = n THEN v[k] ELSE u[i]
  <2>. HIDE DEF u
  <2>1. n \in 1 .. Len(u)
    BY <1>1, <1>2
  <2>. HIDE DEF n
  <2>. QED  BY <1>1, <1>2, <2>1, ExceptSeq
<1>4. Swapped(v, k) = w
  BY DEF Swapped
<1>. HIDE DEF w, u
<1>5. ASSUME NEW i \in 1 .. n PROVE \E j \in 1 .. n : w[j] = v[i]
  <2>1. CASE i = k
    BY <1>1, <1>3, <2>1
  <2>2. CASE i # k /\ i # n
    BY <1>2, <1>3, <2>2
  <2>3. CASE i # k /\ i = n
    BY <1>2, <1>3, <2>3
  <2>. QED  BY <2>1, <2>2, <2>3
<1>. QED  BY <1>1, <1>3, <1>4, <1>5
-----------------------------------------------------------------------------
(* The invariant *)

RegistryOK ==
    /\ conns \in Seq(Clients \cup {Null})
    /\ ids \in Seq(Ids)
    /\ idOf \in Flags(Ids \cup {0})

LinksOK ==
    /\ socket \in Flags({"none", "open", "closed"})
    /\ reads \in Flags(HandlerStates) /\ writes \in Flags(HandlerStates)
    /\ greets \in Flags(BOOLEAN)

\* No more messages are under way to a client than the bound allows, and while one
\* is being written it is still in m_qMessagesOut.
CountsOK ==
    /\ posted \in Flags(Nat) /\ out \in Flags(Nat)
    /\ \A c \in Clients : /\ posted[c] + out[c] <= MaxPosted
                          /\ writes[c] # "none" => out[c] > 0

QueueOK == qIn \in Seq(Clients) /\ Len(qIn) <= MaxQueue

IoOK ==
    \/ io = Idle
    \/ io \in [at : {"push", "name", "close"}, conn : Clients]
    \/ io \in [at : {"register"}, conn : Clients, id : Ids]

MainOK ==
    \/ main = Idle
    \/ main \in [at : {"message"}, remote : Clients]
    \/ main \in [at : {"loop"}, i : Nat \ {0}, ignore : Clients \cup {Null},
                 toRemove : SUBSET Ids]
    \/ main \in [at : {"test", "swap", "pop"}, i : Nat \ {0}, toRemove : SUBSET Ids]

RestOK ==
    /\ reported \in Flags(Nat)
    /\ raced \subseteq Ids
    /\ running \in BOOLEAN
    /\ fault \in {"none", "iterator", "freed", "null", "terminate"}

Typed == RegistryOK /\ LinksOK /\ CountsOK /\ QueueOK /\ IoOK /\ MainOK /\ RestOK

\* A client is in the registry once, and only if it was made.
Unique ==
    /\ \A i, j \in DOMAIN conns : (conns[i] # Null /\ conns[i] = conns[j]) => i = j
    /\ \A i \in DOMAIN conns : conns[i] # Null => socket[conns[i]] # "none"

\* Messages come from clients that were made.
NoStrangers ==
    /\ \A i \in DOMAIN qIn : socket[qIn[i]] # "none"
    /\ main.at = "message" => socket[main.remote] # "none"

\* While a client is being accepted nobody else knows it, and from push_back on it is
\* in the registry, right behind push_back as its last.
Accepted ==
    /\ io.at = "close" => socket[io.conn] # "none"
    /\ Accepting =>
        /\ socket[io.conn] = "open" /\ reported[io.conn] = 0
        /\ \A i \in DOMAIN qIn : qIn[i] # io.conn
        /\ main.at = "message" => main.remote # io.conn
    /\ io.at = "push" => \A i \in DOMAIN conns : conns[i] # io.conn
    /\ io.at \in {"name", "register"} => \E i \in DOMAIN conns : conns[i] = io.conn
    /\ (io.at = "name" /\ fault = "none") => conns # << >> /\ conns[Len(conns)] = io.conn
    /\ io.at = "register" => idOf[io.conn] = io.id

\* A client of the registry has been through connectToClient.
HaveIds == \A c \in Registered : ~Newcomer(c) => idOf[c] \in Ids

\* MessageClient may report a client a second time, and ends in a fault by that.
Reported == ReportedIffRemoved /\ \A c \in Clients : reported[c] <= 2

\* A null in the registry is one the present broadcast has left behind, and that broadcast
\* will clear it away.
NullsVisited ==
    \A i \in DOMAIN conns :
        conns[i] = Null =>
            InIdsLoop \/ (main.at = "loop" /\ i < main.i /\ main.toRemove # {})

\* The id that is going to be swapped with the last is there.
Indexed == main.at = "swap" => main.i \in DOMAIN ids

SInv == Typed /\ Unique /\ NoStrangers /\ Accepted /\ HaveIds /\ Reported /\ NullsVisited /\ Indexed
-----------------------------------------------------------------------------
(* Which actions write which variable *)

\* The registry: push_back, connectToClient, the broadcast and onClientDisconnect.
LEMMA RegistryWriters ==
    Next => /\ conns' = conns \/ PushConnection \/ VisitClient \/ EndBroadcast
            /\ ids' = ids \/ RegisterId \/ MessageClient \/ VisitClient \/ SwapIds \/ PopId
            /\ idOf' = idOf \/ NameConnection
            /\ raced' = raced \/ RegisterId
BY DEF Next, IoStep, MainStep, PushConnection, NameConnection, RegisterId, Close, RunRead,
       RunFailed, RunSend, RunWrite, RunGreeting, RunOnFreed, EndMessage, MessageClient, VisitClient,
       EndVisits, TestId, SwapIds, PopId, EndBroadcast, Update, StartBroadcast, Stop, Accept, CompleteRead, CompleteWrite,
       links, registry

\* A socket is opened by the accept handler and closed by a handler that has met an error,
\* or by the destructor, in one of two places.
LEMMA SocketWriters ==
    Next => socket' = socket \/ Close \/ EndMessage \/ VisitClient \/ \E c \in Clients : Accept(c)
BY DEF Next, IoStep, MainStep, PushConnection, NameConnection, RegisterId, Close, RunRead,
       RunFailed, RunSend, RunWrite, RunGreeting, RunOnFreed, EndMessage, MessageClient, VisitClient,
       EndVisits, TestId, SwapIds, PopId, EndBroadcast, Update, StartBroadcast, Stop, Accept, CompleteRead, CompleteWrite,
       links, registry

\* The outstanding handlers and the messages under way
LEMMA HandlerWriters ==
    Next => 
      /\ \/ reads' = reads \/ NameConnection \/ Close \/ EndMessage \/ VisitClient
         \/ \E c \in Clients : RunRead(c) \/ RunFailed(c) \/ CompleteRead(c)
      /\ \/ writes' = writes \/ Close \/ EndMessage \/ VisitClient
         \/ \E c \in Clients : RunFailed(c) \/ RunSend(c) \/ RunWrite(c) \/ CompleteWrite(c)
      /\ greets' = greets \/ NameConnection \/ \E c \in Clients : RunFailed(c) \/ RunGreeting(c)
      /\ posted' = posted \/ MessageClient \/ VisitClient \/ \E c \in Clients : RunSend(c)
      /\ out' = out \/ \E c \in Clients : RunSend(c) \/ RunWrite(c)
BY DEF Next, IoStep, MainStep, PushConnection, NameConnection, RegisterId, Close, RunRead,
       RunFailed, RunSend, RunWrite, RunGreeting, RunOnFreed, EndMessage, MessageClient, VisitClient,
       EndVisits, TestId, SwapIds, PopId, EndBroadcast, Update, StartBroadcast, Stop, Accept, CompleteRead, CompleteWrite,
       links, registry

\* The queue, what the two threads are in the middle of, and the ghosts
LEMMA OtherWriters ==
    Next =>
      /\ qIn' = qIn \/ Update \/ \E c \in Clients : RunRead(c)
      /\ \/ io' = io \/ PushConnection \/ NameConnection \/ RegisterId \/ Close
         \/ \E c \in Clients : Accept(c) \/ RunFailed(c)
      /\ main' = main \/ MainStep \/ Update \/ StartBroadcast
      /\ reported' = reported \/ MessageClient \/ VisitClient
      /\ running' = running \/ Stop
      /\ \/ fault' = fault \/ PushConnection \/ Close \/ MessageClient \/ VisitClient
         \/ \E c \in Clients : Accept(c) \/ RunOnFreed(c)
BY DEF Next, IoStep, MainStep, PushConnection, NameConnection, RegisterId, Close, RunRead,
       RunFailed, RunSend, RunWrite, RunGreeting, RunOnFreed, EndMessage, MessageClient, VisitClient,
       EndVisits, TestId, SwapIds, PopId, EndBroadcast, Update, StartBroadcast, Stop, Accept, CompleteRead, CompleteWrite,
       links, registry

-----------------------------------------------------------------------------
(* Every step keeps the types *)

\* What the io thread is in the middle of keeps its type.
LEMMA IoTypes == IoOK /\ Next => IoOK'
<1>. SUFFICES ASSUME IoOK, Next PROVE IoOK'
  OBVIOUS
<1>1. CASE io' = io
  BY <1>1 DEF IoOK, Idle
<1>2. CASE PushConnection
  <2>1. io \in [at : {"push", "name", "close"}, conn : Clients] /\ io' = [io EXCEPT !.at = "name"]
    BY <1>2 DEF PushConnection, IoOK, Idle
  <2>. QED  BY <2>1 DEF IoOK
<1>3. CASE NameConnection
  <2>1. io.conn \in Clients
    BY <1>3 DEF NameConnection, IoOK, Idle
  <2>2. PICK id \in Ids : io' = [at |-> "register", conn |-> io.conn, id |-> id]
    BY <1>3 DEF NameConnection
  <2>. QED  BY <2>1, <2>2 DEF IoOK
<1>4. CASE RegisterId \/ Close
  BY <1>4 DEF RegisterId, Close, IoOK, Idle
<1>5. ASSUME NEW c \in Clients, Accept(c) \/ RunFailed(c) PROVE IoOK'
  BY <1>5 DEF Accept, RunFailed, IoOK, Idle
<1>. QED  BY <1>1, <1>2, <1>3, <1>4, <1>5, OtherWriters

\* m_qMessagesIn keeps its type and its bound.
LEMMA QueueTypes == QueueOK /\ Next => QueueOK'
<1>. SUFFICES ASSUME QueueOK, Next PROVE QueueOK'
  OBVIOUS
<1>1. CASE qIn' = qIn
  BY <1>1 DEF QueueOK
<1>2. CASE Update
  <2>1. qIn \in Seq(Clients) /\ qIn # << >> /\ qIn' = Tail(qIn)
    BY <1>2 DEF Update, QueueOK
  <2>. QED  BY <2>1, ServerAssumption DEF QueueOK
<1>3. ASSUME NEW c \in Clients, RunRead(c) PROVE QueueOK'
  <2>1. qIn' = qIn \/ (qIn' = Append(qIn, c) /\ Len(qIn) < MaxQueue)
    BY <1>3 DEF RunRead
  <2>. QED  BY <2>1, ServerAssumption DEF QueueOK
<1>. QED  BY <1>1, <1>2, <1>3, OtherWriters

\* What the main thread is in the middle of keeps its type: the id of a client that
\* messageAllClients drops is one that generateUniqueID drew.
LEMMA MainTypes ==
    MainOK /\ QueueOK /\ RegistryOK /\ HaveIds /\ Accepted /\ Unique /\ LinksOK /\ Next => MainOK'
<1>. SUFFICES ASSUME MainOK, QueueOK, RegistryOK, HaveIds, Accepted, Unique, LinksOK, Next
              PROVE  MainOK'
  OBVIOUS
<1>1. CASE main' = main
  BY <1>1 DEF MainOK, Idle
<1>2. CASE main' = Idle
  BY <1>2 DEF MainOK, Idle
<1>3. CASE Update
  BY <1>3 DEF Update, QueueOK, MainOK
<1>4. CASE StartBroadcast
  BY <1>4 DEF StartBroadcast, MainOK
<1>5. CASE VisitClient
  <2>1. main \in [at : {"loop"}, i : Nat \ {0}, ignore : Clients \cup {Null}, toRemove : SUBSET Ids]
    BY <1>5 DEF VisitClient, MainOK, Idle
  <2>. DEFINE c == conns[main.i]
  <2>2. CASE main' = [main EXCEPT !.i = @ + 1]
    BY <2>1, <2>2 DEF MainOK
  <2>3. CASE /\ c # Null /\ socket[c] # "open"
             /\ main' = [main EXCEPT !.i = @ + 1, !.toRemove = @ \cup {idOf[c]}]
    <3>1. main.i \in DOMAIN conns /\ c \in Clients
      BY <1>5, <2>1, <2>3 DEF VisitClient, RegistryOK
    <3>2. c \in Registered /\ ~Newcomer(c)
      BY <2>3, <3>1 DEF Registered, Newcomer, Accepted
    <3>3. idOf[c] \in Ids
      BY <3>2 DEF HaveIds
    <3>4. main.i + 1 \in Nat \ {0} /\ main.toRemove \cup {idOf[c]} \in SUBSET Ids
      BY <2>1, <3>3
    <3>5. main' = [at |-> "loop", i |-> main.i + 1, ignore |-> main.ignore,
                   toRemove |-> main.toRemove \cup {idOf[c]}]
      BY <2>1, <2>3
    <3>. QED  BY <2>1, <3>4, <3>5 DEF MainOK
  <2>. QED  BY <1>1, <1>5, <2>2, <2>3 DEF VisitClient
<1>6. CASE EndVisits /\ main' # Idle
  <2>1. main' = [at |-> "test", i |-> 1, toRemove |-> main.toRemove] /\ main.toRemove \in SUBSET Ids
    BY <1>6 DEF EndVisits, MainOK, Idle
  <2>. QED  BY <2>1 DEF MainOK
<1>7. CASE TestId \/ SwapIds \/ PopId
  <2>1. main \in [at : {"test", "swap", "pop"}, i : Nat \ {0}, toRemove : SUBSET Ids]
    BY <1>7 DEF TestId, SwapIds, PopId, MainOK, Idle
  <2>2. \E p \in {"test", "swap", "pop"} : \E k \in {main.i, main.i + 1} :
           main' = [at |-> p, i |-> k, toRemove |-> main.toRemove]
    BY <1>7, <2>1 DEF TestId, SwapIds, PopId
  <2>3. main.i + 1 \in Nat \ {0}
    BY <2>1
  <2>. QED  BY <2>1, <2>2, <2>3 DEF MainOK
<1>. QED
  <2>1. MainStep => \/ main' = main \/ main' = Idle \/ VisitClient \/ (EndVisits /\ main' # Idle)
                    \/ TestId \/ SwapIds \/ PopId
    BY DEF MainStep, EndMessage, MessageClient, EndBroadcast
  <2>. QED  BY <1>1, <1>2, <1>3, <1>4, <1>5, <1>6, <1>7, <2>1, OtherWriters

\* The calls of onClientDisconnect, the flag of stop() and the fault keep their types.
LEMMA RestTypes ==
    RestOK /\ IoOK /\ MainOK /\ RegistryOK /\ Next => RestOK'
<1>. SUFFICES ASSUME RestOK, IoOK, MainOK, RegistryOK, Next PROVE RestOK'
  OBVIOUS
<1>1. reported' \in Flags(Nat)
  <2>1. CASE reported' = reported
    BY <2>1 DEF RestOK
  <2>2. ASSUME NEW c, reported' = [reported EXCEPT ![c] = @ + 1] PROVE reported' \in Flags(Nat)
    <3>1. CASE c \in Clients
      BY <2>2, <3>1 DEF RestOK, Flags
    <3>2. CASE c \notin Clients
      BY <2>2, <3>2 DEF RestOK, Flags
    <3>. QED  BY <3>1, <3>2
  <2>. QED  BY <2>1, <2>2, OtherWriters DEF MessageClient, VisitClient
<1>2. running' \in BOOLEAN
  BY OtherWriters DEF RestOK, Stop
<1>3. fault' \in {"none", "iterator", "freed", "null", "terminate"}
  BY OtherWriters DEF RestOK, PushConnection, Close, MessageClient, VisitClient, Accept, RunOnFreed
<1>4. raced' \subseteq Ids
  <2>1. CASE RegisterId
    <3>1. io.id \in Ids /\ raced' \subseteq raced \cup {io.id}
      BY <2>1 DEF RegisterId, IoOK, Idle
    <3>. QED  BY <3>1 DEF RestOK
  <2>. QED  BY <2>1, RegistryWriters DEF RestOK
<1>. QED  BY <1>1, <1>2, <1>3, <1>4 DEF RestOK

\* The registry keeps its types through both loops over it.
LEMMA RegistryTypes == RegistryOK /\ IoOK /\ MainOK /\ Indexed /\ Next => RegistryOK'
<1>. SUFFICES ASSUME RegistryOK, IoOK, MainOK, Indexed, Next PROVE RegistryOK'
  OBVIOUS
<1>1. conns' \in Seq(Clients \cup {Null})
  <2>1. CASE PushConnection
    <3>1. io.conn \in Clients /\ conns' = Append(conns, io.conn)
      BY <2>1 DEF PushConnection, IoOK, Idle
    <3>. QED  BY <3>1 DEF RegistryOK
  <2>2. CASE VisitClient /\ conns' # conns
    <3>1. conns' = [conns EXCEPT ![main.i] = Null]
      BY <2>2 DEF VisitClient, Dropped
    <3>2. main.i \in 1 .. Len(conns)
      BY <2>2 DEF VisitClient, MainOK, RegistryOK, Idle
    <3>. QED  BY <3>1, <3>2, ExceptSeq DEF RegistryOK
  <2>3. CASE EndBroadcast
    BY <2>3, WithoutKept DEF EndBroadcast, RegistryOK, NonNull
  <2>. QED  BY <2>1, <2>2, <2>3, RegistryWriters DEF RegistryOK
<1>2. ids' \in Seq(Ids)
  <2>1. CASE RegisterId
    <3>1. io.id \in Ids /\ ids' = Append(ids, io.id)
      BY <2>1 DEF RegisterId, IoOK, Idle
    <3>. QED  BY <3>1 DEF RegistryOK
  <2>2. ASSUME NEW id, ids' = Hook(ids, id) PROVE ids' \in Seq(Ids)
    BY <2>2, WithoutKept DEF Hook, RegistryOK
  <2>3. CASE SwapIds
    <3>1. main.i \in 1 .. Len(ids) /\ ids' = Swapped(ids, main.i)
      BY <2>3 DEF SwapIds, Indexed, RegistryOK
    <3>. QED  BY <3>1, SwappedKeeps DEF RegistryOK
  <2>5. CASE PopId
    BY <2>5 DEF PopId, RegistryOK
  <2>4. MessageClient \/ VisitClient => ids' = ids \/ \E id : ids' = Hook(ids, id)
    BY DEF MessageClient, VisitClient
  <2>. QED  BY <2>1, <2>2, <2>3, <2>4, <2>5, RegistryWriters DEF RegistryOK
<1>3. idOf' \in Flags(Ids \cup {0})
  <2>1. CASE NameConnection
    <3>1. PICK id, c : id \in Ids /\ idOf' = [idOf EXCEPT ![c] = id]
      BY <2>1 DEF NameConnection
    <3>. QED  BY <3>1 DEF RegistryOK, Flags
  <2>. QED  BY <2>1, RegistryWriters DEF RegistryOK
<1>. QED  BY <1>1, <1>2, <1>3 DEF RegistryOK

\* The sockets and the outstanding handlers keep their types.
LEMMA LinksTypes == LinksOK /\ Next => LinksOK'
<1>. SUFFICES ASSUME LinksOK, Next PROVE LinksOK'
  OBVIOUS
<1>1. socket' \in Flags({"none", "open", "closed"})
  <2>1. \/ socket' = socket
        \/ \E c : socket' = [socket EXCEPT ![c] = "open"] \/ socket' = [socket EXCEPT ![c] = "closed"]
    BY SocketWriters DEF Close, EndMessage, VisitClient, Destroyed, Accept
  <2>. QED  BY <2>1 DEF LinksOK, Flags
<1>2. \A c : StartOp(c) \in HandlerStates
  BY DEF StartOp, HandlerStates
<1>3. reads' \in Flags(HandlerStates)
  <2>1. \/ reads' = reads
        \/ \E c : \E r \in HandlerStates : reads' = [reads EXCEPT ![c] = r]
        \/ \E c : reads' = [reads EXCEPT ![c] = Aborted(@)]
    BY <1>2, HandlerWriters
    DEF NameConnection, Close, EndMessage, VisitClient, Destroyed, RunRead, RunFailed, CompleteRead,
        HandlerStates
  <2>. QED  BY <2>1 DEF LinksOK, Flags, Aborted, HandlerStates
<1>4. writes' \in Flags(HandlerStates)
  <2>1. \/ writes' = writes
        \/ \E c : \E r \in HandlerStates : writes' = [writes EXCEPT ![c] = r]
        \/ \E c : writes' = [writes EXCEPT ![c] = Aborted(@)]
    BY <1>2, HandlerWriters
    DEF Close, EndMessage, VisitClient, Destroyed, RunSend, RunWrite, RunFailed, CompleteWrite,
        NextWrite, HandlerStates
  <2>. QED  BY <2>1 DEF LinksOK, Flags, Aborted, HandlerStates
<1>5. greets' \in Flags(BOOLEAN)
  <2>1. greets' = greets \/ \E c : \E b \in BOOLEAN : greets' = [greets EXCEPT ![c] = b]
    BY HandlerWriters DEF NameConnection, RunFailed, RunGreeting
  <2>. QED  BY <2>1 DEF LinksOK, Flags
<1>. QED  BY <1>1, <1>3, <1>4, <1>5 DEF LinksOK

\* No send is lost or made up between the two queues of a Connection, and a write that
\* is outstanding has its message at the front of m_qMessagesOut.
LEMMA CountsTypes ==
    CountsOK /\ LinksOK /\ MainOK /\ RegistryOK /\ IoOK /\ Next => CountsOK'
<1>. SUFFICES ASSUME CountsOK, LinksOK, MainOK, RegistryOK, IoOK, Next PROVE CountsOK'
  OBVIOUS
<1>1. CASE posted' = posted /\ out' = out /\ \A c \in Clients : writes'[c] # "none" => writes[c] # "none"
  BY <1>1 DEF CountsOK
<1>2. CASE Close \/ EndMessage \/ (VisitClient /\ posted' = posted)
  <2>1. posted' = posted /\ out' = out
    BY <1>2 DEF Close, EndMessage, VisitClient
  <2>2. writes' = writes \/ \E c : writes' = [writes EXCEPT ![c] = Aborted(@)]
    BY <1>2 DEF Close, EndMessage, VisitClient, Destroyed
  <2>3. \A c \in Clients : writes'[c] # "none" => writes[c] # "none"
    BY <2>2 DEF LinksOK, Flags, Aborted
  <2>. QED  BY <1>1, <2>1, <2>3
<1>3. ASSUME NEW c \in Clients, post(c), ~AtBound(c), writes' = writes, out' = out PROVE CountsOK'
  <2>1. posted' = [posted EXCEPT ![c] = posted[c] + 1]
    BY <1>3 DEF post
  <2>2. posted' \in Flags(Nat) /\ \A d \in Clients : posted'[d] = IF d = c THEN posted[c] + 1 ELSE posted[d]
    BY <2>1 DEF CountsOK, Flags
  <2>3. posted[c] + out[c] < MaxPosted
    <3>1. posted[c] \in Nat /\ out[c] \in Nat /\ posted[c] + out[c] <= MaxPosted
      BY DEF CountsOK, Flags
    <3>. QED  BY <1>3, <3>1, ServerAssumption DEF AtBound
  <2>4. ASSUME NEW d \in Clients PROVE posted'[d] + out'[d] <= MaxPosted
    <3>1. posted[d] \in Nat /\ out[d] \in Nat /\ posted[d] + out[d] <= MaxPosted
      BY DEF CountsOK, Flags
    <3>. QED  BY <1>3, <2>2, <2>3, <3>1, ServerAssumption
  <2>. QED  BY <1>3, <2>2, <2>4 DEF CountsOK
<1>4. CASE MessageClient \/ VisitClient
  <2>1. CASE posted' = posted
    BY <1>1, <1>2, <1>4, <2>1 DEF MessageClient
  <2>2. CASE posted' # posted
    <3>1. out' = out /\ writes' = writes
      BY <1>4, <2>2 DEF MessageClient, VisitClient
    <3>2. MessageClient => main.remote \in Clients /\ post(main.remote) /\ ~AtBound(main.remote)
      BY <2>2 DEF MessageClient, MainOK, Idle
    <3>3. VisitClient => LET c == conns[main.i] IN c \in Clients /\ post(c) /\ ~AtBound(c)
      <4>1. VisitClient => main.i \in DOMAIN conns
        BY DEF VisitClient, MainOK, RegistryOK, Idle
      <4>. QED  BY <2>2, <4>1 DEF VisitClient, RegistryOK
    <3>. QED  BY <1>3, <1>4, <3>1, <3>2, <3>3
  <2>. QED  BY <2>1, <2>2
<1>5. ASSUME NEW c \in Clients, RunSend(c) PROVE CountsOK'
  <2>1. /\ posted' = [posted EXCEPT ![c] = posted[c] - 1] /\ out' = [out EXCEPT ![c] = out[c] + 1]
        /\ posted[c] > 0
        /\ \A d \in Clients : d # c => writes'[d] = writes[d]
    BY <1>5 DEF RunSend, LinksOK, Flags
  <2>2. /\ posted[c] \in Nat /\ out[c] \in Nat /\ posted[c] - 1 \in Nat /\ out[c] + 1 \in Nat
        /\ out[c] + 1 > 0 /\ (posted[c] - 1) + (out[c] + 1) <= MaxPosted
    <3>1. posted[c] \in Nat /\ out[c] \in Nat /\ posted[c] + out[c] <= MaxPosted
      BY DEF CountsOK, Flags
    <3>. QED  BY <2>1, <3>1, ServerAssumption
  <2>3. posted' \in Flags(Nat) /\ out' \in Flags(Nat)
    BY <2>1, <2>2 DEF CountsOK, Flags
  <2>4. ASSUME NEW d \in Clients
        PROVE  posted'[d] + out'[d] <= MaxPosted /\ (writes'[d] # "none" => out'[d] > 0)
    BY <2>1, <2>2 DEF CountsOK, Flags
  <2>. QED  BY <2>3, <2>4 DEF CountsOK
<1>6. ASSUME NEW c \in Clients, RunWrite(c) PROVE CountsOK'
  <2>1. CASE out' = out /\ writes' = [writes EXCEPT ![c] = StartOp(c)]
    BY <1>1, <1>6, <2>1 DEF RunWrite, LinksOK, Flags
  <2>2. CASE out' = [out EXCEPT ![c] = out[c] - 1] /\ writes' = [writes EXCEPT ![c] = NextWrite(c)]
    <3>1. posted[c] \in Nat /\ out[c] \in Nat /\ out[c] > 0 /\ posted[c] + out[c] <= MaxPosted
      BY <1>6 DEF CountsOK, Flags, RunWrite
    <3>2. /\ out[c] - 1 \in Nat /\ posted[c] + (out[c] - 1) <= MaxPosted
          /\ NextWrite(c) # "none" => out[c] - 1 > 0
      BY <3>1, ServerAssumption DEF NextWrite
    <3>3. posted' = posted
      BY <1>6 DEF RunWrite
    <3>4. out' \in Flags(Nat)
      BY <2>2, <3>2 DEF CountsOK, Flags
    <3>5. ASSUME NEW d \in Clients
          PROVE  posted'[d] + out'[d] <= MaxPosted /\ (writes'[d] # "none" => out'[d] > 0)
      BY <2>2, <3>2, <3>3 DEF CountsOK, LinksOK, Flags
    <3>. QED  BY <3>3, <3>4, <3>5 DEF CountsOK
  <2>. QED  BY <1>6, <2>1, <2>2 DEF RunWrite
<1>7. ASSUME NEW c \in Clients, RunFailed(c) \/ CompleteWrite(c) PROVE CountsOK'
  <2>1. \A d \in Clients : writes'[d] # "none" => writes[d] # "none"
    BY <1>7 DEF RunFailed, CompleteWrite, LinksOK, Flags
  <2>. QED  BY <1>1, <1>7, <2>1 DEF RunFailed, CompleteWrite
<1>. QED  BY <1>1, <1>2, <1>4, <1>5, <1>6, <1>7, HandlerWriters

\* Every step keeps every type.
LEMMA TypesNext == SInv /\ Next => Typed'
BY IoTypes, QueueTypes, MainTypes, RestTypes, RegistryTypes, LinksTypes, CountsTypes DEF SInv, Typed

-----------------------------------------------------------------------------
(* Every step keeps the rest of the invariant *)

\* A socket opens for a client nobody knew, and closes for one that was made and is not
\* being accepted.
Opens(c) ==
    /\ socket[c] = "none" /\ io = Idle
    /\ socket' = [socket EXCEPT ![c] = "open"]
    /\ io' = [at |-> "push", conn |-> c]
    /\ UNCHANGED <<conns, idOf, qIn, main, reported, fault>>

Closes(c) ==
    /\ socket[c] # "none" /\ (Accepting => io.conn # c)
    /\ socket' = [socket EXCEPT ![c] = "closed"]

\* Every step leaves the sockets alone, opens one or closes one.
LEMMA SocketSteps ==
    SInv /\ Next => socket' = socket \/ \E c \in Clients : Opens(c) \/ Closes(c)
<1>. SUFFICES ASSUME SInv, Next PROVE socket' = socket \/ \E c \in Clients : Opens(c) \/ Closes(c)
  OBVIOUS
<1>1. CASE Close /\ socket' # socket
  <2>1. io.conn \in Clients
    BY <1>1 DEF Close, SInv, Typed, IoOK, Idle
  <2>2. Closes(io.conn)
    BY <1>1 DEF Closes, Close, SInv, Accepted, Accepting
  <2>. QED  BY <2>1, <2>2
<1>2. CASE EndMessage /\ socket' # socket
  <2>1. main.remote \in Clients
    BY <1>2 DEF EndMessage, SInv, Typed, MainOK, Idle
  <2>2. Closes(main.remote)
    BY <1>2 DEF Closes, EndMessage, Destroyed, SInv, Accepted, NoStrangers
  <2>. QED  BY <2>1, <2>2
<1>3. CASE VisitClient /\ socket' # socket
  <2>. DEFINE c == conns[main.i]
  <2>1. c # Null /\ socket[c] # "open" /\ socket' = [socket EXCEPT ![c] = "closed"]
    BY <1>3 DEF VisitClient, Destroyed
  <2>2. main.i \in DOMAIN conns
    BY <1>3 DEF VisitClient, SInv, Typed, MainOK, RegistryOK, Idle
  <2>3. c \in Clients /\ socket[c] # "none"
    BY <2>1, <2>2 DEF SInv, Typed, RegistryOK, Unique
  <2>4. Closes(c)
    BY <2>1, <2>3 DEF Closes, SInv, Accepted
  <2>. QED  BY <2>3, <2>4
<1>4. ASSUME NEW c \in Clients, Accept(c), socket' # socket PROVE Opens(c)
  BY <1>4 DEF Accept, Opens, registry
<1>. QED  BY <1>1, <1>2, <1>3, <1>4, SocketWriters

\* A Connection that was made stays made.
LEMMA MadeStays ==
    SInv /\ Next => \A c \in Clients : socket[c] # "none" => socket'[c] # "none"
BY SocketSteps DEF Opens, Closes, SInv, Typed, LinksOK, Flags

\* The step of the broadcast that drops a client.
Drops(i) ==
    /\ main.at = "loop" /\ i = main.i /\ i \in DOMAIN conns /\ conns[i] \in Clients
    /\ socket[conns[i]] = "closed"
    /\ main' = [main EXCEPT !.i = @ + 1, !.toRemove = @ \cup {idOf[conns[i]]}]
    /\ reported' = [reported EXCEPT ![conns[i]] = @ + 1]
    /\ ids' = Hook(ids, idOf[conns[i]])
    /\ conns' = [conns EXCEPT ![i] = Null]
    /\ UNCHANGED <<idOf, qIn, io, fault>>

\* A round of the range-for drops a client, goes on, or meets a null.
LEMMA VisitSteps ==
    SInv /\ VisitClient =>
        \/ Drops(main.i)
        \/ /\ UNCHANGED <<registry, socket, reported, qIn, io, fault>>
           /\ main.at = "loop" /\ main' = [main EXCEPT !.i = @ + 1]
           /\ conns[main.i] # Null
        \/ fault' = "null" /\ UNCHANGED <<registry, socket, reported, qIn, io, main>>
<1>. SUFFICES ASSUME SInv, VisitClient PROVE
        \/ Drops(main.i)
        \/ /\ UNCHANGED <<registry, socket, reported, qIn, io, fault>>
           /\ main.at = "loop" /\ main' = [main EXCEPT !.i = @ + 1]
           /\ conns[main.i] # Null
        \/ fault' = "null" /\ UNCHANGED <<registry, socket, reported, qIn, io, main>>
  OBVIOUS
<1>. DEFINE c == conns[main.i]
<1>1. main.i \in DOMAIN conns
  BY DEF VisitClient, SInv, Typed, MainOK, RegistryOK, Idle
<1>2. CASE c # Null /\ socket[c] # "open"
  <2>1. c \in Clients /\ socket[c] = "closed"
    BY <1>1, <1>2 DEF SInv, Typed, RegistryOK, Unique, LinksOK, Flags
  <2>. QED  BY <1>1, <1>2, <2>1 DEF VisitClient, Drops, Dropped
<1>3. CASE c # Null /\ socket[c] = "open"
  BY <1>3 DEF VisitClient, registry
<1>4. CASE c = Null
  BY <1>4 DEF VisitClient, registry
<1>. QED  BY <1>2, <1>3, <1>4

\* What the end of a broadcast leaves of the registry
LEMMA EndKeeps ==
    SInv /\ EndBroadcast =>
        /\ conns' \in Seq(Clients \cup {Null})
        /\ \A k \in DOMAIN conns' : conns'[k] # Null /\ \E i \in DOMAIN conns : conns[i] = conns'[k]
        /\ \A i \in DOMAIN conns : conns[i] # Null => \E k \in DOMAIN conns' : conns'[k] = conns[i]
        /\ \A k, l \in DOMAIN conns' : conns'[k] = conns'[l] => k = l
        /\ (conns # << >> /\ conns[Len(conns)] # Null) =>
               conns' # << >> /\ conns'[Len(conns')] = conns[Len(conns)]
<1>. SUFFICES ASSUME SInv, EndBroadcast PROVE
        /\ conns' \in Seq(Clients \cup {Null})
        /\ \A k \in DOMAIN conns' : conns'[k] # Null /\ \E i \in DOMAIN conns : conns[i] = conns'[k]
        /\ \A i \in DOMAIN conns : conns[i] # Null => \E k \in DOMAIN conns' : conns'[k] = conns[i]
        /\ \A k, l \in DOMAIN conns' : conns'[k] = conns'[l] => k = l
        /\ (conns # << >> /\ conns[Len(conns)] # Null) =>
               conns' # << >> /\ conns'[Len(conns')] = conns[Len(conns)]
  OBVIOUS
<1>0. conns \in Seq(Clients \cup {Null})
  BY DEF SInv, Typed, RegistryOK
<1>1. \A i, j \in DOMAIN conns : (conns[i] # Null /\ conns[i] = conns[j]) => i = j
  BY DEF SInv, Unique
<1>2. CASE conns' = Without(conns, Null)
  BY <1>0, <1>1, <1>2, WithoutKept
<1>3. CASE conns' = conns /\ \A i \in DOMAIN conns : conns[i] # Null
  BY <1>0, <1>1, <1>3
<1>. QED  BY <1>2, <1>3 DEF EndBroadcast, NonNull, SInv, NullsVisited

\* A shared_ptr points to a Connection that was made.
LEMMA AliveMade == SInv => \A c \in Clients : Alive(c) => socket[c] # "none"
<1>. SUFFICES ASSUME SInv, NEW c \in Clients, Alive(c) PROVE socket[c] # "none"
  OBVIOUS
<1>1. CASE \E i \in DOMAIN conns : conns[i] = c
  <2>1. c # Null
    BY ServerAssumption
  <2>. QED  BY <1>1, <2>1 DEF SInv, Unique
<1>2. CASE \E i \in DOMAIN qIn : qIn[i] = c
  BY <1>2 DEF SInv, NoStrangers
<1>3. CASE c \in MainRemote
  BY <1>3 DEF MainRemote, SInv, NoStrangers
<1>. QED  BY <1>1, <1>2, <1>3 DEF Alive

\* The steps that take ids out lead to one another, or out of the broadcast.
LEMMA IdsLoopSteps ==
    SInv /\ (EndVisits \/ TestId \/ SwapIds \/ PopId) =>
        /\ InIdsLoop' \/ main' = Idle
        /\ UNCHANGED <<conns, idOf, raced, links, qIn, io, reported, running, fault>>
        /\ main.at = "loop" \/ InIdsLoop
        /\ InIdsLoop => InIdsLoop' /\ main'.toRemove = main.toRemove
<1>. SUFFICES ASSUME SInv, EndVisits \/ TestId \/ SwapIds \/ PopId
              PROVE  /\ InIdsLoop' \/ main' = Idle
                     /\ UNCHANGED <<conns, idOf, raced, links, qIn, io, reported, running, fault>>
                     /\ main.at = "loop" \/ InIdsLoop
                     /\ InIdsLoop => InIdsLoop' /\ main'.toRemove = main.toRemove
  OBVIOUS
<1>1. CASE EndVisits
  BY <1>1 DEF EndVisits, InIdsLoop, registry
<1>2. CASE TestId \/ SwapIds \/ PopId
  <2>1. main \in [at : {"test", "swap", "pop"}, i : Nat \ {0}, toRemove : SUBSET Ids]
    BY <1>2 DEF TestId, SwapIds, PopId, SInv, Typed, MainOK, Idle
  <2>2. \E p \in {"test", "swap", "pop"} : \E k \in {main.i, main.i + 1} :
           main' = [at |-> p, i |-> k, toRemove |-> main.toRemove]
    BY <1>2, <2>1 DEF TestId, SwapIds, PopId
  <2>3. main'.at \in {"test", "swap", "pop"} /\ main'.toRemove = main.toRemove
    BY <2>2
  <2>. QED  BY <1>2, <2>1, <2>3 DEF TestId, SwapIds, PopId, InIdsLoop, registry
<1>. QED  BY <1>1, <1>2

\* No step registers a client twice.
LEMMA UniqueNext == SInv /\ Next => Unique'
<1>. SUFFICES ASSUME SInv, Next PROVE Unique'
  OBVIOUS
<1>0. /\ Unique /\ conns \in Seq(Clients \cup {Null})
      /\ \A c \in Clients : socket[c] # "none" => socket'[c] # "none"
  BY MadeStays DEF SInv, Typed, RegistryOK
<1>1. CASE conns' = conns
  BY <1>0, <1>1 DEF Unique
<1>2. CASE PushConnection
  <2>1. conns' = Append(conns, io.conn) /\ socket' = socket
    BY <1>2 DEF PushConnection, links
  <2>2. io.conn \in Clients /\ socket[io.conn] = "open" /\ \A i \in DOMAIN conns : conns[i] # io.conn
    BY <1>2 DEF PushConnection, SInv, Typed, IoOK, Idle, Accepted, Accepting
  <2>. QED  BY <1>0, <2>1, <2>2 DEF Unique
<1>3. CASE \E i \in DOMAIN conns : Drops(i)
  <2>1. PICK i \in DOMAIN conns : conns' = [conns EXCEPT ![i] = Null]
    BY <1>3 DEF Drops
  <2>2. DOMAIN conns' = DOMAIN conns /\ \A j \in DOMAIN conns : conns'[j] = IF j = i THEN Null ELSE conns[j]
    BY <1>0, <2>1
  <2>. QED  BY <1>0, <2>2 DEF Unique
<1>4. CASE EndBroadcast
  <2>1. /\ \A k \in DOMAIN conns' : conns'[k] # Null /\ \E i \in DOMAIN conns : conns[i] = conns'[k]
        /\ \A k, l \in DOMAIN conns' : conns'[k] = conns'[l] => k = l
    BY <1>4, EndKeeps
  <2>2. socket' = socket
    BY <1>4 DEF EndBroadcast, links
  <2>. QED  BY <1>0, <2>1, <2>2 DEF Unique
<1>. QED  BY <1>1, <1>2, <1>3, <1>4, VisitSteps, RegistryWriters DEF registry, Drops

\* No step brings in a message of a client that was not made.
LEMMA NoStrangersNext == SInv /\ Next => NoStrangers'
<1>. SUFFICES ASSUME SInv, Next PROVE NoStrangers'
  OBVIOUS
<1>0. /\ qIn \in Seq(Clients) /\ NoStrangers
      /\ \A c \in Clients : socket[c] # "none" => socket'[c] # "none"
  BY MadeStays DEF SInv, Typed, QueueOK
<1>1. \A i \in DOMAIN qIn' : socket'[qIn'[i]] # "none"
  <2>1. CASE qIn' = qIn
    BY <1>0, <2>1 DEF NoStrangers
  <2>2. CASE Update
    <3>1. qIn' = Tail(qIn) /\ qIn # << >>
      BY <2>2 DEF Update
    <3>. QED  BY <1>0, <3>1 DEF NoStrangers
  <2>3. ASSUME NEW c \in Clients, RunRead(c) PROVE \A i \in DOMAIN qIn' : socket'[qIn'[i]] # "none"
    <3>1. socket[c] # "none"
      BY <2>3, AliveMade DEF RunRead, CanRun
    <3>2. qIn' = qIn \/ qIn' = Append(qIn, c)
      BY <2>3 DEF RunRead
    <3>. QED  BY <1>0, <3>1, <3>2 DEF NoStrangers
  <2>. QED  BY <2>1, <2>2, <2>3, OtherWriters
<1>2. main'.at = "message" => socket'[main'.remote] # "none"
  <2>1. CASE main' = main
    BY <1>0, <2>1 DEF NoStrangers, SInv, Typed, MainOK, Idle
  <2>2. CASE Update
    BY <1>0, <2>2 DEF Update, NoStrangers
  <2>3. CASE main' # main /\ ~Update
    <3>1. CASE main' = Idle \/ StartBroadcast
      BY <3>1 DEF StartBroadcast, Idle
    <3>2. CASE VisitClient
      <4>1. main.at = "loop" /\ main'.at = main.at
        BY <2>3, <3>2, VisitSteps DEF Drops, SInv, Typed, MainOK, Idle
      <4>. QED  BY <4>1
    <3>3. CASE EndVisits \/ TestId \/ SwapIds \/ PopId
      BY <3>3, IdsLoopSteps DEF InIdsLoop, Idle
    <3>. QED
      BY <1>0, <2>3, <3>1, <3>2, <3>3, OtherWriters DEF MainStep, EndMessage, MessageClient, EndBroadcast
  <2>. QED  BY <2>1, <2>2, <2>3
<1>. QED  BY <1>1, <1>2 DEF NoStrangers

\* A client that is being accepted stays unknown to the queue and to onMessage, and stays
\* where push_back put it, whatever the main thread does to the registry.
LEMMA AcceptedNext == SInv /\ Next => Accepted'
<1>. SUFFICES ASSUME SInv, Next PROVE Accepted'
  OBVIOUS
<1>. USE DEF Accepting
<1>0. /\ Accepted /\ fault = "none" /\ IoOK /\ MainOK
      /\ conns \in Seq(Clients \cup {Null}) /\ qIn \in Seq(Clients) /\ LinksOK /\ RegistryOK
      /\ reported \in Flags(Nat)
  BY DEF SInv, Typed, RegistryOK, QueueOK, RestOK, Next
<1>1. CASE io'.at \notin {"push", "name", "register"}
  <2>1. io'.at = "close" => socket'[io'.conn] # "none"
    <3>1. CASE io' = io
      <4>1. io.at = "close" => io.conn \in Clients
        BY <1>0 DEF IoOK, Idle
      <4>. QED  BY <1>0, <3>1, <4>1, MadeStays DEF Accepted
    <3>2. ASSUME NEW c \in Clients, RunFailed(c) PROVE socket'[io'.conn] # "none"
      BY <3>2, AliveMade DEF RunFailed, CanRun
    <3>3. ASSUME ~\E c \in Clients : RunFailed(c), io' # io PROVE io'.at # "close"
      <4>1. PushConnection => io'.at = "name"
        BY <1>0 DEF PushConnection, IoOK, Idle
      <4>. QED  BY <1>1, <3>3, <4>1, OtherWriters DEF NameConnection, RegisterId, Close, Accept, Idle
    <3>. QED  BY <3>1, <3>2, <3>3
  <2>. QED  BY <1>1, <2>1 DEF Accepted
<1>2. ASSUME NEW c \in Clients, Accept(c), io' # io PROVE Accepted'
  <2>1. Opens(c)
    BY <1>2 DEF Accept, Opens, registry
  <2>2. socket'[c] = "open" /\ io'.at = "push" /\ io'.conn = c /\ socket[c] = "none"
    BY <1>0, <2>1 DEF Opens, LinksOK, Flags
  <2>3. reported'[c] = 0
    <3>1. c \notin Registered
      BY <2>2, ServerAssumption DEF Registered, SInv, Unique
    <3>. QED  BY <1>0, <2>1, <2>2, <3>1 DEF Opens, SInv, Reported, ReportedIffRemoved
  <2>4. \A i \in DOMAIN qIn' : qIn'[i] # c
    BY <2>1, <2>2 DEF Opens, SInv, NoStrangers
  <2>5. main'.at = "message" => main'.remote # c
    BY <2>1, <2>2 DEF Opens, SInv, NoStrangers
  <2>6. \A i \in DOMAIN conns' : conns'[i] # c
    BY <2>1, <2>2, ServerAssumption DEF Opens, SInv, Unique
  <2>. QED  BY <2>2, <2>3, <2>4, <2>5, <2>6 DEF Accepted
<1>3. CASE PushConnection
  <2>1. io \in [at : {"push", "name", "close"}, conn : Clients] /\ io.at = "push" /\ io' = [io EXCEPT !.at = "name"]
    BY <1>0, <1>3 DEF PushConnection, IoOK, Idle
  <2>2. io'.at = "name" /\ io'.conn = io.conn
    BY <2>1
  <2>3. /\ conns' = Append(conns, io.conn)
        /\ UNCHANGED <<socket, reported, qIn, main, idOf>>
    BY <1>3 DEF PushConnection, links
  <2>4. Len(conns') \in DOMAIN conns' /\ conns' # << >> /\ conns'[Len(conns')] = io.conn
    BY <1>0, <2>1, <2>3
  <2>. QED  BY <1>0, <2>1, <2>2, <2>3, <2>4 DEF Accepted
<1>4. CASE NameConnection
  <2>1. PICK id \in Ids : /\ idOf' = [idOf EXCEPT ![conns[Len(conns)]] = id]
                          /\ io' = [at |-> "register", conn |-> io.conn, id |-> id]
    BY <1>4 DEF NameConnection
  <2>2. io.at = "name" /\ io.conn \in Clients /\ UNCHANGED <<conns, socket, reported, qIn, main>>
    BY <1>0, <1>4 DEF NameConnection, IoOK, Idle
  <2>3. idOf'[io.conn] = id
    <3>1. conns[Len(conns)] = io.conn
      BY <1>0, <2>2 DEF Accepted
    <3>. QED  BY <1>0, <2>1, <2>2, <3>1 DEF RegistryOK, Flags
  <2>4. io'.at = "register" /\ io'.conn = io.conn /\ io'.id = id
    BY <2>1
  <2>. QED  BY <1>0, <2>2, <2>3, <2>4 DEF Accepted
<1>5. CASE io' = io /\ io.at \in {"push", "name", "register"} /\ ~PushConnection /\ ~NameConnection
  <2>1. io.conn \in Clients
    BY <1>0, <1>5 DEF IoOK, Idle
  <2>. DEFINE c == io.conn
  <2>2. /\ socket[c] = "open" /\ reported[c] = 0 /\ \A i \in DOMAIN qIn : qIn[i] # c
        /\ main.at = "message" => main.remote # c
        /\ io.at = "push" => \A i \in DOMAIN conns : conns[i] # c
        /\ io.at \in {"name", "register"} => \E i \in DOMAIN conns : conns[i] = c
        /\ io.at = "name" => conns # << >> /\ conns[Len(conns)] = c
        /\ io.at = "register" => idOf[c] = io.id
    BY <1>0, <1>5 DEF Accepted
  <2>3. c # Null
    BY <2>1, ServerAssumption
  <2>. HIDE DEF c
  <2>4. socket'[c] = "open"
    <3>1. ~\E d \in Clients : Opens(d)
      BY <1>5 DEF Opens, Idle
    <3>2. ASSUME NEW d \in Clients, Closes(d) PROVE socket'[c] = "open"
      BY <1>0, <1>5, <2>1, <2>2, <3>2 DEF Closes, c, LinksOK, Flags
    <3>. QED  BY <2>2, <3>1, <3>2, SocketSteps
  <2>5. reported'[c] = 0
    <3>1. CASE VisitClient
      <4>1. ASSUME NEW d, d # c, reported' = [reported EXCEPT ![d] = @ + 1] PROVE reported'[c] = 0
        BY <1>0, <2>1, <2>2, <4>1 DEF Flags, c
      <4>. QED  BY <2>2, <3>1, <4>1, VisitSteps DEF Drops
    <3>2. CASE MessageClient
      <4>1. ASSUME reported' = [reported EXCEPT ![main.remote] = @ + 1] PROVE reported'[c] = 0
        BY <1>0, <2>1, <2>2, <3>2, <4>1 DEF Flags, c, MessageClient
      <4>. QED  BY <2>2, <3>2, <4>1 DEF MessageClient
    <3>. QED  BY <2>2, <3>1, <3>2, OtherWriters
  <2>6. /\ \A i \in DOMAIN qIn' : qIn'[i] # c
        /\ main'.at = "message" => main'.remote # c
    <3>1. ASSUME NEW d, RunRead(d) PROVE FALSE
      BY <1>5, <3>1 DEF RunRead, CanRun, Idle
    <3>2. CASE Update
      BY <1>0, <2>2, <3>2 DEF Update
    <3>3. CASE ~Update
      <4>1. qIn' = qIn
        BY <3>1, <3>3, OtherWriters
      <4>2. main'.at = "message" => main' = main
        <5>1. VisitClient => (main.at = "loop" /\ main'.at = main.at) \/ main' = main
          BY <1>0, VisitSteps DEF Drops, MainOK, Idle
        <5>2. main' = Idle \/ StartBroadcast => main'.at # "message"
          BY DEF StartBroadcast, Idle
        <5>3. EndVisits \/ TestId \/ SwapIds \/ PopId => main'.at # "message"
          BY IdsLoopSteps DEF InIdsLoop, Idle
        <5>. QED  BY <3>3, <5>1, <5>2, <5>3, OtherWriters DEF MainStep, EndMessage, MessageClient, EndBroadcast
      <4>. QED  BY <2>2, <4>1, <4>2
    <3>. QED  BY <3>2, <3>3
  <2>7. /\ io.at = "push" => \A i \in DOMAIN conns' : conns'[i] # c
        /\ io.at \in {"name", "register"} => \E i \in DOMAIN conns' : conns'[i] = c
        /\ io.at = "name" => conns' # << >> /\ conns'[Len(conns')] = c
    <3>1. CASE conns' = conns
      BY <2>2, <3>1
    <3>2. ASSUME NEW i \in DOMAIN conns, Drops(i)
          PROVE  /\ io.at = "push" => \A j \in DOMAIN conns' : conns'[j] # c
                 /\ io.at \in {"name", "register"} => \E j \in DOMAIN conns' : conns'[j] = c
                 /\ io.at = "name" => conns' # << >> /\ conns'[Len(conns')] = c
      <4>1. conns[i] # c /\ conns' = [conns EXCEPT ![i] = Null]
        BY <2>2, <3>2 DEF Drops
      <4>2. /\ DOMAIN conns' = DOMAIN conns /\ Len(conns') = Len(conns)
            /\ \A j \in DOMAIN conns : conns'[j] = IF j = i THEN Null ELSE conns[j]
        BY <1>0, <4>1
      <4>3. io.at = "name" => Len(conns) \in DOMAIN conns
        BY <1>0, <2>2
      <4>. QED  BY <1>0, <2>2, <2>3, <4>1, <4>2, <4>3
    <3>3. CASE EndBroadcast
      BY <2>2, <2>3, <3>3, EndKeeps
    <3>. QED  BY <1>5, <3>1, <3>2, <3>3, VisitSteps, RegistryWriters DEF registry, Drops
  <2>8. idOf' = idOf
    BY <1>5, RegistryWriters
  <2>. QED  BY <1>5, <2>2, <2>4, <2>5, <2>6, <2>7, <2>8 DEF Accepted, c
<1>. QED
  <2>1. \/ io' = io \/ PushConnection \/ NameConnection \/ io'.at \notin {"push", "name", "register"}
        \/ \E c \in Clients : Accept(c)
    BY OtherWriters DEF RegisterId, Close, RunFailed, Idle
  <2>. QED  BY <1>1, <1>2, <1>3, <1>4, <1>5, <2>1

\* Every step leaves the set of registered clients alone, adds one or drops one.
LEMMA RegisteredSteps ==
    SInv /\ Next =>
        \/ Registered' = Registered
        \/ PushConnection /\ Registered' = Registered \cup {io.conn}
        \/ \E i \in DOMAIN conns : Drops(i) /\ Registered' = Registered \ {conns[i]}
<1>. SUFFICES ASSUME SInv, Next PROVE
        \/ Registered' = Registered
        \/ PushConnection /\ Registered' = Registered \cup {io.conn}
        \/ \E i \in DOMAIN conns : Drops(i) /\ Registered' = Registered \ {conns[i]}
  OBVIOUS
<1>0. /\ conns \in Seq(Clients \cup {Null}) /\ \A c \in Clients : c # Null
      /\ \A i, j \in DOMAIN conns : (conns[i] # Null /\ conns[i] = conns[j]) => i = j
  BY ServerAssumption DEF SInv, Typed, RegistryOK, Unique
<1>1. CASE conns' = conns
  BY <1>1 DEF Registered
<1>2. CASE PushConnection
  <2>1. io.conn \in Clients /\ conns' = Append(conns, io.conn)
    BY <1>2 DEF PushConnection, SInv, Typed, IoOK, Idle
  <2>2. /\ \A i \in DOMAIN conns : i \in DOMAIN conns' /\ conns'[i] = conns[i]
        /\ Len(conns') \in DOMAIN conns' /\ conns'[Len(conns')] = io.conn
        /\ \A i \in DOMAIN conns' : i \in DOMAIN conns \/ i = Len(conns')
    BY <1>0, <2>1
  <2>. QED  BY <1>2, <2>1, <2>2 DEF Registered
<1>3. ASSUME NEW i \in DOMAIN conns, Drops(i) PROVE Registered' = Registered \ {conns[i]}
  <2>1. conns[i] # Null /\ conns' = [conns EXCEPT ![i] = Null]
    BY <1>0, <1>3 DEF Drops
  <2>2. DOMAIN conns' = DOMAIN conns /\ \A j \in DOMAIN conns : conns'[j] = IF j = i THEN Null ELSE conns[j]
    BY <1>0, <2>1
  <2>. QED  BY <1>0, <2>1, <2>2 DEF Registered
<1>4. CASE EndBroadcast
  <2>1. /\ \A k \in DOMAIN conns' : \E i \in DOMAIN conns : conns[i] = conns'[k]
        /\ \A i \in DOMAIN conns : conns[i] # Null => \E k \in DOMAIN conns' : conns'[k] = conns[i]
    BY <1>4, EndKeeps
  <2>. QED  BY <1>0, <2>1 DEF Registered
<1>. QED  BY <1>1, <1>2, <1>3, <1>4, VisitSteps, RegistryWriters DEF registry, Drops

\* A client begins to be accepted when its socket opens and has been when its id is in ids.
LEMMA NewcomerSteps ==
    SInv /\ Next =>
        \A c \in Clients : \/ Newcomer(c)' = Newcomer(c)
                           \/ Opens(c) /\ Newcomer(c)'
                           \/ RegisterId /\ c = io.conn /\ ~Newcomer(c)'
<1>. SUFFICES ASSUME SInv, Next, NEW c \in Clients
              PROVE  \/ Newcomer(c)' = Newcomer(c)
                     \/ Opens(c) /\ Newcomer(c)'
                     \/ RegisterId /\ c = io.conn /\ ~Newcomer(c)'
  OBVIOUS
<1>. USE DEF Newcomer, Accepting
<1>1. CASE io' = io
  BY <1>1
<1>2. CASE PushConnection
  <2>1. io \in [at : {"push", "name", "close"}, conn : Clients] /\ io.at = "push" /\ io' = [io EXCEPT !.at = "name"]
    BY <1>2 DEF PushConnection, SInv, Typed, IoOK, Idle
  <2>2. io'.at = "name" /\ io'.conn = io.conn
    BY <2>1
  <2>. QED  BY <2>1, <2>2
<1>3. CASE NameConnection
  <2>1. io.at = "name" /\ io'.at = "register" /\ io'.conn = io.conn
    BY <1>3 DEF NameConnection
  <2>. QED  BY <2>1
<1>4. CASE RegisterId
  BY <1>4 DEF RegisterId, Idle
<1>5. CASE Close
  BY <1>5 DEF Close, Idle
<1>6. ASSUME NEW d \in Clients, Accept(d), io' # io
      PROVE  Newcomer(c)' = Newcomer(c) \/ (Opens(c) /\ Newcomer(c)')
  <2>1. Opens(d)
    BY <1>6 DEF Accept, Opens, registry
  <2>. QED  BY <2>1 DEF Opens, Idle
<1>7. ASSUME NEW d \in Clients, RunFailed(d) PROVE Newcomer(c)' = Newcomer(c)
  BY <1>7 DEF RunFailed, CanRun, Idle
<1>. QED  BY <1>1, <1>2, <1>3, <1>4, <1>5, <1>6, <1>7, OtherWriters

\* No step leaves a registered client without an id.
LEMMA HaveIdsNext == SInv /\ Next => HaveIds'
<1>. SUFFICES ASSUME SInv, Next, NEW c \in Clients, c \in Registered', ~Newcomer(c)'
              PROVE  idOf'[c] \in Ids
  BY DEF HaveIds, Registered
<1>1. idOf[c] \in Ids => idOf'[c] \in Ids
  <2>1. CASE NameConnection
    BY <2>1 DEF NameConnection, SInv, Typed, RegistryOK, Flags
  <2>. QED  BY <2>1, RegistryWriters
<1>2. CASE c \in Registered /\ ~Newcomer(c)
  BY <1>1, <1>2 DEF HaveIds, SInv
<1>3. CASE RegisterId /\ c = io.conn
  BY <1>1, <1>3 DEF RegisterId, SInv, Accepted, Typed, IoOK, Idle
<1>4. CASE PushConnection /\ c = io.conn
  <2>1. io.at = "push" /\ ~RegisterId /\ ~Opens(c)
    BY <1>4 DEF PushConnection, RegisterId, Opens, Idle
  <2>. QED  BY <1>4, <2>1, NewcomerSteps DEF Newcomer, Accepting
<1>. QED  BY <1>2, <1>3, <1>4, RegisteredSteps, NewcomerSteps

\* Every step that drops a client reports it, and no other step reports one, except on the way
\* to a fault.
LEMMA ReportedIffRemovedNext == SInv /\ Next => ReportedIffRemoved'
<1>. SUFFICES ASSUME SInv, Next, fault' # "null", NEW c \in Clients
              PROVE  reported'[c] = IF socket'[c] # "none" /\ c \notin Registered' /\ ~Newcomer(c)'
                                    THEN 1 ELSE 0
  BY DEF ReportedIffRemoved
<1>1. reported[c] = IF socket[c] # "none" /\ c \notin Registered /\ ~Newcomer(c) THEN 1 ELSE 0
  BY DEF SInv, Reported, ReportedIffRemoved, Next
<1>2. CASE Opens(c)
  <2>1. socket[c] = "none" /\ reported' = reported /\ Newcomer(c)'
    BY <1>2 DEF Opens, Newcomer, Accepting
  <2>. QED  BY <1>1, <2>1
<1>3. CASE RegisterId /\ c = io.conn
  <2>1. io.at = "register" /\ reported' = reported /\ conns' = conns
    BY <1>3 DEF RegisterId
  <2>2. c \in Registered /\ c \in Registered' /\ Newcomer(c)
    BY <1>3, <2>1 DEF SInv, Accepted, Registered, Newcomer, Accepting
  <2>. QED  BY <1>1, <2>1, <2>2
<1>4. CASE PushConnection /\ c = io.conn
  <2>1. io.at = "push" /\ reported' = reported
    BY <1>4 DEF PushConnection
  <2>2. Newcomer(c) /\ ~RegisterId /\ ~Opens(c)
    BY <1>4, <2>1 DEF Newcomer, Accepting, RegisterId, Opens, Idle
  <2>3. Newcomer(c)'
    BY <2>2, NewcomerSteps
  <2>. QED  BY <1>1, <2>1, <2>2, <2>3
<1>5. ASSUME NEW i \in DOMAIN conns, Drops(i), c = conns[i], Registered' = Registered \ {conns[i]}
      PROVE  reported'[c] = IF socket'[c] # "none" /\ c \notin Registered' /\ ~Newcomer(c)' THEN 1 ELSE 0
  <2>1. socket[c] = "closed" /\ reported' = [reported EXCEPT ![c] = @ + 1] /\ io' = io
    BY <1>5 DEF Drops
  <2>2. c \in Registered /\ c \notin Registered'
    BY <1>5 DEF Registered
  <2>3. ~Newcomer(c) /\ ~Newcomer(c)'
    BY <2>1 DEF SInv, Accepted, Newcomer, Accepting
  <2>4. socket'[c] # "none"
    BY <2>1, MadeStays
  <2>5. reported'[c] = 1
    BY <1>1, <2>1, <2>2 DEF SInv, Typed, RestOK, Flags
  <2>. QED  BY <2>2, <2>3, <2>4, <2>5
<1>6. CASE /\ Newcomer(c)' = Newcomer(c) /\ (c \in Registered' <=> c \in Registered)
           /\ reported'[c] = reported[c] /\ ~Opens(c)
  <2>1. socket'[c] # "none" <=> socket[c] # "none"
    BY <1>6, SocketSteps DEF Opens, Closes, SInv, Typed, LinksOK, Flags
  <2>. QED  BY <1>1, <1>6, <2>1
<1>7. reported'[c] = reported[c] \/ \E i \in DOMAIN conns : Drops(i) /\ c = conns[i]
  <2>1. CASE VisitClient
    <3>1. ASSUME NEW i \in DOMAIN conns, Drops(i), c # conns[i] PROVE reported'[c] = reported[c]
      BY <3>1 DEF Drops, SInv, Typed, RestOK, Flags
    <3>. QED  BY <2>1, <3>1, VisitSteps DEF Drops
  <2>2. MessageClient => reported' = reported
    BY DEF MessageClient
  <2>. QED  BY <2>1, <2>2, OtherWriters
<1>8. ASSUME NEW i \in DOMAIN conns, Drops(i) PROVE Registered' = Registered \ {conns[i]}
  <2>1. ~PushConnection
    BY <1>8 DEF Drops, PushConnection, SInv, Typed, IoOK, Idle
  <2>2. conns[i] \in Registered
    BY <1>8 DEF Drops, Registered
  <2>3. conns[i] \notin Registered'
    <3>1. conns' = [conns EXCEPT ![i] = Null] /\ conns[i] # Null
      BY <1>8, ServerAssumption DEF Drops
    <3>2. conns \in Seq(Clients \cup {Null}) /\ \A j \in DOMAIN conns : conns[j] = conns[i] => j = i
      BY <3>1 DEF SInv, Typed, RegistryOK, Unique
    <3>. QED  BY <3>1, <3>2 DEF Registered
  <2>4. \A j \in DOMAIN conns : Drops(j) => j = i
    BY <1>8 DEF Drops
  <2>. QED  BY <2>1, <2>2, <2>3, <2>4, RegisteredSteps
<1>. QED
  <2>1. CASE \E i \in DOMAIN conns : Drops(i) /\ c = conns[i]
    BY <1>5, <1>8, <2>1
  <2>2. CASE ~\E i \in DOMAIN conns : Drops(i) /\ c = conns[i]
    <3>1. (c \in Registered' <=> c \in Registered) \/ (PushConnection /\ c = io.conn)
      BY <2>2, RegisteredSteps
    <3>. QED  BY <1>2, <1>3, <1>4, <1>6, <1>7, <2>2, <3>1, NewcomerSteps
  <2>. QED  BY <2>1, <2>2

\* Nor is a client reported more than once on the way to it.
LEMMA ReportedNext == SInv /\ Next => Reported'
<1>. SUFFICES ASSUME SInv, Next, NEW c \in Clients PROVE reported'[c] <= 2
  BY ReportedIffRemovedNext DEF Reported
<1>1. CASE fault' # "null"
  BY <1>1, ReportedIffRemovedNext DEF ReportedIffRemoved
<1>2. reported[c] \in {0, 1}
  BY DEF SInv, Reported, ReportedIffRemoved, Next
<1>3. reported'[c] = reported[c] \/ reported'[c] = reported[c] + 1
  <2>1. reported' = reported \/ \E d : reported' = [reported EXCEPT ![d] = @ + 1]
    BY OtherWriters DEF MessageClient, VisitClient
  <2>. QED  BY <2>1 DEF SInv, Typed, RestOK, Flags
<1>. QED  BY <1>2, <1>3

\* A null that a broadcast leaves in the registry stays behind its iterator.
LEMMA NullsVisitedNext == SInv /\ Next => NullsVisited'
<1>. SUFFICES ASSUME SInv, Next PROVE NullsVisited'
  OBVIOUS
<1>0. NullsVisited /\ conns \in Seq(Clients \cup {Null}) /\ MainOK
  BY DEF SInv, Typed, RegistryOK
<1>1. CASE conns' = conns /\ main' = main
  BY <1>0, <1>1 DEF NullsVisited, InIdsLoop
<1>2. CASE PushConnection
  <2>1. conns' = Append(conns, io.conn) /\ main' = main /\ io.conn # Null
    BY <1>2, ServerAssumption DEF PushConnection, SInv, Typed, IoOK, Idle
  <2>. QED  BY <1>0, <2>1 DEF NullsVisited, InIdsLoop
<1>3. CASE VisitClient
  <2>1. main \in [at : {"loop"}, i : Nat \ {0}, ignore : Clients \cup {Null}, toRemove : SUBSET Ids]
    BY <1>0, <1>3 DEF VisitClient, MainOK, Idle
  <2>2. CASE Drops(main.i)
    <3>1. /\ main'.at = "loop" /\ main'.i = main.i + 1 /\ main'.toRemove # {}
          /\ main.i \in DOMAIN conns
      BY <2>1, <2>2 DEF Drops
    <3>2. /\ DOMAIN conns' = DOMAIN conns
          /\ \A j \in DOMAIN conns : j # main.i => conns'[j] = conns[j]
      BY <1>0, <2>2 DEF Drops
    <3>. QED  BY <1>0, <2>1, <3>1, <3>2 DEF NullsVisited, InIdsLoop
  <2>3. CASE conns' = conns /\ main' = [main EXCEPT !.i = @ + 1]
    <3>1. main'.at = "loop" /\ main'.i = main.i + 1 /\ main'.toRemove = main.toRemove
      BY <2>1, <2>3
    <3>. QED  BY <1>0, <2>1, <2>3, <3>1 DEF NullsVisited, InIdsLoop
  <2>. QED  BY <1>1, <1>3, <2>2, <2>3, VisitSteps DEF registry
<1>4. CASE EndBroadcast
  BY <1>4, EndKeeps DEF NullsVisited
<1>5. CASE Update \/ StartBroadcast \/ EndMessage
  <2>1. main.at \in {"idle", "message"} /\ conns' = conns
    BY <1>5 DEF Update, StartBroadcast, EndMessage, Idle, registry
  <2>. QED  BY <1>0, <2>1 DEF NullsVisited, InIdsLoop
<1>6. CASE MessageClient
  BY <1>1, <1>6 DEF MessageClient
<1>7. CASE EndVisits
  <2>1. conns' = conns /\ (main' = Idle => main.toRemove = {}) /\ (InIdsLoop' \/ main' = Idle)
        /\ main.at = "loop"
    BY <1>7 DEF EndVisits, registry, InIdsLoop, Idle
  <2>. QED  BY <1>0, <2>1 DEF NullsVisited, InIdsLoop
<1>8. CASE TestId \/ SwapIds \/ PopId
  <2>1. InIdsLoop
    BY <1>8 DEF TestId, SwapIds, PopId, InIdsLoop
  <2>. QED  BY <1>8, <2>1, IdsLoopSteps DEF NullsVisited
<1>. QED  BY <1>1, <1>2, <1>3, <1>4, <1>5, <1>6, <1>7, <1>8, RegistryWriters, OtherWriters DEF MainStep

\* ids only grows while an element of it waits to be swapped.
LEMMA IndexedNext == SInv /\ Next => Indexed'
<1>. SUFFICES ASSUME SInv, Next, main'.at = "swap" PROVE main'.i \in DOMAIN ids'
  BY DEF Indexed
<1>0. ids \in Seq(Ids) /\ MainOK /\ Indexed
  BY DEF SInv, Typed, RegistryOK
<1>1. CASE TestId
  <2>1. main \in [at : {"test", "swap", "pop"}, i : Nat \ {0}, toRemove : SUBSET Ids]
    BY <1>0, <1>1 DEF TestId, MainOK, Idle
  <2>2. main'.i = main.i /\ main.i <= Len(ids) /\ ids' = ids /\ main.i \in Nat \ {0}
    BY <1>1, <2>1 DEF TestId, registry
  <2>. QED  BY <1>0, <2>2
<1>2. CASE main' = main
  <2>1. main.i \in DOMAIN ids
    BY <1>0, <1>2 DEF Indexed
  <2>2. ids' = ids \/ ids' = Append(ids, io.id)
    <3>1. ~MessageClient /\ ~VisitClient /\ ~PopId
      BY <1>2 DEF MessageClient, VisitClient, PopId
    <3>2. ~SwapIds
      <4>1. SwapIds => main'.at = "pop"
        BY <1>0 DEF SwapIds, MainOK, Idle
      <4>. QED  BY <4>1
    <3>. QED  BY <3>1, <3>2, RegistryWriters DEF RegisterId
  <2>. QED  BY <1>0, <1>2, <2>1, <2>2
<1>3. CASE main' # main /\ ~TestId
  <2>1. main'.at # "swap"
    <3>1. VisitClient => main' = main \/ main'.at = "loop"
      <4>1. VisitClient => main \in [at : {"loop"}, i : Nat \ {0}, ignore : Clients \cup {Null}, toRemove : SUBSET Ids]
        BY <1>0 DEF VisitClient, MainOK, Idle
      <4>. QED  BY <4>1 DEF VisitClient
    <3>2. EndVisits => main'.at # "swap"
      BY DEF EndVisits, Idle
    <3>3. SwapIds => main'.at = "pop"
      BY <1>0 DEF SwapIds, MainOK, Idle
    <3>4. PopId => main'.at = "test"
      BY <1>0 DEF PopId, MainOK, Idle
    <3>5. Update \/ StartBroadcast \/ main' = Idle => main'.at # "swap"
      BY DEF Update, StartBroadcast, Idle
    <3>. QED  BY <1>3, <3>1, <3>2, <3>3, <3>4, <3>5, OtherWriters
              DEF MainStep, EndMessage, MessageClient, EndBroadcast
  <2>. QED  BY <2>1
<1>. QED  BY <1>1, <1>2, <1>3

-----------------------------------------------------------------------------
(* The invariant holds, and with it what the runs check *)

\* The invariant holds at the start.
LEMMA SInvInit == Init => SInv
<1>. SUFFICES ASSUME Init PROVE SInv
  OBVIOUS
<1>. USE ServerAssumption DEF Init
<1>1. RegistryOK /\ LinksOK /\ QueueOK /\ IoOK /\ MainOK /\ RestOK
  BY DEF RegistryOK, LinksOK, QueueOK, IoOK, MainOK, RestOK, Flags, HandlerStates
<1>2. CountsOK
  BY DEF CountsOK, Flags
<1>3. Unique /\ NoStrangers /\ NullsVisited /\ HaveIds /\ Indexed
  BY DEF Unique, NoStrangers, NullsVisited, HaveIds, Registered, Indexed, Idle
<1>4. Accepted
  BY DEF Accepted, Accepting, Idle
<1>5. Reported
  BY DEF Reported, ReportedIffRemoved
<1>. QED  BY <1>1, <1>2, <1>3, <1>4, <1>5 DEF SInv, Typed

\* It speaks of the variables only.
LEMMA SInvStutter == SInv /\ UNCHANGED vars => SInv'
<1>. SUFFICES ASSUME SInv, UNCHANGED vars PROVE SInv'
  OBVIOUS
<1>. USE DEF vars, registry, links
<1>1. Typed'
  BY DEF SInv, Typed, RegistryOK, LinksOK, CountsOK, QueueOK, IoOK, MainOK, RestOK, Idle
<1>2. Unique' /\ NoStrangers' /\ NullsVisited' /\ Indexed'
  BY DEF SInv, Unique, NoStrangers, NullsVisited, InIdsLoop, Indexed
<1>3. Accepted'
  BY DEF SInv, Accepted, Accepting
<1>4. HaveIds' /\ Reported'
  BY DEF SInv, HaveIds, Reported, ReportedIffRemoved, Registered, Newcomer, Accepting
<1>. QED  BY <1>1, <1>2, <1>3, <1>4 DEF SInv

\* Every step keeps the invariant.
LEMMA SInvNext == SInv /\ [Next]_vars => SInv'
<1>1. SInv /\ Next => SInv'
  BY TypesNext, UniqueNext, NoStrangersNext, AcceptedNext, HaveIdsNext, ReportedNext, NullsVisitedNext,
     IndexedNext DEF SInv
<1>. QED  BY <1>1, SInvStutter

\* The invariant holds throughout, for either onClientDisconnect.
THEOREM ServerInvariant == Spec => []SInv
BY SInvInit, SInvNext, PTL DEF Spec

\* Outside messageAllClients the registry holds no null pointer, and the range-for never
\* calls getID() through one; with it, the types and the bounds.
THEOREM NoNullAtRestHolds == Spec => []NoNullAtRest
<1>1. SInv => NoNullAtRest
  <2>. SUFFICES ASSUME SInv PROVE NoNullAtRest
    OBVIOUS
  <2>1. posted \in Flags(0 .. MaxPosted) /\ out \in Flags(0 .. MaxPosted)
    <3>1. ASSUME NEW c \in Clients PROVE posted[c] \in 0 .. MaxPosted /\ out[c] \in 0 .. MaxPosted
      <4>1. posted[c] \in Nat /\ out[c] \in Nat /\ posted[c] + out[c] <= MaxPosted
        BY DEF SInv, Typed, CountsOK, Flags
      <4>. QED  BY <4>1, ServerAssumption
    <3>. QED  BY <3>1 DEF SInv, Typed, CountsOK, Flags
  <2>2. reported \in Flags(0 .. 2)
    <3>1. ASSUME NEW c \in Clients PROVE reported[c] \in 0 .. 2
      <4>1. reported[c] \in Nat /\ reported[c] <= 2
        BY DEF SInv, Typed, RestOK, Reported, Flags
      <4>. QED  BY <4>1
    <3>. QED  BY <3>1 DEF SInv, Typed, RestOK, Flags
  <2>3. TypeOK
    BY <2>1, <2>2 DEF TypeOK, SInv, Typed, RegistryOK, LinksOK, QueueOK, IoOK, MainOK, RestOK
  <2>. QED  BY <2>3 DEF NoNullAtRest, SInv, NullsVisited, InIdsLoop
<1>. QED  BY <1>1, ServerInvariant, PTL

\* onClientDisconnect is called once for each client that has left the registry and for no
\* other, as long as messageClient has not gone through the null pointer it made.
THEOREM ReportedIffRemovedHolds == Spec => []ReportedIffRemoved
<1>1. SInv => ReportedIffRemoved
  BY DEF SInv, Reported
<1>. QED  BY <1>1, ServerInvariant, PTL

-----------------------------------------------------------------------------
(* The ids, when onClientDisconnect is exampleServer's override *)

\* A client gets its id from connectToClient and not before.
Early == io.at \in {"push", "name"} => idOf[io.conn] = 0
NoIdYet == \A c \in Clients : socket[c] = "none" => idOf[c] = 0

\* In its first loop a broadcast means to take out ids that are there and that no client of
\* the registry has; in the second, none that a client has which is not being accepted.
RemovesNoOthers ==
    /\ main.at = "loop" =>
        /\ \A id \in main.toRemove : id \in raced \/ \E i \in DOMAIN ids : ids[i] = id
        /\ \A c \in Registered : idOf[c] \notin raced => idOf[c] \notin main.toRemove
    /\ InIdsLoop =>
        \A c \in Registered :
            (~Newcomer(c) /\ idOf[c] \notin raced) => idOf[c] \notin main.toRemove

\* What is swapped to the end is to go, unless the io thread has pushed another behind it.
LastGoes ==
    /\ main.at = "swap" => ids[main.i] \in main.toRemove
    /\ main.at = "pop" => ids # << >> /\ ids[Len(ids)] \in main.toRemove \cup raced

IdInv == SInv /\ Early /\ NoIdYet /\ IdsIdentify /\ RemovesNoOthers /\ LastGoes

\* No client has an id before connectToClient.
LEMMA EarlyNext == SInv /\ Early /\ NoIdYet /\ Next => Early' /\ NoIdYet'
<1>. SUFFICES ASSUME SInv, Early, NoIdYet, Next PROVE Early' /\ NoIdYet'
  OBVIOUS
<1>1. Early'
  <2>1. CASE PushConnection
    <3>1. io \in [at : {"push", "name", "close"}, conn : Clients] /\ io' = [io EXCEPT !.at = "name"]
      BY <2>1 DEF PushConnection, SInv, Typed, IoOK, Idle
    <3>2. io'.conn = io.conn /\ io.at = "push" /\ idOf' = idOf
      BY <2>1, <3>1 DEF PushConnection
    <3>. QED  BY <3>2 DEF Early
  <2>2. ASSUME NEW c \in Clients, Accept(c), io' # io PROVE Early'
    BY <2>2 DEF Accept, registry, Early, NoIdYet
  <2>3. CASE io' = io /\ ~NameConnection
    BY <2>3, RegistryWriters DEF Early
  <2>4. CASE NameConnection \/ RegisterId \/ Close \/ \E c \in Clients : RunFailed(c)
    BY <2>4 DEF NameConnection, RegisterId, Close, RunFailed, Early, Idle
  <2>. QED  BY <2>1, <2>2, <2>3, <2>4, OtherWriters
<1>2. NoIdYet'
  <2>. SUFFICES ASSUME NEW c \in Clients, socket'[c] = "none" PROVE idOf'[c] = 0
    BY DEF NoIdYet
  <2>1. socket[c] = "none" /\ idOf[c] = 0
    BY MadeStays DEF NoIdYet
  <2>2. CASE NameConnection
    <3>1. PICK id \in Ids : idOf' = [idOf EXCEPT ![conns[Len(conns)]] = id]
      BY <2>2 DEF NameConnection
    <3>2. conns[Len(conns)] # c
      BY <2>1, <2>2 DEF NameConnection, SInv, Accepted, Accepting, Next
    <3>. QED  BY <2>1, <3>1, <3>2 DEF SInv, Typed, RegistryOK, Flags
  <2>. QED  BY <2>1, <2>2, RegistryWriters
<1>. QED  BY <1>1, <1>2

\* An id leaves ids only by the pop_back.
LEMMA IdsKept ==
    ASSUME HookErases = FALSE
    PROVE  SInv /\ Next =>
              \A i \in DOMAIN ids :
                  \/ \E j \in DOMAIN ids' : ids'[j] = ids[i]
                  \/ PopId /\ ids[i] = ids[Len(ids)]
<1>. SUFFICES ASSUME SInv, Next, NEW i \in DOMAIN ids
              PROVE  \/ \E j \in DOMAIN ids' : ids'[j] = ids[i]
                     \/ PopId /\ ids[i] = ids[Len(ids)]
  OBVIOUS
<1>0. ids \in Seq(Ids)
  BY DEF SInv, Typed, RegistryOK
<1>1. CASE ids' = ids
  BY <1>1
<1>2. CASE RegisterId
  <2>1. ids' = Append(ids, io.id)
    BY <1>2 DEF RegisterId
  <2>2. i \in DOMAIN ids' /\ ids'[i] = ids[i]
    BY <1>0, <2>1
  <2>. QED  BY <2>2
<1>3. CASE SwapIds
  <2>1. main.i \in 1 .. Len(ids) /\ ids' = Swapped(ids, main.i)
    BY <1>0, <1>3 DEF SwapIds, SInv, Indexed
  <2>2. LET u == Swapped(ids, main.i)
        IN  u \in Seq(Ids) /\ Len(u) = Len(ids) /\ \E j \in 1 .. Len(ids) : u[j] = ids[i]
    <3>. DEFINE k == main.i
    <3>1. ids \in Seq(Ids) /\ k \in 1 .. Len(ids) /\ i \in 1 .. Len(ids)
      BY <1>0, <2>1
    <3>. HIDE DEF k
    <3>2. Swapped(ids, k) \in Seq(Ids) /\ Len(Swapped(ids, k)) = Len(ids)
          /\ \E j \in 1 .. Len(ids) : Swapped(ids, k)[j] = ids[i]
      BY <3>1, SwappedKeeps
    <3>. QED  BY <3>2 DEF k
  <2>3. DOMAIN ids' = 1 .. Len(ids)
    BY <2>1, <2>2
  <2>. QED  BY <2>1, <2>2, <2>3
<1>4. CASE PopId /\ i # Len(ids)
  <2>1. i \in DOMAIN ids' /\ ids'[i] = ids[i]
    BY <1>0, <1>4 DEF PopId
  <2>. QED  BY <2>1
<1>5. CASE MessageClient \/ VisitClient
  BY <1>1, <1>5 DEF MessageClient, VisitClient, Hook
<1>. QED  BY <1>1, <1>2, <1>3, <1>4, <1>5, RegistryWriters

\* Every step keeps the ids of the registered clients in ids, and apart.
LEMMA IdsIdentifyNext ==
    ASSUME HookErases = FALSE
    PROVE  IdInv /\ Next => IdsIdentify'
<1>. SUFFICES ASSUME IdInv, Next, NEW c \in Clients, c \in Registered', ~Newcomer(c)',
                     idOf'[c] \notin raced'
              PROVE  /\ \E i \in DOMAIN ids' : ids'[i] = idOf'[c]
                     /\ \A d \in Registered' \ {c} : idOf'[d] # idOf'[c]
  BY DEF IdsIdentify, Registered
<1>. USE DEF IdInv
<1>0. /\ \A d \in Registered : ~Newcomer(d) => idOf[d] \in Ids
      /\ raced \subseteq raced'
  BY RegistryWriters DEF SInv, HaveIds, RegisterId
<1>1. CASE c \in Registered /\ ~Newcomer(c) /\ idOf[c] \notin raced
  <2>1. (\E i \in DOMAIN ids : ids[i] = idOf[c]) /\ \A d \in Registered \ {c} : idOf[d] # idOf[c]
    BY <1>1 DEF IdsIdentify
  <2>2. \E i \in DOMAIN ids' : ids'[i] = idOf[c]
    <3>1. ASSUME PopId, idOf[c] = ids[Len(ids)] PROVE FALSE
      BY <1>1, <3>1 DEF PopId, LastGoes, RemovesNoOthers, InIdsLoop
    <3>. QED  BY <2>1, <3>1, IdsKept
  <2>3. CASE idOf' = idOf
    <3>1. CASE PushConnection
      <4>1. idOf[io.conn] = 0
        BY <3>1 DEF PushConnection, Early
      <4>2. \A d \in Registered' \ {c} : d = io.conn \/ d \in Registered \ {c}
        BY <3>1, RegisteredSteps
      <4>. QED  BY <1>0, <1>1, <2>1, <2>2, <2>3, <4>1, <4>2, ServerAssumption
    <3>2. CASE ~PushConnection
      <4>1. Registered' \subseteq Registered
        BY <3>2, RegisteredSteps
      <4>. QED  BY <2>1, <2>2, <2>3, <4>1
    <3>. QED  BY <3>1, <3>2
  <2>4. CASE NameConnection
    <3>1. io.at = "name" /\ conns[Len(conns)] = io.conn /\ conns' = conns
      BY <2>4 DEF NameConnection, SInv, Accepted, Next
    <3>2. PICK id \in Ids : idOf' = [idOf EXCEPT ![io.conn] = id] /\ \A i \in DOMAIN ids : ids[i] # id
      BY <2>4, <3>1 DEF NameConnection
    <3>3. c # io.conn
      BY <1>1, <3>1 DEF Newcomer, Accepting
    <3>4. Registered' = Registered
      BY <3>1 DEF Registered
    <3>5. \A d \in Clients : idOf'[d] = IF d = io.conn THEN id ELSE idOf[d]
      BY <3>2 DEF SInv, Typed, RegistryOK, Flags
    <3>6. \A d \in Registered : d \in Clients
      BY DEF Registered
    <3>. QED  BY <2>1, <2>2, <3>2, <3>3, <3>4, <3>5, <3>6
  <2>. QED  BY <2>3, <2>4, RegistryWriters
<1>2. CASE RegisterId /\ c = io.conn
  <2>1. io.at = "register" /\ UNCHANGED <<conns, idOf>> /\ ids' = Append(ids, io.id)
    BY <1>2 DEF RegisterId
  <2>2. idOf[c] = io.id
    BY <1>2, <2>1 DEF SInv, Accepted
  <2>3. ids \in Seq(Ids) /\ io.id \in Ids
    BY <2>1 DEF SInv, Typed, RegistryOK, IoOK, Idle
  <2>4. Len(ids') \in DOMAIN ids' /\ ids'[Len(ids')] = io.id
    BY <2>1, <2>3
  <2>5. Registered' = Registered
    BY <2>1 DEF Registered
  <2>6. ASSUME NEW d \in Registered \ {c} PROVE idOf[d] # idOf[c]
    <3>1. ~Newcomer(d)
      BY <1>2, <2>6 DEF Newcomer
    <3>2. idOf[c] \notin raced
      BY <1>0, <2>1
    <3>. QED  BY <1>2, <2>5, <2>6, <3>1, <3>2 DEF IdsIdentify
  <2>. QED  BY <2>1, <2>2, <2>4, <2>5, <2>6
<1>3. CASE PushConnection /\ c = io.conn
  <2>1. io.at = "push" /\ ~RegisterId /\ ~Opens(c)
    BY <1>3 DEF PushConnection, RegisterId, Opens, Idle
  <2>. QED  BY <1>3, <2>1, NewcomerSteps DEF Newcomer, Accepting
<1>4. CASE c \in Registered /\ ~Newcomer(c) /\ idOf[c] \in raced
  <2>1. CASE idOf' = idOf
    BY <1>0, <1>4, <2>1
  <2>2. CASE NameConnection
    <3>1. io.at = "name" /\ conns[Len(conns)] = io.conn
      BY <2>2 DEF NameConnection, SInv, Accepted, Next
    <3>2. c # io.conn
      BY <1>4, <3>1 DEF Newcomer, Accepting
    <3>3. idOf'[c] = idOf[c]
      BY <2>2, <3>1, <3>2 DEF NameConnection, SInv, Typed, RegistryOK, Flags
    <3>. QED  BY <1>0, <1>4, <3>3
  <2>. QED  BY <2>1, <2>2, RegistryWriters
<1>. QED  BY <1>1, <1>2, <1>3, <1>4, RegisteredSteps, NewcomerSteps

\* What a broadcast means to remove is the id of a client it has dropped, even when another
\* client is accepted meanwhile, unless the push_back of the other's id fell into the loop.
LEMMA RemovesNoOthersNext ==
    ASSUME HookErases = FALSE
    PROVE  IdInv /\ Next => RemovesNoOthers'
<1>. SUFFICES ASSUME IdInv, Next PROVE RemovesNoOthers'
  OBVIOUS
<1>. USE DEF IdInv
<1>0. /\ \A c \in Registered : c \in Clients
      /\ raced \subseteq raced'
  BY RegistryWriters DEF Registered, RegisterId
<1>1. CASE StartBroadcast
  <2>1. main'.at = "loop" /\ main'.toRemove = {}
    BY <1>1 DEF StartBroadcast
  <2>. QED  BY <2>1 DEF RemovesNoOthers, InIdsLoop
<1>2. CASE main'.at = "loop" /\ main.at = "loop" /\ main'.toRemove = main.toRemove
  <2>0. MainOK /\ ids \in Seq(Ids)
    BY DEF SInv, Typed, RegistryOK
  <2>1. main.toRemove \subseteq Ids
    BY <1>2, <2>0 DEF MainOK, Idle
  <2>2. ids' = ids \/ ids' = Append(ids, io.id)
    BY <1>2, RegistryWriters DEF RegisterId, MessageClient, VisitClient, SwapIds, PopId, Hook
  <2>3. \A id \in main.toRemove : id \in raced' \/ \E i \in DOMAIN ids' : ids'[i] = id
    <3>1. \A i \in DOMAIN ids : i \in DOMAIN ids' /\ ids'[i] = ids[i]
      BY <2>0, <2>2
    <3>. QED  BY <1>0, <1>2, <3>1 DEF RemovesNoOthers
  <2>4. ASSUME NEW c \in Registered', idOf'[c] \notin raced' PROVE idOf'[c] \notin main.toRemove
    <3>1. CASE NameConnection
      <4>1. io.at = "name" /\ conns[Len(conns)] = io.conn /\ conns' = conns
        BY <3>1 DEF NameConnection, SInv, Accepted, Next
      <4>2. PICK id \in Ids : idOf' = [idOf EXCEPT ![io.conn] = id] /\ \A i \in DOMAIN ids : ids[i] # id
        BY <3>1, <4>1 DEF NameConnection
      <4>3. c \in Registered /\ c \in Clients
        BY <4>1 DEF Registered
      <4>4. idOf'[c] = id \/ idOf'[c] = idOf[c]
        BY <4>2, <4>3 DEF SInv, Typed, RegistryOK, Flags
      <4>. QED  BY <1>0, <1>2, <2>4, <4>2, <4>3, <4>4 DEF RemovesNoOthers
    <3>2. CASE PushConnection /\ c = io.conn
      <4>1. idOf[c] = 0 /\ idOf' = idOf
        BY <3>2 DEF PushConnection, Early
      <4>. QED  BY <2>1, <4>1, ServerAssumption
    <3>3. CASE c \in Registered /\ idOf' = idOf
      BY <1>0, <1>2, <2>4, <3>3 DEF RemovesNoOthers
    <3>. QED  BY <3>1, <3>2, <3>3, RegisteredSteps, RegistryWriters DEF PushConnection, Drops
  <2>. QED  BY <1>2, <2>3, <2>4 DEF RemovesNoOthers, InIdsLoop
<1>3. ASSUME NEW i \in DOMAIN conns, Drops(i) PROVE RemovesNoOthers'
  <2>. DEFINE d == conns[i]
  <2>1. d \in Registered /\ ~Newcomer(d)
    BY <1>3 DEF Drops, Registered, Newcomer, SInv, Accepted
  <2>2. idOf[d] \notin raced =>
           (\E j \in DOMAIN ids : ids[j] = idOf[d]) /\ \A c \in Registered \ {d} : idOf[c] # idOf[d]
    BY <2>1 DEF IdsIdentify
  <2>3. main.at = "loop" /\ ids' = ids /\ idOf' = idOf
    BY <1>3 DEF Drops, Hook
  <2>4. main'.toRemove = main.toRemove \cup {idOf[d]} /\ main'.at = "loop"
    <3>1. main \in [at : {"loop"}, i : Nat \ {0}, ignore : Clients \cup {Null}, toRemove : SUBSET Ids]
      BY <2>3 DEF SInv, Typed, MainOK, Idle
    <3>. QED  BY <1>3, <3>1 DEF Drops
  <2>5. Registered' \subseteq Registered \ {d}
    <3>1. ~PushConnection
      BY <1>3 DEF Drops, PushConnection, SInv, Typed, IoOK, Idle
    <3>2. d \notin Registered'
      <4>1. conns' = [conns EXCEPT ![i] = Null] /\ d # Null
        BY <1>3, ServerAssumption DEF Drops
      <4>2. conns \in Seq(Clients \cup {Null}) /\ \A j \in DOMAIN conns : conns[j] = d => j = i
        BY <4>1 DEF SInv, Typed, RegistryOK, Unique
      <4>. QED  BY <4>1, <4>2 DEF Registered
    <3>. QED  BY <3>1, <3>2, RegisteredSteps
  <2>6. \A id \in main'.toRemove : id \in raced' \/ \E j \in DOMAIN ids' : ids'[j] = id
    BY <1>0, <2>2, <2>3, <2>4 DEF RemovesNoOthers
  <2>7. ASSUME NEW c \in Registered', idOf'[c] \notin raced' PROVE idOf'[c] \notin main'.toRemove
    BY <1>0, <2>2, <2>3, <2>4, <2>5, <2>7 DEF RemovesNoOthers
  <2>. QED  BY <2>4, <2>6, <2>7 DEF RemovesNoOthers, InIdsLoop
<1>4. CASE EndVisits /\ main' # Idle
  <2>1. main.at = "loop" /\ main'.at = "test" /\ main'.toRemove = main.toRemove
        /\ UNCHANGED <<conns, idOf, raced>>
    BY <1>4 DEF EndVisits, registry
  <2>2. Registered' = Registered
    BY <2>1 DEF Registered
  <2>. QED  BY <2>1, <2>2 DEF RemovesNoOthers
<1>5. CASE InIdsLoop /\ InIdsLoop' /\ main'.toRemove = main.toRemove
  <2>1. main.toRemove \subseteq Ids
    BY <1>5 DEF InIdsLoop, SInv, Typed, MainOK, Idle
  <2>2. ASSUME NEW c \in Registered', ~Newcomer(c)', idOf'[c] \notin raced' PROVE idOf'[c] \notin main.toRemove
    <3>1. CASE NameConnection
      <4>1. io.at = "name" /\ conns[Len(conns)] = io.conn /\ conns' = conns
            /\ io'.at = "register" /\ io'.conn = io.conn
        BY <3>1 DEF NameConnection, SInv, Accepted, Next
      <4>2. c # io.conn /\ c \in Registered /\ c \in Clients
        BY <2>2, <4>1 DEF Newcomer, Accepting, Registered
      <4>3. idOf'[c] = idOf[c] /\ ~Newcomer(c)
        BY <3>1, <4>1, <4>2 DEF NameConnection, Newcomer, SInv, Typed, RegistryOK, Flags
      <4>. QED  BY <1>0, <1>5, <2>2, <4>2, <4>3 DEF RemovesNoOthers
    <3>2. CASE PushConnection /\ c = io.conn
      <4>1. idOf[c] = 0 /\ idOf' = idOf
        BY <3>2 DEF PushConnection, Early
      <4>. QED  BY <2>1, <4>1, ServerAssumption
    <3>3. CASE RegisterId /\ c = io.conn
      <4>1. idOf[c] = io.id /\ idOf' = idOf
        BY <3>3 DEF RegisterId, SInv, Accepted
      <4>. QED  BY <1>5, <2>2, <3>3, <4>1 DEF RegisterId
    <3>4. CASE c \in Registered /\ ~Newcomer(c) /\ idOf' = idOf
      BY <1>0, <1>5, <2>2, <3>4 DEF RemovesNoOthers
    <3>5. c \in Clients
      BY <2>2 DEF Registered
    <3>6. c \in Registered \/ (PushConnection /\ c = io.conn)
      BY RegisteredSteps
    <3>7. ~Newcomer(c) \/ (RegisterId /\ c = io.conn)
      BY <2>2, <3>5, NewcomerSteps
    <3>. QED  BY <3>1, <3>2, <3>3, <3>4, <3>6, <3>7, RegistryWriters
  <2>. QED  BY <1>5, <2>2 DEF RemovesNoOthers, InIdsLoop
<1>6. CASE main'.at \in {"idle", "message"}
  BY <1>6 DEF RemovesNoOthers, InIdsLoop
<1>. QED
  <2>1. main' = Idle => main'.at \in {"idle", "message"}
    BY DEF Idle
  <2>2. Update => main'.at \in {"idle", "message"}
    BY DEF Update
  <2>3. VisitClient => \/ \E i \in DOMAIN conns : Drops(i)
                       \/ main'.at = "loop" /\ main.at = "loop" /\ main'.toRemove = main.toRemove
    <3>1. VisitClient => main.at = "loop" /\ MainOK
      BY DEF VisitClient, SInv, Typed
    <3>2. VisitClient => main \in [at : {"loop"}, i : Nat \ {0}, ignore : Clients \cup {Null},
                                   toRemove : SUBSET Ids]
      BY <3>1 DEF MainOK, Idle
    <3>3. main' = [main EXCEPT !.i = @ + 1] /\ VisitClient =>
             main'.at = "loop" /\ main'.toRemove = main.toRemove
      BY <3>2
    <3>4. Drops(main.i) => main.i \in DOMAIN conns
      BY DEF Drops
    <3>5. VisitClient => Drops(main.i) \/ main' = [main EXCEPT !.i = @ + 1] \/ main' = main
      BY VisitSteps
    <3>. QED  BY <3>1, <3>3, <3>4, <3>5
  <2>4. main' = main => \/ main'.at \in {"idle", "message"}
                        \/ main'.at = "loop" /\ main.at = "loop" /\ main'.toRemove = main.toRemove
                        \/ InIdsLoop /\ InIdsLoop' /\ main'.toRemove = main.toRemove
    <3>1. main.at \in {"idle", "message", "loop"} \/ InIdsLoop
      BY DEF SInv, Typed, MainOK, Idle, InIdsLoop
    <3>2. main' = main => (InIdsLoop' <=> InIdsLoop)
      BY DEF InIdsLoop
    <3>. QED  BY <3>1, <3>2
  <2>5. TestId \/ SwapIds \/ PopId => InIdsLoop /\ InIdsLoop' /\ main'.toRemove = main.toRemove
    <3>1. TestId \/ SwapIds \/ PopId => InIdsLoop
      BY DEF TestId, SwapIds, PopId, InIdsLoop
    <3>. QED  BY <3>1, IdsLoopSteps
  <2>. QED  BY <1>1, <1>2, <1>3, <1>4, <1>5, <1>6, <2>1, <2>2, <2>3, <2>4, <2>5, OtherWriters
            DEF MainStep, EndMessage, EndBroadcast, MessageClient

\* Whatever the io thread pushes into the middle of a round, the id that goes is one that was
\* to go, or the one pushed.
LEMMA LastGoesNext ==
    ASSUME HookErases = FALSE
    PROVE  IdInv /\ Next => LastGoes'
<1>. SUFFICES ASSUME IdInv, Next PROVE LastGoes'
  OBVIOUS
<1>. USE DEF IdInv
<1>0. ids \in Seq(Ids) /\ MainOK /\ LastGoes /\ Indexed
  BY DEF SInv, Typed, RegistryOK
<1>1. CASE TestId
  <2>1. main \in [at : {"test", "swap", "pop"}, i : Nat \ {0}, toRemove : SUBSET Ids]
    BY <1>0, <1>1 DEF TestId, MainOK, Idle
  <2>2. ids' = ids /\ main'.at # "pop" /\ main'.toRemove = main.toRemove
        /\ (main'.at = "swap" => main'.i = main.i /\ ids[main.i] \in main.toRemove)
    BY <1>1, <2>1 DEF TestId, registry
  <2>. QED  BY <2>2 DEF LastGoes
<1>2. CASE SwapIds
  <2>1. main \in [at : {"test", "swap", "pop"}, i : Nat \ {0}, toRemove : SUBSET Ids]
    BY <1>0, <1>2 DEF SwapIds, MainOK, Idle
  <2>2. main.i \in 1 .. Len(ids) /\ ids' = Swapped(ids, main.i) /\ ids[main.i] \in main.toRemove
    BY <1>0, <1>2 DEF SwapIds, Indexed, LastGoes
  <2>3. LET u == Swapped(ids, main.i)
        IN  u \in Seq(Ids) /\ Len(u) = Len(ids) /\ u[Len(ids)] = ids[main.i]
    <3>. DEFINE k == main.i
    <3>1. ids \in Seq(Ids) /\ k \in 1 .. Len(ids)
      BY <1>0, <2>2
    <3>. HIDE DEF k
    <3>2. Swapped(ids, k) \in Seq(Ids) /\ Len(Swapped(ids, k)) = Len(ids)
          /\ Swapped(ids, k)[Len(ids)] = ids[k]
      BY <3>1, SwappedKeeps
    <3>. QED  BY <3>2 DEF k
  <2>4. main'.at = "pop" /\ main'.toRemove = main.toRemove
    BY <1>2, <2>1 DEF SwapIds
  <2>5. ids' # << >> /\ ids'[Len(ids')] \in main.toRemove
    BY <2>2, <2>3
  <2>. QED  BY <2>4, <2>5 DEF LastGoes
<1>3. CASE main' = main /\ main.at \in {"swap", "pop"}
  <2>1. CASE RegisterId
    <3>1. ids' = Append(ids, io.id) /\ (main.at = "pop" => io.id \in raced')
      BY <2>1 DEF RegisterId
    <3>2. ids' # << >> /\ ids'[Len(ids')] = io.id /\ \A i \in DOMAIN ids : ids'[i] = ids[i]
      <4>1. io.id \in Ids
        BY <2>1 DEF RegisterId, SInv, Typed, IoOK, Idle
      <4>. QED  BY <1>0, <3>1, <4>1
    <3>. QED  BY <1>0, <1>3, <3>1, <3>2 DEF LastGoes, Indexed
  <2>2. CASE ~RegisterId
    <3>1. ~MessageClient /\ ~VisitClient
      BY <1>3 DEF MessageClient, VisitClient
    <3>2. ~PopId /\ ~SwapIds
      <4>1. (PopId => main'.at = "test") /\ (SwapIds => main'.at = "pop" /\ main.at = "swap")
        BY <1>0 DEF PopId, SwapIds, MainOK, Idle
      <4>2. PopId => main.at = "pop"
        BY DEF PopId
      <4>. QED  BY <1>3, <4>1, <4>2
    <3>3. ids' = ids /\ raced' = raced
      BY <2>2, <3>1, <3>2, RegistryWriters
    <3>. QED  BY <1>0, <1>3, <3>3 DEF LastGoes
  <2>. QED  BY <2>1, <2>2
<1>4. CASE main'.at \notin {"swap", "pop"}
  BY <1>4 DEF LastGoes
<1>. QED
  <2>1. VisitClient => main'.at \notin {"swap", "pop"}
    <3>1. VisitClient => main \in [at : {"loop"}, i : Nat \ {0}, ignore : Clients \cup {Null}, toRemove : SUBSET Ids]
      BY <1>0 DEF VisitClient, MainOK, Idle
    <3>. QED  BY <3>1 DEF VisitClient
  <2>2. EndVisits => main'.at \notin {"swap", "pop"}
    BY DEF EndVisits, Idle
  <2>3. PopId => main'.at = "test"
    BY <1>0 DEF PopId, MainOK, Idle
  <2>4. Update \/ StartBroadcast \/ main' = Idle => main'.at \notin {"swap", "pop"}
    BY DEF Update, StartBroadcast, Idle
  <2>. QED  BY <1>1, <1>2, <1>3, <1>4, <2>1, <2>2, <2>3, <2>4, OtherWriters
            DEF MainStep, EndMessage, MessageClient, EndBroadcast

\* As long as onClientDisconnect leaves ids to messageAllClients, as the override of
\* exampleServer does, the clients of the registry have ids of their own, and
\* generateUniqueID never gives one of them away again, but for those whose push_back fell into
\* the loop of a broadcast that takes ids out, where it can cost them theirs.
THEOREM IdsIdentifyHolds ==
    ASSUME HookErases = FALSE
    PROVE  Spec => []IdsIdentify
<1>1. Init => IdInv
  <2>. SUFFICES ASSUME Init PROVE Early /\ NoIdYet /\ IdsIdentify /\ RemovesNoOthers /\ LastGoes
    BY SInvInit DEF IdInv
  <2>. QED  BY DEF Init, Early, NoIdYet, IdsIdentify, RemovesNoOthers, LastGoes, InIdsLoop, Registered, Idle
<1>2. IdInv /\ [Next]_vars => IdInv'
  <2>1. IdInv /\ Next => IdInv'
    BY SInvNext, EarlyNext, IdsIdentifyNext, RemovesNoOthersNext, LastGoesNext DEF IdInv
  <2>2. IdInv /\ UNCHANGED vars => IdInv'
    <3>. SUFFICES ASSUME IdInv, UNCHANGED vars
                  PROVE  Early' /\ NoIdYet' /\ IdsIdentify' /\ RemovesNoOthers' /\ LastGoes'
      BY SInvNext DEF IdInv
    <3>. QED  BY DEF IdInv, Early, NoIdYet, IdsIdentify, RemovesNoOthers, LastGoes, InIdsLoop, Registered, Newcomer,
                     Accepting, vars, registry, links
  <2>. QED  BY <2>1, <2>2
<1>3. IdInv => IdsIdentify
  BY DEF IdInv
<1>. QED  BY <1>1, <1>2, <1>3, PTL DEF Spec
================================================================================

