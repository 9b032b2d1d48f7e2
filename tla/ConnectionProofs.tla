---------------------------- MODULE ConnectionProofs ----------------------------
(***************************************************************************)
(* What holds of Connection for any messages, any number of send() calls   *)
(* and of breaks.  First: an end has one reader and one writer.  Then, by  *)
(* that: what an end reads is what it has asked for, and a connection is a *)
(* channel, that is, Connection implements Channel.                        *)
(***************************************************************************)
EXTENDS Connection, FiniteSetTheorems, FunctionTheorems, SequenceTheorems, Recursion, TLAPS

-----------------------------------------------------------------------------
(***************************************************************************)
(* The reader and the writer                                               *)
(*                                                                         *)
(* Neither OneReader nor OneWriter is inductive.  They count what an end   *)
(* has outstanding, spread over the reads and the writes that asio keeps   *)
(* and the handlers that are ready.  The proof gives each of these a       *)
(* token, an operation and the stage it is at.  Every step then adds one   *)
(* token, takes one away, or turns one into another (the lemmas RunRead to *)
(* ReadCompletes); close() turns many at once, but none into one of        *)
(* another operation.  CountInv bounds the numbers of tokens, and adds     *)
(* what is known of a socket that was not accepted, of one that is closed, *)
(* and of a connect that has failed.                                       *)
(***************************************************************************)

(* Counting the elements of a sequence that are in a set *)

Places(s, P) == {i \in DOMAIN s : s[i] \in P}
Count(s, P)  == Cardinality(Places(s, P))

\* A count is a natural number, and zero when no element is in the set.
LEMMA CountNat ==
    ASSUME NEW S, NEW s \in Seq(S), NEW P
    PROVE  /\ IsFiniteSet(Places(s, P)) /\ Count(s, P) \in Nat
           /\ Count(s, P) = 0 <=> \A i \in DOMAIN s : s[i] \notin P
<1>1. Places(s, P) \subseteq 1 .. Len(s) /\ IsFiniteSet(1 .. Len(s))
  BY FS_Interval DEF Places
<1>2. IsFiniteSet(Places(s, P))
  BY <1>1, FS_Subset
<1>. QED  BY <1>2, FS_CardinalityType, FS_EmptySet DEF Count, Places

\* The count of a concatenation
LEMMA CountConcat ==
    ASSUME NEW S, NEW s \in Seq(S), NEW t \in Seq(S), NEW P
    PROVE  Count(s \o t, P) = Count(s, P) + Count(t, P)
<1>. DEFINE m == Len(s)
            n == Len(t)
            A == Places(s, P)
            B == Places(t, P)
            C2 == {i + m : i \in B}
            f == [i \in B |-> i + m]
<1>1. /\ m \in Nat /\ n \in Nat /\ A \subseteq 1 .. m /\ B \subseteq 1 .. n
      /\ IsFiniteSet(A) /\ IsFiniteSet(B)
  <2>1. IsFiniteSet(A) /\ IsFiniteSet(B)
    BY CountNat
  <2>. QED  BY <2>1 DEF Places
<1>2. Places(s \o t, P) = A \cup C2
  <2>1. s \o t \in Seq(S) /\ Len(s \o t) = m + n
        /\ \A i \in 1 .. m + n : (s \o t)[i] = IF i <= m THEN s[i] ELSE t[i - m]
    BY ConcatProperties
  <2>. DEFINE w == s \o t
  <2>. HIDE DEF w
  <2>2. ASSUME NEW i \in Places(w, P) PROVE i \in A \cup C2
    <3>1. i \in 1 .. m + n /\ w[i] \in P
      BY <2>1 DEF Places, w
    <3>2. CASE i <= m
      BY <1>1, <2>1, <3>1, <3>2 DEF Places, w
    <3>3. CASE i > m
      <4>1. i - m \in 1 .. n /\ t[i - m] \in P /\ (i - m) + m = i
        BY <1>1, <2>1, <3>1, <3>3 DEF w
      <4>. QED  BY <4>1 DEF Places
    <3>. QED  BY <1>1, <3>1, <3>2, <3>3
  <2>3. ASSUME NEW i \in A PROVE i \in Places(w, P)
    BY <1>1, <2>1 DEF Places, w
  <2>4. ASSUME NEW i \in B PROVE i + m \in Places(w, P)
    BY <1>1, <2>1 DEF Places, w
  <2>. QED  BY <2>2, <2>3, <2>4 DEF w
<1>3. f \in Bijection(B, C2)
  <2>1. \A a, b \in B : f[a] = f[b] => a = b
    BY <1>1
  <2>2. f \in [B -> C2]
    OBVIOUS
  <2>3. \A c \in C2 : \E b \in B : f[b] = c
    OBVIOUS
  <2>. HIDE DEF f, C2
  <2>. QED  BY <2>1, <2>2, <2>3 DEF Bijection, Injection, Surjection, IsInjective
<1>4. IsFiniteSet(C2) /\ Cardinality(C2) = Cardinality(B)
  <2>1. ExistsBijection(B, C2)
    BY <1>3 DEF ExistsBijection
  <2>. HIDE DEF C2, B
  <2>. QED  BY <1>1, <2>1, FS_Bijection
<1>5. A \cap C2 = {}
  BY <1>1
<1>6. Cardinality(A \cup C2) = Cardinality(A) + Cardinality(C2)
  <2>1. Cardinality(A) \in Nat /\ Cardinality(C2) \in Nat
    BY <1>1, <1>4, FS_CardinalityType
  <2>2. /\ Cardinality(A \cup C2) = Cardinality(A) + Cardinality(C2) - Cardinality(A \cap C2)
        /\ Cardinality(A \cap C2) = 0
    <3>. HIDE DEF A, C2
    <3>. QED  BY <1>1, <1>4, <1>5, FS_Union, FS_EmptySet
  <2>. HIDE DEF A, C2
  <2>. QED  BY <2>1, <2>2
<1>. QED  BY <1>2, <1>4, <1>6 DEF Count

\* The counts of the empty sequence and of a sequence of one element
LEMMA CountSmall ==
    ASSUME NEW x, NEW P
    PROVE  Count(<< >>, P) = 0 /\ Count(<<x>>, P) = IF x \in P THEN 1 ELSE 0
<1>1. Places(<< >>, P) = {}
  BY DEF Places
<1>2. Places(<<x>>, P) = IF x \in P THEN {1} ELSE {}
  BY DEF Places
<1>. QED  BY <1>1, <1>2, FS_EmptySet, FS_Singleton DEF Count

\* The count when an element is appended
LEMMA CountAppend ==
    ASSUME NEW S, NEW s \in Seq(S), NEW x \in S, NEW P
    PROVE  Count(Append(s, x), P) = Count(s, P) + (IF x \in P THEN 1 ELSE 0)
<1>1. Append(s, x) = s \o <<x>>
  OBVIOUS
<1>2. Count(s \o <<x>>, P) = Count(s, P) + Count(<<x>>, P)
  <2>1. <<x>> \in Seq(S)
    OBVIOUS
  <2>. QED  BY <2>1, CountConcat
<1>. QED  BY <1>1, <1>2, CountSmall

\* The count without the first element
LEMMA CountTail ==
    ASSUME NEW S, NEW s \in Seq(S), s # << >>, NEW P
    PROVE  Count(s, P) = (IF Head(s) \in P THEN 1 ELSE 0) + Count(Tail(s), P)
<1>1. s = <<Head(s)>> \o Tail(s) /\ Tail(s) \in Seq(S) /\ <<Head(s)>> \in Seq(S)
  OBVIOUS
<1>2. Count(<<Head(s)>> \o Tail(s), P) = Count(<<Head(s)>>, P) + Count(Tail(s), P)
  BY <1>1, CountConcat
<1>. QED  BY <1>1, <1>2, CountSmall

\* The count of two sets that are disjoint
LEMMA CountUnion ==
    ASSUME NEW S, NEW s \in Seq(S), NEW P, NEW Q, P \cap Q = {}
    PROVE  Count(s, P \cup Q) = Count(s, P) + Count(s, Q)
<1>. DEFINE A == Places(s, P)
            B == Places(s, Q)
<1>1. Places(s, P \cup Q) = A \cup B /\ A \cap B = {}
  BY DEF Places
<1>2. IsFiniteSet(A) /\ IsFiniteSet(B) /\ Cardinality(A) \in Nat /\ Cardinality(B) \in Nat
  BY CountNat DEF Count
<1>3. /\ Cardinality(A \cup B) = Cardinality(A) + Cardinality(B) - Cardinality(A \cap B)
      /\ Cardinality(A \cap B) = 0
  <2>. HIDE DEF A, B
  <2>. QED  BY <1>1, <1>2, FS_Union, FS_EmptySet
<1>4. Cardinality(A \cup B) = Cardinality(A) + Cardinality(B)
  <2>. HIDE DEF A, B
  <2>. QED  BY <1>2, <1>3
<1>. QED  BY <1>1, <1>4 DEF Count

-----------------------------------------------------------------------------
(* The io_context of an end, field by field *)

Sockets == {"none", "open", "closed"}
AllOps  == ReadOps \cup WriteOps \cup {"connect"}

\* What the writes of an end carry before anything is known about their order
AnyUnit   == Units \cup {NoUnit, Handshake("noise")}
AnyWrites == [op : WriteOps \cup {"connect"}, unit : AnyUnit]

IoRecord == [socket : Sockets, reading : Seq(ReadOps), writing : Seq(AnyWrites),
             ready : Seq(Handlers), running : BOOLEAN]

IoTyped == io \in [Ends -> IoRecord]

\* The peer is the other one of the two ends.
LEMMA TwoEnds ==
    ASSUME NEW e \in Ends
    PROVE  /\ Peer(e) \in Ends /\ Peer(e) # e /\ Peer(Peer(e)) = e
           /\ \A d \in Ends : d = e \/ d = Peer(e)
BY DEF Ends, Peer

\* The handler of an operation that has completed
LEMMA DoneHandler ==
    ASSUME NEW op \in AllOps, NEW b \in BOOLEAN
    PROVE  Done(op, b) \in Handlers /\ Done(op, b).handler = op /\ Done(op, b).ok = b
BY DEF Done, AllOps, Handlers

\* A handler that runs leaves io as its record says.
LEMMA ContinueFields ==
    ASSUME IoTyped, NEW e \in Ends, NEW r \in IoRecord, Continue(e, r)
    PROVE  /\ IoTyped' /\ io'[Peer(e)] = io[Peer(e)]
           /\ io'[e].socket = r.socket /\ io'[e].reading = r.reading
           /\ io'[e].writing = r.writing /\ io'[e].ready = r.ready
<1>1. KeepRunning(e, r) \in IoRecord
  BY DEF KeepRunning, IoRecord
<1>2. /\ KeepRunning(e, r).socket = r.socket /\ KeepRunning(e, r).reading = r.reading
      /\ KeepRunning(e, r).writing = r.writing /\ KeepRunning(e, r).ready = r.ready
  BY DEF KeepRunning, IoRecord
<1>3. io' = [io EXCEPT ![e] = KeepRunning(e, r)]
  BY DEF Continue
<1>. HIDE DEF IoRecord
<1>. QED  BY <1>1, <1>2, <1>3, TwoEnds DEF IoTyped

\* io[e] without the handler that runs, field by field
LEMMA RestFields ==
    ASSUME IoTyped, NEW e \in Ends, io[e].ready # << >>
    PROVE  /\ rest(e) \in IoRecord
           /\ rest(e).socket = io[e].socket /\ rest(e).reading = io[e].reading
           /\ rest(e).writing = io[e].writing /\ rest(e).ready = Tail(io[e].ready)
<1>1. Tail(io[e].ready) \in Seq(Handlers)
  BY DEF IoTyped, IoRecord
<1>. QED  BY <1>1 DEF rest, IoTyped, IoRecord

\* post(), field by field
LEMMA PostFields ==
    ASSUME NEW r \in IoRecord, NEW h \in Handlers
    PROVE  /\ post(r, h) \in IoRecord
           /\ post(r, h).socket = r.socket /\ post(r, h).reading = r.reading
           /\ post(r, h).writing = r.writing /\ post(r, h).ready = Append(r.ready, h)
<1>1. Append(r.ready, h) \in Seq(Handlers)
  BY DEF IoRecord
<1>. QED  BY <1>1 DEF post, IoRecord

\* async_read: on an open socket the read is outstanding, on any other one its
\* handler is ready with an error.
LEMMA ReadFields ==
    ASSUME NEW r \in IoRecord, NEW op \in ReadOps
    PROVE  LET t == async_read(r, op)
           IN  /\ t \in IoRecord /\ t.socket = r.socket /\ t.writing = r.writing
               /\ r.socket = "open" => t.reading = Append(r.reading, op) /\ t.ready = r.ready
               /\ r.socket # "open" => t.reading = r.reading /\ t.ready = Append(r.ready, Done(op, FALSE))
<1>1. CASE r.socket = "open"
  <2>1. Append(r.reading, op) \in Seq(ReadOps)
    BY DEF IoRecord
  <2>. QED  BY <1>1, <2>1 DEF async_read, IoRecord
<1>2. CASE r.socket # "open"
  <2>1. Done(op, FALSE) \in Handlers
    BY DoneHandler DEF AllOps
  <2>. QED  BY <1>2, <2>1, PostFields DEF async_read
<1>. QED  BY <1>1, <1>2

\* async_write: the same for a write
LEMMA WriteFields ==
    ASSUME NEW r \in IoRecord, NEW op \in WriteOps, NEW u \in AnyUnit
    PROVE  LET t == async_write(r, op, u)
           IN  /\ t \in IoRecord /\ t.socket = r.socket /\ t.reading = r.reading
               /\ r.socket = "open" => /\ t.writing = Append(r.writing, [op |-> op, unit |-> u])
                                       /\ t.ready = r.ready
               /\ r.socket # "open" => t.writing = r.writing /\ t.ready = Append(r.ready, Done(op, FALSE))
<1>1. CASE r.socket = "open"
  <2>1. Append(r.writing, [op |-> op, unit |-> u]) \in Seq(AnyWrites)
    BY DEF IoRecord, AnyWrites
  <2>. QED  BY <1>1, <2>1 DEF async_write, IoRecord
<1>2. CASE r.socket # "open"
  <2>1. Done(op, FALSE) \in Handlers
    BY DoneHandler DEF AllOps
  <2>. QED  BY <1>2, <2>1, PostFields DEF async_write
<1>. QED  BY <1>1, <1>2

\* A function on 1 .. n is a sequence of length n.
LEMMA MakeSeq ==
    ASSUME NEW S, NEW n \in Nat, NEW f \in [1 .. n -> S]
    PROVE  f \in Seq(S) /\ Len(f) = n /\ DOMAIN f = 1 .. n
OBVIOUS

\* The handlers of what a close aborts
AbortedReads(r)  == [i \in DOMAIN r.reading |-> Done(r.reading[i], FALSE)]
AbortedWrites(r) == [i \in DOMAIN r.writing |-> Done(r.writing[i].op, FALSE)]

\* close(): nothing is outstanding any more, and a handler is ready for each
\* operation that was.
LEMMA CloseFields ==
    ASSUME NEW r \in IoRecord
    PROVE  /\ AbortedReads(r) \in Seq(Handlers) /\ AbortedWrites(r) \in Seq(Handlers)
           /\ close(r) \in IoRecord /\ close(r).socket = "closed"
           /\ close(r).reading = << >> /\ close(r).writing = << >>
           /\ close(r).ready = r.ready \o AbortedReads(r) \o AbortedWrites(r)
<1>1. AbortedReads(r) \in Seq(Handlers)
  <2>1. r.reading \in Seq(ReadOps)
    BY DEF IoRecord
  <2>2. ASSUME NEW i \in 1 .. Len(r.reading) PROVE Done(r.reading[i], FALSE) \in Handlers
    <3>1. r.reading[i] \in AllOps
      BY <2>1 DEF AllOps
    <3>. QED  BY <3>1, DoneHandler
  <2>3. AbortedReads(r) = [i \in 1 .. Len(r.reading) |-> Done(r.reading[i], FALSE)]
        /\ Len(r.reading) \in Nat
    BY <2>1 DEF AbortedReads
  <2>4. AbortedReads(r) \in [1 .. Len(r.reading) -> Handlers]
    BY <2>2, <2>3
  <2>. QED  BY <2>3, <2>4, MakeSeq
<1>2. AbortedWrites(r) \in Seq(Handlers)
  <2>1. r.writing \in Seq(AnyWrites)
    BY DEF IoRecord
  <2>2. ASSUME NEW i \in 1 .. Len(r.writing) PROVE Done(r.writing[i].op, FALSE) \in Handlers
    <3>1. r.writing[i] \in AnyWrites
      BY <2>1
    <3>2. r.writing[i].op \in AllOps
      BY <3>1 DEF AllOps, AnyWrites
    <3>. QED  BY <3>2, DoneHandler
  <2>3. AbortedWrites(r) = [i \in 1 .. Len(r.writing) |-> Done(r.writing[i].op, FALSE)]
        /\ Len(r.writing) \in Nat
    BY <2>1 DEF AbortedWrites
  <2>4. AbortedWrites(r) \in [1 .. Len(r.writing) -> Handlers]
    BY <2>2, <2>3
  <2>. QED  BY <2>3, <2>4, MakeSeq
<1>3. r.ready \o AbortedReads(r) \o AbortedWrites(r) \in Seq(Handlers)
  <2>1. r.ready \in Seq(Handlers)
    BY DEF IoRecord
  <2>. QED  BY <1>1, <1>2, <2>1
<1>4. close(r) = [r EXCEPT !.socket = "closed", !.reading = << >>, !.writing = << >>,
                           !.ready = r.ready \o AbortedReads(r) \o AbortedWrites(r)]
  BY DEF close, AbortedReads, AbortedWrites, IoRecord
<1>. DEFINE q == r.ready \o AbortedReads(r) \o AbortedWrites(r)
<1>. HIDE DEF q
<1>5. << >> \in Seq(ReadOps) /\ << >> \in Seq(AnyWrites) /\ q \in Seq(Handlers)
  BY <1>3 DEF q
<1>6. close(r) = [socket |-> "closed", reading |-> << >>, writing |-> << >>,
                  ready |-> q, running |-> r.running]
  BY <1>4 DEF q, IoRecord
<1>. QED  BY <1>1, <1>2, <1>5, <1>6 DEF IoRecord, Sockets, q

-----------------------------------------------------------------------------
(* What an end has outstanding, as tokens: an operation and where it is *)

Stages == {"reading", "writing", "ok", "failed"}
Stage(h) == IF h.handler \in {"send", "close"} THEN "posted" ELSE IF h.ok THEN "ok" ELSE "failed"
Token(h) == <<Stage(h), h.handler>>
Tokens   == (Stages \X AllOps) \cup ({"posted"} \X {"send", "close"})

\* Every token of the operations of a set
Of(ops) == Stages \X ops

\* How many of the tokens of P the record r holds
Cnt(r, P) == Count(r.reading, {op \in ReadOps : <<"reading", op>> \in P})
             + Count(r.writing, {w \in AnyWrites : <<"writing", w.op>> \in P})
             + Count(r.ready, {h \in Handlers : Token(h) \in P})

Bit(b) == IF b THEN 1 ELSE 0

\* The number of tokens, and each of its three parts, is a natural number.
LEMMA CntNat ==
    ASSUME NEW r \in IoRecord, NEW P
    PROVE  /\ Cnt(r, P) \in Nat
           /\ Count(r.reading, {op \in ReadOps : <<"reading", op>> \in P}) \in Nat
           /\ Count(r.writing, {w \in AnyWrites : <<"writing", w.op>> \in P}) \in Nat
           /\ Count(r.ready, {h \in Handlers : Token(h) \in P}) \in Nat
<1>. DEFINE a == Count(r.reading, {op \in ReadOps : <<"reading", op>> \in P})
            b == Count(r.writing, {w \in AnyWrites : <<"writing", w.op>> \in P})
            c == Count(r.ready, {h \in Handlers : Token(h) \in P})
<1>1. r.reading \in Seq(ReadOps) /\ r.writing \in Seq(AnyWrites) /\ r.ready \in Seq(Handlers)
  BY DEF IoRecord
<1>2. a \in Nat
  BY <1>1, CountNat
<1>3. b \in Nat
  BY <1>1, CountNat
<1>4. c \in Nat
  BY <1>1, CountNat
<1>5. Cnt(r, P) = a + b + c
  BY DEF Cnt
<1>. HIDE DEF a, b, c
<1>6. Cnt(r, P) \in Nat
  BY <1>2, <1>3, <1>4, <1>5
<1>. QED  BY <1>2, <1>3, <1>4, <1>6 DEF a, b, c

\* The number of tokens of two disjoint sets
LEMMA CntUnion ==
    ASSUME NEW r \in IoRecord, NEW P, NEW Q, P \cap Q = {}
    PROVE  Cnt(r, P \cup Q) = Cnt(r, P) + Cnt(r, Q)
<1>. DEFINE A(R) == {op \in ReadOps : <<"reading", op>> \in R}
            B(R) == {w \in AnyWrites : <<"writing", w.op>> \in R}
            C3(R) == {h \in Handlers : Token(h) \in R}
<1>1. /\ A(P \cup Q) = A(P) \cup A(Q) /\ A(P) \cap A(Q) = {}
      /\ B(P \cup Q) = B(P) \cup B(Q) /\ B(P) \cap B(Q) = {}
      /\ C3(P \cup Q) = C3(P) \cup C3(Q) /\ C3(P) \cap C3(Q) = {}
  OBVIOUS
<1>2. r.reading \in Seq(ReadOps) /\ r.writing \in Seq(AnyWrites) /\ r.ready \in Seq(Handlers)
  BY DEF IoRecord
<1>3. \A R : /\ Cnt(r, R) = Count(r.reading, A(R)) + Count(r.writing, B(R)) + Count(r.ready, C3(R))
             /\ Count(r.reading, A(R)) \in Nat /\ Count(r.writing, B(R)) \in Nat
             /\ Count(r.ready, C3(R)) \in Nat
  BY CntNat DEF Cnt
<1>. HIDE DEF A, B, C3
<1>5. Count(r.reading, A(P \cup Q)) = Count(r.reading, A(P)) + Count(r.reading, A(Q))
  <2>1. Count(r.reading, A(P) \cup A(Q)) = Count(r.reading, A(P)) + Count(r.reading, A(Q))
    BY <1>1, <1>2, CountUnion
  <2>. QED  BY <1>1, <2>1
<1>6. Count(r.writing, B(P \cup Q)) = Count(r.writing, B(P)) + Count(r.writing, B(Q))
  <2>1. Count(r.writing, B(P) \cup B(Q)) = Count(r.writing, B(P)) + Count(r.writing, B(Q))
    BY <1>1, <1>2, CountUnion
  <2>. QED  BY <1>1, <2>1
<1>7. Count(r.ready, C3(P \cup Q)) = Count(r.ready, C3(P)) + Count(r.ready, C3(Q))
  <2>1. Count(r.ready, C3(P) \cup C3(Q)) = Count(r.ready, C3(P)) + Count(r.ready, C3(Q))
    BY <1>1, <1>2, CountUnion
  <2>. QED  BY <1>1, <2>1
<1>. QED  BY <1>3, <1>5, <1>6, <1>7

\* What is counted in a part is counted in the whole.
LEMMA CntPart ==
    ASSUME NEW r \in IoRecord, NEW P, NEW Q, P \subseteq Q
    PROVE  Cnt(r, P) <= Cnt(r, Q)
<1>. DEFINE D == Q \ P
<1>1. Q = P \cup D /\ P \cap D = {}
  OBVIOUS
<1>2. Cnt(r, P \cup D) = Cnt(r, P) + Cnt(r, D)
  BY <1>1, CntUnion
<1>3. Cnt(r, P) \in Nat /\ Cnt(r, D) \in Nat
  BY CntNat
<1>. HIDE DEF D
<1>. QED  BY <1>1, <1>2, <1>3

\* None is counted when there is none.
LEMMA CntZero ==
    ASSUME NEW r \in IoRecord, NEW P
    PROVE  Cnt(r, P) = 0 <=> /\ \A i \in DOMAIN r.reading : <<"reading", r.reading[i]>> \notin P
                             /\ \A i \in DOMAIN r.writing : <<"writing", r.writing[i].op>> \notin P
                             /\ \A i \in DOMAIN r.ready : Token(r.ready[i]) \notin P
<1>. DEFINE A == {op \in ReadOps : <<"reading", op>> \in P}
            B == {w \in AnyWrites : <<"writing", w.op>> \in P}
            C3 == {h \in Handlers : Token(h) \in P}
<1>1. r.reading \in Seq(ReadOps) /\ r.writing \in Seq(AnyWrites) /\ r.ready \in Seq(Handlers)
  BY DEF IoRecord
<1>2. Count(r.reading, A) = 0 <=> \A i \in DOMAIN r.reading : <<"reading", r.reading[i]>> \notin P
  <2>1. Count(r.reading, A) = 0 <=> \A i \in DOMAIN r.reading : r.reading[i] \notin A
    <3>. HIDE DEF A
    <3>. QED  BY <1>1, CountNat
  <2>2. \A i \in DOMAIN r.reading : r.reading[i] \in ReadOps
    BY <1>1
  <2>. QED  BY <2>1, <2>2
<1>3. Count(r.writing, B) = 0 <=> \A i \in DOMAIN r.writing : <<"writing", r.writing[i].op>> \notin P
  <2>1. Count(r.writing, B) = 0 <=> \A i \in DOMAIN r.writing : r.writing[i] \notin B
    <3>. HIDE DEF B
    <3>. QED  BY <1>1, CountNat
  <2>2. \A i \in DOMAIN r.writing : r.writing[i] \in AnyWrites
    BY <1>1
  <2>. QED  BY <2>1, <2>2
<1>4. Count(r.ready, C3) = 0 <=> \A i \in DOMAIN r.ready : Token(r.ready[i]) \notin P
  <2>1. Count(r.ready, C3) = 0 <=> \A i \in DOMAIN r.ready : r.ready[i] \notin C3
    <3>. HIDE DEF C3
    <3>. QED  BY <1>1, CountNat
  <2>2. \A i \in DOMAIN r.ready : r.ready[i] \in Handlers
    BY <1>1
  <2>. QED  BY <2>1, <2>2
<1>5. /\ Cnt(r, P) = Count(r.reading, A) + Count(r.writing, B) + Count(r.ready, C3)
      /\ Count(r.reading, A) \in Nat /\ Count(r.writing, B) \in Nat /\ Count(r.ready, C3) \in Nat
  BY CntNat DEF Cnt
<1>6. Cnt(r, P) = 0 <=> Count(r.reading, A) = 0 /\ Count(r.writing, B) = 0 /\ Count(r.ready, C3) = 0
  <2>. HIDE DEF A, B, C3
  <2>. QED  BY <1>5
<1>. HIDE DEF A, B, C3
<1>. QED  BY <1>2, <1>3, <1>4, <1>6

\* The token of a handler is one of Tokens.
LEMMA HandlerToken ==
    ASSUME NEW h \in Handlers
    PROVE  Token(h) \in Tokens
BY DEF Token, Stage, Tokens, Stages, AllOps, Handlers

\* The token of a handler whose operation has completed
LEMMA DoneToken ==
    ASSUME NEW op \in AllOps, NEW b \in BOOLEAN
    PROVE  Token(Done(op, b)) = <<IF b THEN "ok" ELSE "failed", op>>
BY DEF Token, Stage, Done, AllOps, ReadOps, WriteOps, DataOps

-----------------------------------------------------------------------------
(* What the steps of asio do to the tokens *)

\* post() adds the token of its handler.
LEMMA CntPost ==
    ASSUME NEW r \in IoRecord, NEW h \in Handlers, NEW P
    PROVE  Cnt(post(r, h), P) = Cnt(r, P) + Bit(Token(h) \in P)
<1>. DEFINE SR == {op \in ReadOps : <<"reading", op>> \in P}
            SW == {w \in AnyWrites : <<"writing", w.op>> \in P}
            H == {g \in Handlers : Token(g) \in P}
<1>1. /\ post(r, h).reading = r.reading /\ post(r, h).writing = r.writing
      /\ post(r, h).ready = Append(r.ready, h)
  BY PostFields
<1>2. Count(Append(r.ready, h), H) = Count(r.ready, H) + (IF h \in H THEN 1 ELSE 0)
  <2>1. r.ready \in Seq(Handlers)
    BY DEF IoRecord
  <2>. HIDE DEF H
  <2>. QED  BY <2>1, CountAppend
<1>3. (IF h \in H THEN 1 ELSE 0) = Bit(Token(h) \in P)
  BY DEF Bit
<1>4. Count(r.ready, H) \in Nat
  BY CntNat
<1>5. Cnt(r, P) \in Nat /\ Bit(Token(h) \in P) \in Nat
  BY CntNat DEF Bit
<1>. DEFINE t == post(r, h)
            bit == Bit(Token(h) \in P)
<1>6. /\ Cnt(t, P) = Count(t.reading, SR) + Count(t.writing, SW) + Count(t.ready, H)
      /\ Cnt(r, P) = Count(r.reading, SR) + Count(r.writing, SW) + Count(r.ready, H)
  BY DEF Cnt
<1>7. /\ Count(r.reading, SR) \in Nat
      /\ Count(r.writing, SW) \in Nat
  BY CntNat
<1>. HIDE DEF H, SR, SW, t, bit
<1>8. Cnt(t, P) = Cnt(r, P) + bit
  BY <1>1, <1>2, <1>3, <1>4, <1>5, <1>6, <1>7 DEF t, bit
<1>. QED  BY <1>8 DEF t, bit

\* Where an operation goes that is started on the socket of r
Started(r, stage, op) == <<IF r.socket = "open" THEN stage ELSE "failed", op>>

\* async_read adds the token of the read that has started.
LEMMA CntRead ==
    ASSUME NEW r \in IoRecord, NEW op \in ReadOps, NEW P
    PROVE  Cnt(async_read(r, op), P) = Cnt(r, P) + Bit(Started(r, "reading", op) \in P)
<1>1. CASE r.socket = "open"
  <2>. DEFINE A == {o \in ReadOps : <<"reading", o>> \in P}
              SW == {w \in AnyWrites : <<"writing", w.op>> \in P}
              SH == {h \in Handlers : Token(h) \in P}
              t == async_read(r, op)
  <2>1. t.reading = Append(r.reading, op) /\ t.writing = r.writing /\ t.ready = r.ready
    BY <1>1, ReadFields
  <2>2. Count(Append(r.reading, op), A) = Count(r.reading, A) + (IF op \in A THEN 1 ELSE 0)
    <3>1. r.reading \in Seq(ReadOps)
      BY DEF IoRecord
    <3>. HIDE DEF A
    <3>. QED  BY <3>1, CountAppend
  <2>3. (IF op \in A THEN 1 ELSE 0) = Bit(Started(r, "reading", op) \in P)
    BY <1>1 DEF Bit, Started
  <2>4. /\ Cnt(t, P) = Count(t.reading, A) + Count(t.writing, SW) + Count(t.ready, SH)
        /\ Cnt(r, P) = Count(r.reading, A) + Count(r.writing, SW) + Count(r.ready, SH)
    BY DEF Cnt
  <2>5. /\ Count(r.reading, A) \in Nat
        /\ Count(r.writing, SW) \in Nat
        /\ Count(r.ready, SH) \in Nat
    BY CntNat
  <2>6. Bit(Started(r, "reading", op) \in P) \in Nat
    BY DEF Bit
  <2>. HIDE DEF A, SW, SH, t
  <2>. QED  BY <2>1, <2>2, <2>3, <2>4, <2>5, <2>6 DEF t
<1>2. CASE r.socket # "open"
  <2>1. /\ Done(op, FALSE) \in Handlers /\ Token(Done(op, FALSE)) = Started(r, "reading", op)
        /\ async_read(r, op) = post(r, Done(op, FALSE))
    BY <1>2, DoneHandler, DoneToken DEF AllOps, Started, async_read
  <2>2. Cnt(post(r, Done(op, FALSE)), P) = Cnt(r, P) + Bit(Token(Done(op, FALSE)) \in P)
    BY <2>1, CntPost
  <2>. QED  BY <2>1, <2>2
<1>. QED  BY <1>1, <1>2

\* async_write adds the token of the write that has started.
LEMMA CntWrite ==
    ASSUME NEW r \in IoRecord, NEW op \in WriteOps, NEW u \in AnyUnit, NEW P
    PROVE  Cnt(async_write(r, op, u), P) = Cnt(r, P) + Bit(Started(r, "writing", op) \in P)
<1>1. CASE r.socket = "open"
  <2>. DEFINE A == {w \in AnyWrites : <<"writing", w.op>> \in P}
              SR == {o \in ReadOps : <<"reading", o>> \in P}
              SH == {h \in Handlers : Token(h) \in P}
              t == async_write(r, op, u)
              x == [op |-> op, unit |-> u]
  <2>1. t.reading = r.reading /\ t.writing = Append(r.writing, x) /\ t.ready = r.ready
    BY <1>1, WriteFields
  <2>2. x \in AnyWrites /\ x.op = op
    BY DEF AnyWrites
  <2>3. Count(Append(r.writing, x), A) = Count(r.writing, A) + (IF x \in A THEN 1 ELSE 0)
    <3>1. r.writing \in Seq(AnyWrites)
      BY DEF IoRecord
    <3>. HIDE DEF A, x
    <3>. QED  BY <2>2, <3>1, CountAppend
  <2>4. (IF x \in A THEN 1 ELSE 0) = Bit(Started(r, "writing", op) \in P)
    BY <1>1, <2>2 DEF Bit, Started
  <2>5. /\ Cnt(t, P) = Count(t.reading, SR) + Count(t.writing, A) + Count(t.ready, SH)
        /\ Cnt(r, P) = Count(r.reading, SR) + Count(r.writing, A) + Count(r.ready, SH)
    BY DEF Cnt
  <2>6. /\ Count(r.writing, A) \in Nat
        /\ Count(r.reading, SR) \in Nat
        /\ Count(r.ready, SH) \in Nat
    BY CntNat
  <2>7. Bit(Started(r, "writing", op) \in P) \in Nat
    BY DEF Bit
  <2>. HIDE DEF A, SR, SH, t, x
  <2>. QED  BY <2>1, <2>3, <2>4, <2>5, <2>6, <2>7 DEF t
<1>2. CASE r.socket # "open"
  <2>1. /\ Done(op, FALSE) \in Handlers /\ Token(Done(op, FALSE)) = Started(r, "writing", op)
        /\ async_write(r, op, u) = post(r, Done(op, FALSE))
    BY <1>2, DoneHandler, DoneToken DEF AllOps, Started, async_write
  <2>2. Cnt(post(r, Done(op, FALSE)), P) = Cnt(r, P) + Bit(Token(Done(op, FALSE)) \in P)
    BY <2>1, CntPost
  <2>. QED  BY <2>1, <2>2
<1>. QED  BY <1>1, <1>2

\* What becomes of a token when the socket is closed
Aborted(t) == IF t[1] \in {"reading", "writing"} THEN <<"failed", t[2]>> ELSE t

\* close() turns the token of each outstanding operation into that of a failed
\* one, and adds and removes none.
LEMMA CntClose ==
    ASSUME NEW r \in IoRecord, NEW P
    PROVE  Cnt(close(r), P) = Cnt(r, {t \in Tokens : Aborted(t) \in P})
<1>. DEFINE Q == {t \in Tokens : Aborted(t) \in P}
            H(R) == {h \in Handlers : Token(h) \in R}
            R1 == {op \in ReadOps : <<"reading", op>> \in Q}
            W1 == {w \in AnyWrites : <<"writing", w.op>> \in Q}
            c == close(r)
            x == AbortedReads(r)
            y == AbortedWrites(r)
<1>1. /\ x \in Seq(Handlers) /\ y \in Seq(Handlers) /\ r.ready \in Seq(Handlers)
      /\ c.reading = << >> /\ c.writing = << >> /\ c.ready = r.ready \o x \o y
  BY CloseFields DEF IoRecord
<1>2. Count(c.ready, H(P)) = Count(r.ready, H(P)) + Count(x, H(P)) + Count(y, H(P))
  <2>. DEFINE h == H(P)
  <2>. HIDE DEF h, x, y, c
  <2>1. Count(r.ready \o x, h) = Count(r.ready, h) + Count(x, h) /\ r.ready \o x \in Seq(Handlers)
    BY <1>1, CountConcat
  <2>2. Count(r.ready \o x \o y, h) = Count(r.ready \o x, h) + Count(y, h)
    BY <1>1, <2>1, CountConcat
  <2>. QED  BY <1>1, <2>1, <2>2 DEF h
<1>3. H(Q) = H(P)
  <2>1. ASSUME NEW h \in Handlers PROVE Aborted(Token(h)) = Token(h) /\ Token(h) \in Tokens
    BY HandlerToken DEF Aborted, Token, Stage
  <2>. QED  BY <2>1
<1>4. Count(x, H(P)) = Count(r.reading, R1)
  <2>1. r.reading \in Seq(ReadOps)
    BY DEF IoRecord
  <2>2. DOMAIN x = DOMAIN r.reading /\ \A i \in DOMAIN x : x[i] = Done(r.reading[i], FALSE)
    BY DEF AbortedReads
  <2>3. ASSUME NEW i \in DOMAIN r.reading
        PROVE  x[i] \in H(P) <=> r.reading[i] \in R1
    <3>1. r.reading[i] \in ReadOps /\ r.reading[i] \in AllOps
      BY <2>1 DEF AllOps
    <3>2. /\ Done(r.reading[i], FALSE) \in Handlers
          /\ Token(Done(r.reading[i], FALSE)) = <<"failed", r.reading[i]>>
      BY <3>1, DoneHandler, DoneToken
    <3>3. <<"reading", r.reading[i]>> \in Tokens
      BY <3>1 DEF Tokens, Stages
    <3>4. Aborted(<<"reading", r.reading[i]>>) = <<"failed", r.reading[i]>>
      BY DEF Aborted
    <3>. QED  BY <2>2, <3>1, <3>2, <3>3, <3>4
  <2>4. Places(x, H(P)) = Places(r.reading, R1)
    <3>. HIDE DEF x, H, R1
    <3>. QED  BY <2>2, <2>3 DEF Places
  <2>. QED  BY <2>4 DEF Count
<1>5. Count(y, H(P)) = Count(r.writing, W1)
  <2>1. r.writing \in Seq(AnyWrites)
    BY DEF IoRecord
  <2>2. DOMAIN y = DOMAIN r.writing /\ \A i \in DOMAIN y : y[i] = Done(r.writing[i].op, FALSE)
    BY DEF AbortedWrites
  <2>3. ASSUME NEW i \in DOMAIN r.writing
        PROVE  y[i] \in H(P) <=> r.writing[i] \in W1
    <3>0. r.writing[i] \in AnyWrites
      BY <2>1
    <3>1. r.writing[i].op \in AllOps
      BY <3>0 DEF AllOps, AnyWrites
    <3>2. /\ Done(r.writing[i].op, FALSE) \in Handlers
          /\ Token(Done(r.writing[i].op, FALSE)) = <<"failed", r.writing[i].op>>
      BY <3>1, DoneHandler, DoneToken
    <3>3. <<"writing", r.writing[i].op>> \in Tokens
      BY <3>1 DEF Tokens, Stages
    <3>4. Aborted(<<"writing", r.writing[i].op>>) = <<"failed", r.writing[i].op>>
      BY DEF Aborted
    <3>. QED  BY <2>2, <3>0, <3>2, <3>3, <3>4
  <2>4. Places(y, H(P)) = Places(r.writing, W1)
    <3>. HIDE DEF y, H, W1
    <3>. QED  BY <2>2, <2>3 DEF Places
  <2>. QED  BY <2>4 DEF Count
<1>6. Count(<< >>, {op \in ReadOps : <<"reading", op>> \in P}) = 0
      /\ Count(<< >>, {w \in AnyWrites : <<"writing", w.op>> \in P}) = 0
  BY CountSmall
<1>7. /\ Cnt(c, P) = 0 + 0 + Count(c.ready, H(P))
      /\ Cnt(r, Q) = Count(r.reading, R1) + Count(r.writing, W1) + Count(r.ready, H(Q))
  <2>. HIDE DEF c
  <2>. QED  BY <1>1, <1>6 DEF Cnt
<1>8. Count(r.reading, R1) \in Nat /\ Count(r.writing, W1) \in Nat /\ Count(r.ready, H(Q)) \in Nat
  <2>. HIDE DEF Q
  <2>. QED  BY CntNat
<1>. HIDE DEF Q, H, R1, W1, c, x, y
<1>9. Cnt(c, P) = Cnt(r, Q)
  BY <1>2, <1>3, <1>4, <1>5, <1>7, <1>8
<1>. QED  BY <1>9 DEF Q, c

-----------------------------------------------------------------------------
(* The same for the steps of Connection *)

\* The token of the handler at the head of the queue of e
Head1(e) == Token(Head(io[e].ready))

\* The token of the handler that runs goes away.
LEMMA CntRest ==
    ASSUME IoTyped, NEW e \in Ends, io[e].ready # << >>, NEW P
    PROVE  Cnt(rest(e), P) = Cnt(io[e], P) - Bit(Head1(e) \in P) /\ Head(io[e].ready) \in Handlers
<1>. DEFINE H == {h \in Handlers : Token(h) \in P}
            SR == {op \in ReadOps : <<"reading", op>> \in P}
            SW == {w \in AnyWrites : <<"writing", w.op>> \in P}
            r == io[e]
            t == rest(e)
            bit == Bit(Head1(e) \in P)
<1>1. /\ r \in IoRecord /\ r.ready \in Seq(Handlers) /\ Head(r.ready) \in Handlers
  BY DEF IoTyped, IoRecord
<1>2. t.reading = r.reading /\ t.writing = r.writing /\ t.ready = Tail(r.ready) /\ t \in IoRecord
  BY RestFields
<1>3. Count(r.ready, H) = (IF Head(r.ready) \in H THEN 1 ELSE 0) + Count(Tail(r.ready), H)
  <2>. HIDE DEF H
  <2>. QED  BY <1>1, CountTail
<1>4. (IF Head(r.ready) \in H THEN 1 ELSE 0) = bit
  BY <1>1 DEF Bit, Head1
<1>5. /\ Cnt(t, P) = Count(t.reading, SR) + Count(t.writing, SW) + Count(t.ready, H)
      /\ Cnt(r, P) = Count(r.reading, SR) + Count(r.writing, SW) + Count(r.ready, H)
  BY DEF Cnt
<1>6. /\ Count(r.reading, SR) \in Nat /\ Count(r.writing, SW) \in Nat /\ Count(t.ready, H) \in Nat
  BY <1>1, <1>2, CntNat
<1>7. bit \in Nat
  BY DEF Bit
<1>. HIDE DEF H, SR, SW, r, t, bit
<1>8. Cnt(t, P) = Cnt(r, P) - bit
  BY <1>2, <1>3, <1>4, <1>5, <1>6, <1>7
<1>. QED  BY <1>1, <1>8 DEF t, bit, r

\* The counts of a record that keeps running are those of the record.
LEMMA CntContinue ==
    ASSUME IoTyped, NEW e \in Ends, NEW r \in IoRecord, Continue(e, r), NEW P
    PROVE  Cnt(io'[e], P) = Cnt(r, P)
<1>1. io'[e].reading = r.reading /\ io'[e].writing = r.writing /\ io'[e].ready = r.ready
  BY ContinueFields
<1>. QED  BY <1>1 DEF Cnt

\* A handler that starts nothing
LEMMA RunNothing ==
    ASSUME IoTyped, NEW e \in Ends, io[e].ready # << >>, Continue(e, rest(e))
    PROVE  /\ IoTyped' /\ io'[Peer(e)] = io[Peer(e)] /\ io'[e].socket = io[e].socket
           /\ io'[e].reading = io[e].reading /\ io'[e].writing = io[e].writing
           /\ io'[e].ready = Tail(io[e].ready)
           /\ \A P : Cnt(io'[e], P) = Cnt(io[e], P) - Bit(Head1(e) \in P)
<1>1. rest(e) \in IoRecord
  BY RestFields
<1>2. ASSUME NEW P PROVE Cnt(io'[e], P) = Cnt(io[e], P) - Bit(Head1(e) \in P)
  <2>1. Cnt(io'[e], P) = Cnt(rest(e), P)
    BY <1>1, CntContinue
  <2>2. Cnt(rest(e), P) = Cnt(io[e], P) - Bit(Head1(e) \in P)
    BY CntRest
  <2>. QED  BY <2>1, <2>2
<1>. QED  BY <1>1, <1>2, ContinueFields, RestFields

\* A handler that starts a read
LEMMA RunRead ==
    ASSUME IoTyped, NEW e \in Ends, io[e].ready # << >>, NEW op \in ReadOps,
           Continue(e, async_read(rest(e), op))
    PROVE  /\ IoTyped' /\ io'[Peer(e)] = io[Peer(e)] /\ io'[e].socket = io[e].socket
           /\ io'[e].writing = io[e].writing
           /\ io[e].socket = "open" => /\ io'[e].reading = Append(io[e].reading, op)
                                       /\ io'[e].ready = Tail(io[e].ready)
           /\ io[e].socket # "open" => /\ io'[e].reading = io[e].reading
                                       /\ io'[e].ready = Append(Tail(io[e].ready), Done(op, FALSE))
           /\ \A P : Cnt(io'[e], P) = Cnt(io[e], P) - Bit(Head1(e) \in P)
                                         + Bit(Started(io[e], "reading", op) \in P)
<1>1. rest(e) \in IoRecord /\ async_read(rest(e), op) \in IoRecord
  BY RestFields, ReadFields
<1>2. ASSUME NEW P
      PROVE  Cnt(io'[e], P) = Cnt(io[e], P) - Bit(Head1(e) \in P)
                                 + Bit(Started(io[e], "reading", op) \in P)
  <2>. DEFINE t == async_read(rest(e), op)
              a == Bit(Head1(e) \in P)
              b == Bit(Started(io[e], "reading", op) \in P)
  <2>1. Cnt(io'[e], P) = Cnt(t, P)
    BY <1>1, CntContinue
  <2>2. Cnt(rest(e), P) = Cnt(io[e], P) - a
    BY CntRest
  <2>3. Cnt(t, P) = Cnt(rest(e), P) + b
    <3>1. Started(rest(e), "reading", op) = Started(io[e], "reading", op)
      BY RestFields DEF Started
    <3>2. Cnt(t, P) = Cnt(rest(e), P) + Bit(Started(rest(e), "reading", op) \in P)
      BY <1>1, CntRead
    <3>. QED  BY <3>1, <3>2
  <2>. HIDE DEF t, a, b
  <2>4. Cnt(io'[e], P) = Cnt(io[e], P) - a + b
    BY <2>1, <2>2, <2>3
  <2>. QED  BY <2>4 DEF a, b
<1>. HIDE DEF IoRecord
<1>3. /\ rest(e).socket = io[e].socket /\ rest(e).reading = io[e].reading
      /\ rest(e).writing = io[e].writing /\ rest(e).ready = Tail(io[e].ready)
  BY RestFields
<1>. DEFINE t == async_read(rest(e), op)
<1>4. /\ t.socket = rest(e).socket /\ t.writing = rest(e).writing
      /\ rest(e).socket = "open" => t.reading = Append(rest(e).reading, op) /\ t.ready = rest(e).ready
      /\ rest(e).socket # "open" => /\ t.reading = rest(e).reading
                                    /\ t.ready = Append(rest(e).ready, Done(op, FALSE))
  BY <1>1, ReadFields
<1>5. /\ IoTyped' /\ io'[Peer(e)] = io[Peer(e)]
      /\ io'[e].socket = t.socket /\ io'[e].reading = t.reading
      /\ io'[e].writing = t.writing /\ io'[e].ready = t.ready
  BY <1>1, ContinueFields
<1>. HIDE DEF t
<1>. QED  BY <1>2, <1>3, <1>4, <1>5

\* A handler that starts a write
LEMMA RunWrite ==
    ASSUME IoTyped, NEW e \in Ends, io[e].ready # << >>, NEW op \in WriteOps, NEW u \in AnyUnit,
           Continue(e, async_write(rest(e), op, u))
    PROVE  /\ IoTyped' /\ io'[Peer(e)] = io[Peer(e)] /\ io'[e].socket = io[e].socket
           /\ io'[e].reading = io[e].reading
           /\ io[e].socket = "open" => /\ io'[e].writing = Append(io[e].writing, [op |-> op, unit |-> u])
                                       /\ io'[e].ready = Tail(io[e].ready)
           /\ io[e].socket # "open" => /\ io'[e].writing = io[e].writing
                                       /\ io'[e].ready = Append(Tail(io[e].ready), Done(op, FALSE))
           /\ \A P : Cnt(io'[e], P) = Cnt(io[e], P) - Bit(Head1(e) \in P)
                                         + Bit(Started(io[e], "writing", op) \in P)
<1>1. rest(e) \in IoRecord /\ async_write(rest(e), op, u) \in IoRecord
  BY RestFields, WriteFields
<1>2. ASSUME NEW P
      PROVE  Cnt(io'[e], P) = Cnt(io[e], P) - Bit(Head1(e) \in P)
                                 + Bit(Started(io[e], "writing", op) \in P)
  <2>. DEFINE t == async_write(rest(e), op, u)
              a == Bit(Head1(e) \in P)
              b == Bit(Started(io[e], "writing", op) \in P)
  <2>1. Cnt(io'[e], P) = Cnt(t, P)
    BY <1>1, CntContinue
  <2>2. Cnt(rest(e), P) = Cnt(io[e], P) - a
    BY CntRest
  <2>3. Cnt(t, P) = Cnt(rest(e), P) + b
    <3>1. Started(rest(e), "writing", op) = Started(io[e], "writing", op)
      BY RestFields DEF Started
    <3>2. Cnt(t, P) = Cnt(rest(e), P) + Bit(Started(rest(e), "writing", op) \in P)
      BY <1>1, CntWrite
    <3>. QED  BY <3>1, <3>2
  <2>. HIDE DEF t, a, b
  <2>4. Cnt(io'[e], P) = Cnt(io[e], P) - a + b
    BY <2>1, <2>2, <2>3
  <2>. QED  BY <2>4 DEF a, b
<1>. HIDE DEF IoRecord
<1>3. /\ rest(e).socket = io[e].socket /\ rest(e).reading = io[e].reading
      /\ rest(e).writing = io[e].writing /\ rest(e).ready = Tail(io[e].ready)
  BY RestFields
<1>. DEFINE t == async_write(rest(e), op, u)
            w == [op |-> op, unit |-> u]
<1>4. /\ t.socket = rest(e).socket /\ t.reading = rest(e).reading
      /\ rest(e).socket = "open" => t.writing = Append(rest(e).writing, w) /\ t.ready = rest(e).ready
      /\ rest(e).socket # "open" => /\ t.writing = rest(e).writing
                                    /\ t.ready = Append(rest(e).ready, Done(op, FALSE))
  BY <1>1, WriteFields
<1>5. /\ IoTyped' /\ io'[Peer(e)] = io[Peer(e)]
      /\ io'[e].socket = t.socket /\ io'[e].reading = t.reading
      /\ io'[e].writing = t.writing /\ io'[e].ready = t.ready
  BY <1>1, ContinueFields
<1>. HIDE DEF t, w
<1>6. /\ IoTyped' /\ io'[Peer(e)] = io[Peer(e)] /\ io'[e].socket = io[e].socket
      /\ io'[e].reading = io[e].reading
      /\ io[e].socket = "open" => /\ io'[e].writing = Append(io[e].writing, w)
                                  /\ io'[e].ready = Tail(io[e].ready)
      /\ io[e].socket # "open" => /\ io'[e].writing = io[e].writing
                                  /\ io'[e].ready = Append(Tail(io[e].ready), Done(op, FALSE))
  BY <1>3, <1>4, <1>5
<1>. QED  BY <1>2, <1>6 DEF w

\* The tokens that a close turns into one of P
ClosedInto(P) == {t \in Tokens : Aborted(t) \in P}

\* A handler that closes the socket
LEMMA RunCloses ==
    ASSUME IoTyped, NEW e \in Ends, io[e].ready # << >>, Continue(e, close(rest(e)))
    PROVE  /\ IoTyped' /\ io'[Peer(e)] = io[Peer(e)] /\ io'[e].socket = "closed"
           /\ io'[e].reading = << >> /\ io'[e].writing = << >>
           /\ io'[e].ready = Tail(io[e].ready) \o AbortedReads(io[e]) \o AbortedWrites(io[e])
           /\ AbortedReads(io[e]) \in Seq(Handlers) /\ AbortedWrites(io[e]) \in Seq(Handlers)
           /\ \A P : Cnt(io'[e], P) = Cnt(io[e], ClosedInto(P)) - Bit(Head1(e) \in P)
<1>1. rest(e) \in IoRecord /\ close(rest(e)) \in IoRecord /\ io[e] \in IoRecord
  BY RestFields, CloseFields DEF IoTyped
<1>2. ASSUME NEW P
      PROVE  Cnt(io'[e], P) = Cnt(io[e], ClosedInto(P)) - Bit(Head1(e) \in P)
  <2>. DEFINE a == Bit(Head1(e) \in P)
              Q == ClosedInto(P)
  <2>1. Cnt(io'[e], P) = Cnt(close(rest(e)), P)
    BY <1>1, CntContinue
  <2>2. Cnt(close(rest(e)), P) = Cnt(rest(e), Q)
    BY <1>1, CntClose DEF ClosedInto
  <2>3. Cnt(rest(e), Q) = Cnt(io[e], Q) - a
    <3>1. Cnt(rest(e), Q) = Cnt(io[e], Q) - Bit(Head1(e) \in Q) /\ Head(io[e].ready) \in Handlers
      BY CntRest
    <3>2. Head1(e) \in Q <=> Head1(e) \in P
      <4>1. Head1(e) \in Tokens
        BY <3>1, HandlerToken DEF Head1
      <4>2. Aborted(Head1(e)) = Head1(e)
        BY DEF Aborted, Head1, Token, Stage
      <4>. QED  BY <4>1, <4>2 DEF ClosedInto
    <3>. QED  BY <3>1, <3>2
  <2>. HIDE DEF a, Q
  <2>4. Cnt(io'[e], P) = Cnt(io[e], Q) - a
    BY <2>1, <2>2, <2>3
  <2>. QED  BY <2>4 DEF a, Q
<1>3. /\ rest(e).reading = io[e].reading
      /\ rest(e).writing = io[e].writing /\ rest(e).ready = Tail(io[e].ready)
  BY RestFields
<1>4. AbortedReads(rest(e)) = AbortedReads(io[e]) /\ AbortedWrites(rest(e)) = AbortedWrites(io[e])
  BY <1>3 DEF AbortedReads, AbortedWrites
<1>5. /\ AbortedReads(io[e]) \in Seq(Handlers) /\ AbortedWrites(io[e]) \in Seq(Handlers)
  BY <1>1, CloseFields
<1>6. /\ close(rest(e)).socket = "closed" /\ close(rest(e)).reading = << >>
      /\ close(rest(e)).writing = << >>
      /\ close(rest(e)).ready = rest(e).ready \o AbortedReads(rest(e)) \o AbortedWrites(rest(e))
  BY <1>1, CloseFields
<1>7. /\ IoTyped' /\ io'[Peer(e)] = io[Peer(e)]
      /\ io'[e].socket = close(rest(e)).socket /\ io'[e].reading = close(rest(e)).reading
      /\ io'[e].writing = close(rest(e)).writing /\ io'[e].ready = close(rest(e)).ready
  BY <1>1, ContinueFields
<1>. QED  BY <1>2, <1>3, <1>4, <1>5, <1>6, <1>7

\* A handler that posts another (a read of no bytes)
LEMMA RunPosts ==
    ASSUME IoTyped, NEW e \in Ends, io[e].ready # << >>, NEW h \in Handlers,
           Continue(e, post(rest(e), h))
    PROVE  /\ IoTyped' /\ io'[Peer(e)] = io[Peer(e)] /\ io'[e].socket = io[e].socket
           /\ io'[e].reading = io[e].reading /\ io'[e].writing = io[e].writing
           /\ io'[e].ready = Append(Tail(io[e].ready), h)
           /\ \A P : Cnt(io'[e], P) = Cnt(io[e], P) - Bit(Head1(e) \in P) + Bit(Token(h) \in P)
<1>1. rest(e) \in IoRecord /\ post(rest(e), h) \in IoRecord
  BY RestFields, PostFields
<1>2. ASSUME NEW P
      PROVE  Cnt(io'[e], P) = Cnt(io[e], P) - Bit(Head1(e) \in P) + Bit(Token(h) \in P)
  <2>. DEFINE t == post(rest(e), h)
              a == Bit(Head1(e) \in P)
              b == Bit(Token(h) \in P)
  <2>1. Cnt(io'[e], P) = Cnt(t, P)
    BY <1>1, CntContinue
  <2>2. Cnt(rest(e), P) = Cnt(io[e], P) - a
    BY CntRest
  <2>3. Cnt(t, P) = Cnt(rest(e), P) + b
    BY <1>1, CntPost
  <2>. HIDE DEF t, a, b
  <2>4. Cnt(io'[e], P) = Cnt(io[e], P) - a + b
    BY <2>1, <2>2, <2>3
  <2>. QED  BY <2>4 DEF a, b
<1>. HIDE DEF IoRecord
<1>3. /\ rest(e).socket = io[e].socket /\ rest(e).reading = io[e].reading
      /\ rest(e).writing = io[e].writing /\ rest(e).ready = Tail(io[e].ready)
  BY RestFields
<1>. DEFINE t == post(rest(e), h)
<1>4. /\ t.socket = rest(e).socket /\ t.reading = rest(e).reading
      /\ t.writing = rest(e).writing /\ t.ready = Append(rest(e).ready, h)
  BY <1>1, PostFields
<1>5. /\ IoTyped' /\ io'[Peer(e)] = io[Peer(e)]
      /\ io'[e].socket = t.socket /\ io'[e].reading = t.reading
      /\ io'[e].writing = t.writing /\ io'[e].ready = t.ready
  BY <1>1, ContinueFields
<1>. HIDE DEF t
<1>. QED  BY <1>2, <1>3, <1>4, <1>5

\* What send() and disconnect() do to io
LEMMA Posted ==
    ASSUME IoTyped, NEW e \in Ends, NEW h \in Handlers, io' = [io EXCEPT ![e] = post(@, h)]
    PROVE  /\ IoTyped' /\ io'[Peer(e)] = io[Peer(e)] /\ io'[e].socket = io[e].socket
           /\ io'[e].reading = io[e].reading /\ io'[e].writing = io[e].writing
           /\ io'[e].ready = Append(io[e].ready, h)
           /\ \A P : Cnt(io'[e], P) = Cnt(io[e], P) + Bit(Token(h) \in P)
<1>1. io[e] \in IoRecord
  BY DEF IoTyped
<1>2. post(io[e], h) \in IoRecord
  BY <1>1, PostFields
<1>. HIDE DEF IoRecord
<1>3. IoTyped' /\ io'[e] = post(io[e], h) /\ io'[Peer(e)] = io[Peer(e)]
  BY <1>2, TwoEnds DEF IoTyped
<1>4. ASSUME NEW P PROVE Cnt(io'[e], P) = Cnt(io[e], P) + Bit(Token(h) \in P)
  BY <1>1, <1>3, CntPost
<1>. QED  BY <1>1, <1>3, <1>4, PostFields

\* The oldest write of e completes.
LEMMA WriteCompletes ==
    ASSUME IoTyped, NEW e \in Ends, io[e].writing # << >>, NEW s \in BOOLEAN, CompleteWrite(e, s)
    PROVE  LET op == Head(io[e].writing).op
           IN  /\ IoTyped' /\ io'[Peer(e)] = io[Peer(e)] /\ io'[e].socket = io[e].socket
               /\ op \in AllOps /\ Head(io[e].writing) \in AnyWrites
               /\ io'[e].reading = io[e].reading /\ io'[e].writing = Tail(io[e].writing)
               /\ io'[e].ready = Append(io[e].ready, Done(op, s))
               /\ \A P : Cnt(io'[e], P) = Cnt(io[e], P) - Bit(<<"writing", op>> \in P)
                                             + Bit(<<IF s THEN "ok" ELSE "failed", op>> \in P)
<1>. DEFINE op == Head(io[e].writing).op
            r == io[e]
            t == [r EXCEPT !.writing = Tail(@)]
            h == Done(op, s)
<1>1. r \in IoRecord /\ r.writing \in Seq(AnyWrites) /\ Head(r.writing) \in AnyWrites
  BY DEF IoTyped, IoRecord
<1>2. op \in AllOps
  BY <1>1 DEF AnyWrites, AllOps
<1>3. h \in Handlers /\ Token(h) = <<IF s THEN "ok" ELSE "failed", op>>
  BY <1>2, DoneHandler, DoneToken
<1>4. /\ t \in IoRecord /\ t.socket = r.socket /\ t.reading = r.reading
      /\ t.writing = Tail(r.writing) /\ t.ready = r.ready
  <2>1. Tail(r.writing) \in Seq(AnyWrites)
    BY <1>1
  <2>. QED  BY <1>1, <2>1 DEF IoRecord
<1>5. io' = [io EXCEPT ![e] = post(t, h)]
  BY DEF CompleteWrite
<1>6. post(t, h) \in IoRecord
  <2>. HIDE DEF t, h
  <2>. QED  BY <1>3, <1>4, PostFields
<1>7. IoTyped' /\ io'[e] = post(t, h) /\ io'[Peer(e)] = io[Peer(e)]
  <2>. HIDE DEF t, h, IoRecord
  <2>. QED  BY <1>5, <1>6, TwoEnds DEF IoTyped
<1>8. /\ post(t, h).socket = t.socket /\ post(t, h).reading = t.reading
      /\ post(t, h).writing = t.writing /\ post(t, h).ready = Append(t.ready, h)
  <2>. HIDE DEF t, h
  <2>. QED  BY <1>3, <1>4, PostFields
<1>9. ASSUME NEW P
      PROVE  Cnt(io'[e], P) = Cnt(r, P) - Bit(<<"writing", op>> \in P) + Bit(Token(h) \in P)
  <2>. DEFINE H == {g \in Handlers : Token(g) \in P}
              SR == {o \in ReadOps : <<"reading", o>> \in P}
              SW == {w \in AnyWrites : <<"writing", w.op>> \in P}
              a == Bit(<<"writing", op>> \in P)
              b == Bit(Token(h) \in P)
  <2>1. Count(r.writing, SW) = (IF Head(r.writing) \in SW THEN 1 ELSE 0) + Count(Tail(r.writing), SW)
    <3>. HIDE DEF SW
    <3>. QED  BY <1>1, CountTail
  <2>2. (IF Head(r.writing) \in SW THEN 1 ELSE 0) = a
    BY <1>1 DEF Bit
  <2>3. /\ Cnt(t, P) = Count(t.reading, SR) + Count(t.writing, SW) + Count(t.ready, H)
        /\ Cnt(r, P) = Count(r.reading, SR) + Count(r.writing, SW) + Count(r.ready, H)
    <3>. HIDE DEF r, t
    <3>. QED  BY DEF Cnt
  <2>4. /\ Count(r.reading, SR) \in Nat /\ Count(t.writing, SW) \in Nat /\ Count(r.ready, H) \in Nat
    <3>. HIDE DEF t
    <3>. QED  BY <1>1, <1>4, CntNat
  <2>5. a \in Nat /\ b \in Nat
    BY DEF Bit
  <2>6. Cnt(post(t, h), P) = Cnt(t, P) + b
    <3>. HIDE DEF t, h
    <3>. QED  BY <1>3, <1>4, CntPost
  <2>. HIDE DEF H, SR, SW, a, b, r, t, h, op
  <2>7. Cnt(io'[e], P) = Cnt(r, P) - a + b
    BY <1>4, <1>7, <2>1, <2>2, <2>3, <2>4, <2>5, <2>6
  <2>. QED  BY <2>7 DEF a, b
<1>. QED  BY <1>1, <1>2, <1>3, <1>4, <1>7, <1>8, <1>9

\* The oldest read of e completes.
LEMMA ReadCompletes ==
    ASSUME IoTyped, NEW e \in Ends, io[e].reading # << >>, NEW s \in BOOLEAN, CompleteRead(e, s)
    PROVE  LET op == Head(io[e].reading)
           IN  /\ IoTyped' /\ io'[Peer(e)] = io[Peer(e)] /\ io'[e].socket = io[e].socket
               /\ op \in ReadOps
               /\ io'[e].reading = Tail(io[e].reading) /\ io'[e].writing = io[e].writing
               /\ io'[e].ready = Append(io[e].ready, Done(op, s))
               /\ \A P : Cnt(io'[e], P) = Cnt(io[e], P) - Bit(<<"reading", op>> \in P)
                                             + Bit(<<IF s THEN "ok" ELSE "failed", op>> \in P)
<1>. DEFINE op == Head(io[e].reading)
            r == io[e]
            t == [r EXCEPT !.reading = Tail(@)]
            h == Done(op, s)
<1>1. r \in IoRecord /\ r.reading \in Seq(ReadOps) /\ Head(r.reading) \in ReadOps
  BY DEF IoTyped, IoRecord
<1>2. op \in AllOps
  BY <1>1 DEF AllOps
<1>3. h \in Handlers /\ Token(h) = <<IF s THEN "ok" ELSE "failed", op>>
  BY <1>2, DoneHandler, DoneToken
<1>4. /\ t \in IoRecord /\ t.socket = r.socket /\ t.reading = Tail(r.reading)
      /\ t.writing = r.writing /\ t.ready = r.ready
  <2>1. Tail(r.reading) \in Seq(ReadOps)
    BY <1>1
  <2>. QED  BY <1>1, <2>1 DEF IoRecord
<1>5. io' = [io EXCEPT ![e] = post(t, h)]
  BY DEF CompleteRead
<1>6. post(t, h) \in IoRecord
  <2>. HIDE DEF t, h
  <2>. QED  BY <1>3, <1>4, PostFields
<1>7. IoTyped' /\ io'[e] = post(t, h) /\ io'[Peer(e)] = io[Peer(e)]
  <2>. HIDE DEF t, h, IoRecord
  <2>. QED  BY <1>5, <1>6, TwoEnds DEF IoTyped
<1>8. /\ post(t, h).socket = t.socket /\ post(t, h).reading = t.reading
      /\ post(t, h).writing = t.writing /\ post(t, h).ready = Append(t.ready, h)
  <2>. HIDE DEF t, h
  <2>. QED  BY <1>3, <1>4, PostFields
<1>9. ASSUME NEW P
      PROVE  Cnt(io'[e], P) = Cnt(r, P) - Bit(<<"reading", op>> \in P) + Bit(Token(h) \in P)
  <2>. DEFINE H == {g \in Handlers : Token(g) \in P}
              SR == {o \in ReadOps : <<"reading", o>> \in P}
              SW == {w \in AnyWrites : <<"writing", w.op>> \in P}
              a == Bit(<<"reading", op>> \in P)
              b == Bit(Token(h) \in P)
  <2>1. Count(r.reading, SR) = (IF Head(r.reading) \in SR THEN 1 ELSE 0) + Count(Tail(r.reading), SR)
    <3>. HIDE DEF SR
    <3>. QED  BY <1>1, CountTail
  <2>2. (IF Head(r.reading) \in SR THEN 1 ELSE 0) = a
    BY <1>1 DEF Bit
  <2>3. /\ Cnt(t, P) = Count(t.reading, SR) + Count(t.writing, SW) + Count(t.ready, H)
        /\ Cnt(r, P) = Count(r.reading, SR) + Count(r.writing, SW) + Count(r.ready, H)
    <3>. HIDE DEF r, t
    <3>. QED  BY DEF Cnt
  <2>4. /\ Count(t.reading, SR) \in Nat /\ Count(r.writing, SW) \in Nat /\ Count(r.ready, H) \in Nat
    <3>. HIDE DEF t
    <3>. QED  BY <1>1, <1>4, CntNat
  <2>5. a \in Nat /\ b \in Nat
    BY DEF Bit
  <2>6. Cnt(post(t, h), P) = Cnt(t, P) + b
    <3>. HIDE DEF t, h
    <3>. QED  BY <1>3, <1>4, CntPost
  <2>. HIDE DEF H, SR, SW, a, b, r, t, h, op
  <2>7. Cnt(io'[e], P) = Cnt(r, P) - a + b
    BY <1>4, <1>7, <2>1, <2>2, <2>3, <2>4, <2>5, <2>6
  <2>. QED  BY <2>7 DEF a, b
<1>. QED  BY <1>1, <1>2, <1>3, <1>4, <1>7, <1>8, <1>9

-----------------------------------------------------------------------------
(* One reader and one writer *)

Links == {"syn", "up", "refused", "reset"}

Typed == /\ IoTyped /\ link \in Links
         /\ wire \in [Ends -> Seq(AnyUnit)] /\ opening \in AnyUnit
         /\ qOut \in [Ends -> Seq(Messages)] /\ sent \in [Ends -> Seq(Messages)]

\* A connection that was not accepted has nothing to do, and on a closed socket
\* nothing is outstanding.
SocketOk(e) ==
    /\ io[e].socket = "none" => /\ e = "server" /\ io[e].reading = << >>
                                /\ io[e].writing = << >> /\ io[e].ready = << >>
                                /\ qOut[e] = << >>
    /\ io[e].socket = "closed" => io[e].reading = << >> /\ io[e].writing = << >>

\* Only the client connects; when that fails it was refused, or has closed.
ConnectOk(e) ==
    /\ e = "server" => Cnt(io[e], Of({"connect"})) = 0
    /\ Cnt(io[e], {<<"failed", "connect">>}) > 0 => link = "refused" \/ io[e].socket = "closed"

ReaderOk(e) ==
    /\ Cnt(io[e], Of(ReadChain(e))) <= 1
    /\ (io[e].socket = "open" /\ link # "refused") => Cnt(io[e], Of(ReadChain(e))) = 1

WriterOk(e) ==
    /\ qOut[e] = << >> => Cnt(io[e], Of(DataOps)) = 0
    /\ Cnt(io[e], Of(DataOps)) <= 1
    /\ (io[e].socket = "open" /\ qOut[e] # << >>) => Cnt(io[e], Of(DataOps)) = 1

EndOk(e) == SocketOk(e) /\ ConnectOk(e) /\ ReaderOk(e) /\ WriterOk(e)

CountInv == Typed /\ \A e \in Ends : EndOk(e)

\* The operations of the reader and those of the writer are different ones.
LEMMA ChainOps ==
    ASSUME NEW e \in Ends
    PROVE  /\ ReadChain(e) \subseteq AllOps /\ ReadOps \subseteq ReadChain(e)
           /\ "writeValidation" \in ReadChain(e) <=> e = "client"
           /\ "connect" \in ReadChain(e) <=> e = "client"
           /\ DataOps \cap ReadChain(e) = {} /\ DataOps \subseteq AllOps /\ "connect" \in AllOps
BY DEF ReadChain, AllOps, ReadOps, WriteOps, DataOps, Ends

\* Closing the socket keeps the tokens of a set of operations in the set.
LEMMA OfClosed ==
    ASSUME NEW ops, ops \subseteq AllOps
    PROVE  ClosedInto(Of(ops)) = Of(ops)
<1>1. ASSUME NEW t \in Tokens PROVE Aborted(t) \in Of(ops) <=> t \in Of(ops)
  BY DEF Tokens, Of, Aborted, Stages
<1>2. Of(ops) \subseteq Tokens
  BY DEF Of, Tokens
<1>. QED  BY <1>1, <1>2 DEF ClosedInto

\* The handler that is due, as a token
LEMMA DueOp ==
    ASSUME IoTyped, NEW e \in Ends, NEW h \in AllOps, Due(e, h)
    PROVE  /\ io[e].ready # << >> /\ ok(e) \in BOOLEAN /\ Head(io[e].ready) \in Handlers
           /\ Head1(e) = <<IF ok(e) THEN "ok" ELSE "failed", h>>
<1>1. Head(io[e].ready) \in Handlers /\ io[e].ready # << >>
  BY DEF IoTyped, IoRecord, Due
<1>. QED  BY <1>1 DEF Due, Head1, Token, Stage, ok, Handlers, AllOps, ReadOps, WriteOps, DataOps

\* The send or close that is due, as a token
LEMMA DuePosted ==
    ASSUME IoTyped, NEW e \in Ends, NEW h \in {"send", "close"}, Due(e, h)
    PROVE  /\ io[e].ready # << >> /\ Head1(e) = <<"posted", h>> /\ Head(io[e].ready) \in Handlers
           /\ h = "send" => Head(io[e].ready).msg \in Messages
<1>1. Head(io[e].ready) \in Handlers /\ io[e].ready # << >>
  BY DEF IoTyped, IoRecord, Due
<1>. QED  BY <1>1 DEF Due, Head1, Token, Stage, Handlers, AllOps, ReadOps, WriteOps, DataOps

\* The end that does nothing
LEMMA OtherEnd ==
    ASSUME NEW p \in Ends, EndOk(p), io'[p] = io[p], qOut'[p] = qOut[p],
           link = "refused" => link' = "refused"
    PROVE  EndOk(p)'
BY DEF EndOk, SocketOk, ConnectOk, ReaderOk, WriterOk

\* A handler that starts what comes after it
LEMMA RunsOn ==
    ASSUME NEW e \in Ends, IoTyped, IoTyped', EndOk(e), link' = link, io[e].ready # << >>,
           NEW g, g \notin Of({"connect"}),
           Head1(e) \in Of(ReadChain(e)) <=> g \in Of(ReadChain(e)),
           io'[e].socket = io[e].socket,
           io[e].socket = "closed" => io'[e].reading = io[e].reading /\ io'[e].writing = io[e].writing,
           \A P : Cnt(io'[e], P) = Cnt(io[e], P) - Bit(Head1(e) \in P) + Bit(g \in P)
    PROVE  SocketOk(e)' /\ ConnectOk(e)' /\ ReaderOk(e)'
<1>1. \A P : Cnt(io[e], P) \in Nat /\ Cnt(io'[e], P) \in Nat /\ Bit(Head1(e) \in P) \in {0, 1}
  BY CntNat DEF IoTyped, Bit
<1>2. SocketOk(e)'
  BY DEF EndOk, SocketOk
<1>3. ConnectOk(e)'
  <2>. DEFINE K == Of({"connect"})
              F == {<<"failed", "connect">>}
  <2>1. g \notin K /\ g \notin F
    BY DEF Of, Stages
  <2>2. Bit(g \in K) = 0 /\ Bit(g \in F) = 0
    BY <2>1 DEF Bit
  <2>. HIDE DEF K, F
  <2>3. Cnt(io'[e], K) <= Cnt(io[e], K) /\ Cnt(io'[e], F) <= Cnt(io[e], F)
        /\ Cnt(io'[e], K) \in Nat /\ Cnt(io'[e], F) \in Nat /\ Cnt(io[e], F) \in Nat
    <3>1. Cnt(io'[e], K) = Cnt(io[e], K) - Bit(Head1(e) \in K) + Bit(g \in K)
      OBVIOUS
    <3>2. Cnt(io'[e], F) = Cnt(io[e], F) - Bit(Head1(e) \in F) + Bit(g \in F)
      OBVIOUS
    <3>3. Cnt(io[e], K) \in Nat /\ Cnt(io'[e], K) \in Nat /\ Bit(Head1(e) \in K) \in {0, 1}
      BY <1>1
    <3>4. Cnt(io[e], F) \in Nat /\ Cnt(io'[e], F) \in Nat /\ Bit(Head1(e) \in F) \in {0, 1}
      BY <1>1
    <3>. QED  BY <2>2, <3>1, <3>2, <3>3, <3>4
  <2>. QED  BY <2>3 DEF EndOk, ConnectOk, K, F
<1>4. ReaderOk(e)'
  <2>. DEFINE R == Of(ReadChain(e))
  <2>1. Bit(Head1(e) \in R) = Bit(g \in R)
    BY DEF Bit
  <2>. HIDE DEF R
  <2>2. Cnt(io'[e], R) = Cnt(io[e], R)
    <3>1. Cnt(io'[e], R) = Cnt(io[e], R) - Bit(Head1(e) \in R) + Bit(g \in R)
      OBVIOUS
    <3>2. Cnt(io[e], R) \in Nat /\ Bit(Head1(e) \in R) \in {0, 1}
      BY <1>1
    <3>. QED  BY <2>1, <3>1, <3>2
  <2>. QED  BY <2>2 DEF EndOk, ReaderOk, R
<1>. QED  BY <1>2, <1>3, <1>4

\* A handler that starts nothing
LEMMA RunsOut ==
    ASSUME NEW e \in Ends, IoTyped, IoTyped', EndOk(e), link' = link, io[e].ready # << >>,
           Head1(e) \in Of(ReadChain(e)) => link = "refused" \/ io[e].socket # "open",
           io'[e].socket = io[e].socket,
           io'[e].reading = io[e].reading, io'[e].writing = io[e].writing,
           \A P : Cnt(io'[e], P) = Cnt(io[e], P) - Bit(Head1(e) \in P)
    PROVE  SocketOk(e)' /\ ConnectOk(e)' /\ ReaderOk(e)'
<1>1. \A P : Cnt(io[e], P) \in Nat /\ Cnt(io'[e], P) \in Nat /\ Bit(Head1(e) \in P) \in {0, 1}
  BY CntNat DEF IoTyped, Bit
<1>2. SocketOk(e)'
  BY DEF EndOk, SocketOk
<1>3. ConnectOk(e)'
  <2>. DEFINE K == Of({"connect"})
              F == {<<"failed", "connect">>}
  <2>. HIDE DEF K, F
  <2>1. Cnt(io'[e], K) <= Cnt(io[e], K) /\ Cnt(io'[e], F) <= Cnt(io[e], F)
        /\ Cnt(io'[e], K) \in Nat /\ Cnt(io'[e], F) \in Nat /\ Cnt(io[e], F) \in Nat
    <3>1. Cnt(io'[e], K) = Cnt(io[e], K) - Bit(Head1(e) \in K)
      OBVIOUS
    <3>2. Cnt(io'[e], F) = Cnt(io[e], F) - Bit(Head1(e) \in F)
      OBVIOUS
    <3>3. Cnt(io[e], K) \in Nat /\ Cnt(io'[e], K) \in Nat /\ Bit(Head1(e) \in K) \in {0, 1}
      BY <1>1
    <3>4. Cnt(io[e], F) \in Nat /\ Cnt(io'[e], F) \in Nat /\ Bit(Head1(e) \in F) \in {0, 1}
      BY <1>1
    <3>. QED  BY <3>1, <3>2, <3>3, <3>4
  <2>. QED  BY <2>1, <1>1 DEF EndOk, ConnectOk, K, F
<1>4. ReaderOk(e)'
  <2>. DEFINE R == Of(ReadChain(e))
  <2>1. Head1(e) \notin R => Bit(Head1(e) \in R) = 0
    BY DEF Bit
  <2>2. Head1(e) \in R => link = "refused" \/ io[e].socket # "open"
    OBVIOUS
  <2>. HIDE DEF R
  <2>3. Cnt(io'[e], R) = Cnt(io[e], R) - Bit(Head1(e) \in R)
    OBVIOUS
  <2>4. Cnt(io[e], R) \in Nat /\ Cnt(io'[e], R) \in Nat /\ Bit(Head1(e) \in R) \in {0, 1}
    BY <1>1
  <2>5. Cnt(io'[e], R) <= Cnt(io[e], R) /\ (Head1(e) \notin R => Cnt(io'[e], R) = Cnt(io[e], R))
    BY <2>1, <2>3, <2>4
  <2>. QED  BY <2>2, <2>4, <2>5 DEF EndOk, ReaderOk, R
<1>. QED  BY <1>2, <1>3, <1>4

\* A handler that closes the socket
LEMMA RunsClosed ==
    ASSUME NEW e \in Ends, IoTyped, IoTyped', EndOk(e), io[e].ready # << >>, qOut'[e] = qOut[e],
           io'[e].socket = "closed", io'[e].reading = << >>, io'[e].writing = << >>,
           \A P : Cnt(io'[e], P) = Cnt(io[e], ClosedInto(P)) - Bit(Head1(e) \in P)
    PROVE  EndOk(e)'
<1>1. \A P : Cnt(io[e], P) \in Nat /\ Cnt(io'[e], P) \in Nat /\ Bit(Head1(e) \in P) \in {0, 1}
  BY CntNat DEF IoTyped, Bit
<1>2. ASSUME NEW ops, ops \subseteq AllOps
      PROVE  Cnt(io'[e], Of(ops)) <= Cnt(io[e], Of(ops)) /\ Cnt(io'[e], Of(ops)) \in Nat
             /\ Cnt(io[e], Of(ops)) \in Nat
  <2>1. Cnt(io'[e], Of(ops)) = Cnt(io[e], Of(ops)) - Bit(Head1(e) \in Of(ops))
    BY <1>2, OfClosed
  <2>2. Cnt(io[e], Of(ops)) \in Nat /\ Cnt(io'[e], Of(ops)) \in Nat
        /\ Bit(Head1(e) \in Of(ops)) \in {0, 1}
    BY <1>1
  <2>. QED  BY <2>1, <2>2
<1>3. {"connect"} \subseteq AllOps /\ ReadChain(e) \subseteq AllOps /\ DataOps \subseteq AllOps
  BY ChainOps
<1>4. SocketOk(e)'
  BY DEF SocketOk
<1>5. ConnectOk(e)'
  BY <1>2, <1>3 DEF ConnectOk, EndOk
<1>6. ReaderOk(e)'
  BY <1>2, <1>3 DEF ReaderOk, EndOk
<1>7. WriterOk(e)'
  <2>1. /\ Cnt(io'[e], Of(DataOps)) <= Cnt(io[e], Of(DataOps)) /\ Cnt(io'[e], Of(DataOps)) \in Nat
        /\ Cnt(io[e], Of(DataOps)) \in Nat
    BY <1>2, <1>3
  <2>. QED  BY <2>1 DEF WriterOk, EndOk
<1>. QED  BY <1>4, <1>5, <1>6, <1>7 DEF EndOk

\* An operation of e completes: a token moves to the queue of handlers.
LEMMA Completed ==
    ASSUME NEW e \in Ends, IoTyped, IoTyped', EndOk(e), qOut'[e] = qOut[e],
           link = "refused" => link' = "refused",
           NEW st \in Stages, NEW st2 \in Stages, NEW op \in AllOps,
           st2 = "failed" /\ op = "connect" => link' = "refused",
           io[e].socket = "open", io'[e].socket = "open",
           \A P : Cnt(io'[e], P) = Cnt(io[e], P) - Bit(<<st, op>> \in P) + Bit(<<st2, op>> \in P)
    PROVE  EndOk(e)'
<1>1. \A P : Cnt(io[e], P) \in Nat /\ Cnt(io'[e], P) \in Nat /\ Bit(<<st, op>> \in P) \in {0, 1}
  BY CntNat DEF IoTyped, Bit
<1>2. ASSUME NEW ops PROVE Cnt(io'[e], Of(ops)) = Cnt(io[e], Of(ops)) /\ Cnt(io[e], Of(ops)) \in Nat
  <2>1. <<st, op>> \in Of(ops) <=> <<st2, op>> \in Of(ops)
    BY DEF Of
  <2>2. Cnt(io'[e], Of(ops)) = Cnt(io[e], Of(ops)) - Bit(<<st, op>> \in Of(ops)) + Bit(<<st2, op>> \in Of(ops))
    OBVIOUS
  <2>3. Bit(<<st, op>> \in Of(ops)) = Bit(<<st2, op>> \in Of(ops))
    BY <2>1 DEF Bit
  <2>4. Cnt(io[e], Of(ops)) \in Nat /\ Bit(<<st, op>> \in Of(ops)) \in {0, 1}
    BY <1>1
  <2>. QED  BY <2>2, <2>3, <2>4
<1>3. SocketOk(e)'
  BY DEF SocketOk
<1>4. ConnectOk(e)'
  <2>. DEFINE F == {<<"failed", "connect">>}
  <2>1. CASE st2 = "failed" /\ op = "connect"
    BY <2>1, <1>2 DEF ConnectOk, EndOk
  <2>2. CASE ~(st2 = "failed" /\ op = "connect")
    <3>1. Bit(<<st2, op>> \in F) = 0
      BY <2>2 DEF Bit
    <3>. HIDE DEF F
    <3>2. Cnt(io'[e], F) = Cnt(io[e], F) - Bit(<<st, op>> \in F) + Bit(<<st2, op>> \in F)
      OBVIOUS
    <3>3. Cnt(io[e], F) \in Nat /\ Cnt(io'[e], F) \in Nat /\ Bit(<<st, op>> \in F) \in {0, 1}
      BY <1>1
    <3>4. Cnt(io'[e], F) > 0 => Cnt(io[e], F) > 0
      BY <3>1, <3>2, <3>3
    <3>. QED  BY <3>4, <1>2 DEF ConnectOk, EndOk, F
  <2>. QED  BY <2>1, <2>2
<1>5. ReaderOk(e)'
  BY <1>2 DEF ReaderOk, EndOk
<1>6. WriterOk(e)'
  BY <1>2 DEF WriterOk, EndOk
<1>. QED  BY <1>3, <1>4, <1>5, <1>6 DEF EndOk

\* A handler is posted that is not that of an operation.
LEMMA PostedOk ==
    ASSUME NEW e \in Ends, IoTyped, IoTyped', EndOk(e), qOut'[e] = qOut[e], link' = link,
           io[e].socket # "none", io'[e].socket = io[e].socket,
           io'[e].reading = io[e].reading, io'[e].writing = io[e].writing,
           NEW h \in {"send", "close"},
           \A P : Cnt(io'[e], P) = Cnt(io[e], P) + Bit(<<"posted", h>> \in P)
    PROVE  EndOk(e)'
<1>1. ASSUME NEW P, <<"posted", h>> \notin P PROVE Cnt(io'[e], P) = Cnt(io[e], P) /\ Cnt(io[e], P) \in Nat
  <2>1. Bit(<<"posted", h>> \in P) = 0
    BY <1>1 DEF Bit
  <2>2. Cnt(io'[e], P) = Cnt(io[e], P) + Bit(<<"posted", h>> \in P)
    OBVIOUS
  <2>3. Cnt(io[e], P) \in Nat
    BY CntNat DEF IoTyped
  <2>. QED  BY <2>1, <2>2, <2>3
<1>2. ASSUME NEW ops PROVE Cnt(io'[e], Of(ops)) = Cnt(io[e], Of(ops)) /\ Cnt(io[e], Of(ops)) \in Nat
  BY <1>1 DEF Of, Stages
<1>3. Cnt(io'[e], {<<"failed", "connect">>}) = Cnt(io[e], {<<"failed", "connect">>})
  BY <1>1
<1>4. SocketOk(e)'
  BY DEF SocketOk, EndOk
<1>5. ConnectOk(e)'
  BY <1>2, <1>3 DEF ConnectOk, EndOk
<1>6. ReaderOk(e)'
  BY <1>2 DEF ReaderOk, EndOk
<1>7. WriterOk(e)'
  BY <1>2 DEF WriterOk, EndOk
<1>. QED  BY <1>4, <1>5, <1>6, <1>7 DEF EndOk

\* A handler that has nothing to do with messages on their way out
LEMMA NoWriter ==
    ASSUME NEW e \in Ends, IoTyped, EndOk(e), qOut'[e] = qOut[e], io'[e].socket = io[e].socket,
           Cnt(io'[e], Of(DataOps)) = Cnt(io[e], Of(DataOps))
    PROVE  WriterOk(e)'
BY DEF WriterOk, EndOk

\* What Bit is on a set that has the element, and on one that has not
LEMMA BitIn ==
    ASSUME NEW t, NEW P
    PROVE  (t \in P => Bit(t \in P) = 1) /\ (t \notin P => Bit(t \in P) = 0)
BY DEF Bit

\* What a started operation is in the sets that are counted
LEMMA StartedOf ==
    ASSUME NEW r, NEW st \in Stages, NEW op, NEW ops
    PROVE  Started(r, st, op) \in Of(ops) <=> op \in ops
BY DEF Started, Of, Stages

\* A handler of e starts a read.
LEMMA ReadsOk ==
    ASSUME IoTyped, NEW e \in Ends, EndOk(e), NEW h \in ReadChain(e), Due(e, h), NEW op \in ReadOps,
           Continue(e, async_read(rest(e), op)), link' = link, qOut'[e] = qOut[e]
    PROVE  IoTyped' /\ EndOk(e)' /\ io'[Peer(e)] = io[Peer(e)]
<1>. DEFINE g == Started(io[e], "reading", op)
<1>1. h \in AllOps /\ h \notin DataOps /\ op \in ReadChain(e) /\ op \notin DataOps /\ op # "connect"
  BY ChainOps DEF ReadOps, DataOps, AllOps
<1>2. io[e].ready # << >> /\ Head1(e) = <<IF ok(e) THEN "ok" ELSE "failed", h>> /\ ok(e) \in BOOLEAN
  BY <1>1, DueOp
<1>3. /\ IoTyped' /\ io'[Peer(e)] = io[Peer(e)] /\ io'[e].socket = io[e].socket
      /\ io'[e].writing = io[e].writing
      /\ io[e].socket # "open" => io'[e].reading = io[e].reading
      /\ \A P : Cnt(io'[e], P) = Cnt(io[e], P) - Bit(Head1(e) \in P) + Bit(g \in P)
  BY <1>2, RunRead
<1>4. g \notin Of({"connect"}) /\ g \in Of(ReadChain(e)) /\ g \notin Of(DataOps)
  BY <1>1, StartedOf DEF Stages
<1>5. Head1(e) \in Of(ReadChain(e)) /\ Head1(e) \notin Of(DataOps)
  BY <1>1, <1>2 DEF Of, Stages
<1>. HIDE DEF g
<1>6. SocketOk(e)' /\ ConnectOk(e)' /\ ReaderOk(e)'
  BY <1>2, <1>3, <1>4, <1>5, RunsOn
<1>7. Cnt(io'[e], Of(DataOps)) = Cnt(io[e], Of(DataOps))
  <2>1. Bit(Head1(e) \in Of(DataOps)) = 0 /\ Bit(g \in Of(DataOps)) = 0
    BY <1>4, <1>5, BitIn
  <2>2. Cnt(io[e], Of(DataOps)) \in Nat
    BY CntNat DEF IoTyped
  <2>3. Cnt(io'[e], Of(DataOps)) = Cnt(io[e], Of(DataOps)) - Bit(Head1(e) \in Of(DataOps)) + Bit(g \in Of(DataOps))
    BY <1>3
  <2>. QED  BY <2>1, <2>2, <2>3
<1>8. WriterOk(e)'
  BY <1>3, <1>7, NoWriter
<1>. QED  BY <1>3, <1>6, <1>8 DEF EndOk

\* A handler of e closes the socket.
LEMMA FailedOk ==
    ASSUME IoTyped, NEW e \in Ends, EndOk(e), io[e].ready # << >>,
           Continue(e, close(rest(e))), qOut'[e] = qOut[e]
    PROVE  IoTyped' /\ EndOk(e)' /\ io'[Peer(e)] = io[Peer(e)]
BY RunCloses, RunsClosed

\* A step of one end that keeps EndOk there keeps the invariant.
LEMMA BothEnds ==
    ASSUME CountInv, NEW e \in Ends, IoTyped', EndOk(e)', io'[Peer(e)] = io[Peer(e)],
           qOut'[Peer(e)] = qOut[Peer(e)], qOut' \in [Ends -> Seq(Messages)],
           UNCHANGED <<link, wire, sent, opening>>
    PROVE  CountInv'
<1>1. Peer(e) \in Ends /\ \A d \in Ends : d = e \/ d = Peer(e)
  BY TwoEnds
<1>2. EndOk(Peer(e))'
  BY <1>1, OtherEnd DEF CountInv
<1>3. Typed'
  BY DEF Typed, CountInv
<1>. QED  BY <1>1, <1>2, <1>3 DEF CountInv

\* The handler of async_connect keeps the invariant.
LEMMA CountConnected ==
    ASSUME CountInv, NEW e \in Ends, Connected(e)
    PROVE  CountInv'
<1>1. IoTyped /\ EndOk(e) /\ Due(e, "connect") /\ qOut' = qOut /\ link' = link
  BY DEF CountInv, Typed, Connected
<1>2. /\ io[e].ready # << >> /\ Head1(e) = <<IF ok(e) THEN "ok" ELSE "failed", "connect">>
      /\ ok(e) \in BOOLEAN /\ "connect" \in AllOps
  BY <1>1, DueOp, ChainOps
<1>3. e = "client"
  <2>1. Cnt(io[e], Of({"connect"})) # 0
    <3>1. Head1(e) \in Of({"connect"})
      BY <1>2 DEF Of, Stages
    <3>2. Head(io[e].ready) = io[e].ready[1] /\ 1 \in DOMAIN io[e].ready
      BY <1>1, <1>2 DEF IoTyped, IoRecord
    <3>3. io[e] \in IoRecord
      BY <1>1 DEF IoTyped
    <3>. QED  BY <3>1, <3>2, <3>3, CntZero DEF Head1
  <2>. QED  BY <1>1, <2>1 DEF EndOk, ConnectOk, Ends
<1>4. CASE ok(e)
  <2>1. Continue(e, async_read(rest(e), "readValidation")) /\ "readValidation" \in ReadOps
    BY <1>4 DEF Connected, ReadOps
  <2>2. "connect" \in ReadChain(e)
    BY <1>3, ChainOps
  <2>3. IoTyped' /\ EndOk(e)' /\ io'[Peer(e)] = io[Peer(e)]
    BY <1>1, <2>1, <2>2, ReadsOk
  <2>. QED  BY <1>1, <2>3, BothEnds DEF CountInv, Typed, Connected
<1>5. CASE ~ok(e)
  <2>1. Continue(e, rest(e))
    BY <1>5 DEF Connected
  <2>2. /\ IoTyped' /\ io'[Peer(e)] = io[Peer(e)] /\ io'[e].socket = io[e].socket
        /\ io'[e].reading = io[e].reading /\ io'[e].writing = io[e].writing
        /\ \A P : Cnt(io'[e], P) = Cnt(io[e], P) - Bit(Head1(e) \in P)
    BY <1>1, <1>2, <2>1, RunNothing
  <2>3. link = "refused" \/ io[e].socket # "open"
    <3>1. Head(io[e].ready) = io[e].ready[1] /\ 1 \in DOMAIN io[e].ready
      BY <1>1, <1>2 DEF IoTyped, IoRecord
    <3>2. io[e] \in IoRecord
      BY <1>1 DEF IoTyped
    <3>3. Cnt(io[e], {<<"failed", "connect">>}) # 0 /\ Cnt(io[e], {<<"failed", "connect">>}) \in Nat
      BY <1>2, <1>5, <3>1, <3>2, CntZero, CntNat DEF Head1
    <3>. QED  BY <1>1, <3>3 DEF EndOk, ConnectOk
  <2>4. SocketOk(e)' /\ ConnectOk(e)' /\ ReaderOk(e)'
    BY <1>1, <1>2, <2>2, <2>3, RunsOut
  <2>5. Head1(e) \notin Of(DataOps)
    BY <1>2 DEF Of, DataOps
  <2>6. Cnt(io'[e], Of(DataOps)) = Cnt(io[e], Of(DataOps))
    <3>1. Cnt(io'[e], Of(DataOps)) = Cnt(io[e], Of(DataOps)) - Bit(Head1(e) \in Of(DataOps))
      BY <2>2
    <3>2. Cnt(io[e], Of(DataOps)) \in Nat
      BY <1>1, CntNat DEF IoTyped
    <3>. QED  BY <2>5, <3>1, <3>2, BitIn
  <2>7. EndOk(e)'
    BY <1>1, <2>2, <2>4, <2>6, NoWriter DEF EndOk
  <2>. QED  BY <1>1, <2>2, <2>7, BothEnds DEF CountInv, Typed, Connected
<1>. QED  BY <1>4, <1>5

\* The handler of readValidation keeps the invariant.
LEMMA CountValidationRead ==
    ASSUME CountInv, NEW e \in Ends, ValidationRead(e)
    PROVE  CountInv'
<1>1. IoTyped /\ EndOk(e) /\ Due(e, "readValidation") /\ qOut' = qOut /\ link' = link
      /\ qOut \in [Ends -> Seq(Messages)] /\ UNCHANGED <<link, wire, sent, opening>>
  BY DEF CountInv, Typed, ValidationRead
<1>2. "readValidation" \in ReadChain(e) /\ "readValidation" \in AllOps
      /\ "readHeader" \in ReadOps /\ "writeValidation" \in WriteOps
  BY ChainOps DEF ReadOps, WriteOps
<1>3. /\ io[e].ready # << >> /\ Head1(e) = <<IF ok(e) THEN "ok" ELSE "failed", "readValidation">>
      /\ ok(e) \in BOOLEAN
  BY <1>1, <1>2, DueOp
<1>4. CASE Continue(e, async_read(rest(e), "readHeader"))
  <2>1. IoTyped' /\ EndOk(e)' /\ io'[Peer(e)] = io[Peer(e)]
    BY <1>1, <1>2, <1>4, ReadsOk
  <2>. QED  BY <1>1, <2>1, BothEnds
<1>5. CASE e = "client" /\ Continue(e, async_write(rest(e), "writeValidation",
                                                   Handshake(scramble(handshakeIn[e].word))))
  <2>. DEFINE u == Handshake(scramble(handshakeIn[e].word))
              g == Started(io[e], "writing", "writeValidation")
  <2>1. u \in AnyUnit
    BY DEF AnyUnit, Units, Words, scramble, Challenge
  <2>. HIDE DEF u
  <2>2. /\ IoTyped' /\ io'[Peer(e)] = io[Peer(e)] /\ io'[e].socket = io[e].socket
        /\ io'[e].reading = io[e].reading
        /\ io[e].socket # "open" => io'[e].writing = io[e].writing
        /\ \A P : Cnt(io'[e], P) = Cnt(io[e], P) - Bit(Head1(e) \in P) + Bit(g \in P)
    BY <1>1, <1>2, <1>3, <1>5, <2>1, RunWrite DEF u
  <2>3. g \notin Of({"connect"}) /\ g \in Of(ReadChain(e)) /\ g \notin Of(DataOps)
    BY <1>5, ChainOps, StartedOf DEF Stages, DataOps
  <2>4. Head1(e) \in Of(ReadChain(e)) /\ Head1(e) \notin Of(DataOps)
    BY <1>2, <1>3 DEF Of, Stages, DataOps
  <2>. HIDE DEF g
  <2>5. SocketOk(e)' /\ ConnectOk(e)' /\ ReaderOk(e)'
    BY <1>1, <1>3, <2>2, <2>3, <2>4, RunsOn
  <2>6. Cnt(io'[e], Of(DataOps)) = Cnt(io[e], Of(DataOps))
    <3>1. Bit(Head1(e) \in Of(DataOps)) = 0 /\ Bit(g \in Of(DataOps)) = 0
      BY <2>3, <2>4, BitIn
    <3>2. Cnt(io[e], Of(DataOps)) \in Nat
      BY <1>1, CntNat DEF IoTyped
    <3>3. Cnt(io'[e], Of(DataOps)) = Cnt(io[e], Of(DataOps)) - Bit(Head1(e) \in Of(DataOps)) + Bit(g \in Of(DataOps))
      BY <2>2
    <3>. QED  BY <3>1, <3>2, <3>3
  <2>7. WriterOk(e)'
    BY <1>1, <2>2, <2>6, NoWriter
  <2>. QED  BY <1>1, <2>2, <2>5, <2>7, BothEnds DEF EndOk
<1>6. CASE Continue(e, close(rest(e)))
  <2>1. IoTyped' /\ EndOk(e)' /\ io'[Peer(e)] = io[Peer(e)]
    BY <1>1, <1>3, <1>6, FailedOk
  <2>. QED  BY <1>1, <2>1, BothEnds
<1>. QED  BY <1>4, <1>5, <1>6 DEF ValidationRead, Failed

\* The handler of writeValidation keeps the invariant.
LEMMA CountValidationWritten ==
    ASSUME CountInv, NEW e \in Ends, ValidationWritten(e)
    PROVE  CountInv'
<1>1. IoTyped /\ EndOk(e) /\ Due(e, "writeValidation") /\ qOut' = qOut /\ link' = link
      /\ qOut \in [Ends -> Seq(Messages)] /\ UNCHANGED <<link, wire, sent, opening>>
  BY DEF CountInv, Typed, ValidationWritten
<1>2. "writeValidation" \in AllOps /\ "readHeader" \in ReadOps
  BY DEF AllOps, ReadOps, WriteOps
<1>3. /\ io[e].ready # << >> /\ Head1(e) = <<IF ok(e) THEN "ok" ELSE "failed", "writeValidation">>
      /\ ok(e) \in BOOLEAN
  BY <1>1, <1>2, DueOp
<1>4. CASE e = "client" /\ Continue(e, async_read(rest(e), "readHeader"))
  <2>1. "writeValidation" \in ReadChain(e)
    BY <1>4, ChainOps
  <2>2. IoTyped' /\ EndOk(e)' /\ io'[Peer(e)] = io[Peer(e)]
    BY <1>1, <1>2, <1>4, <2>1, ReadsOk
  <2>. QED  BY <1>1, <2>2, BothEnds
<1>5. CASE e # "client" /\ Continue(e, rest(e))
  <2>1. /\ IoTyped' /\ io'[Peer(e)] = io[Peer(e)] /\ io'[e].socket = io[e].socket
        /\ io'[e].reading = io[e].reading /\ io'[e].writing = io[e].writing
        /\ \A P : Cnt(io'[e], P) = Cnt(io[e], P) - Bit(Head1(e) \in P)
    BY <1>1, <1>3, <1>5, RunNothing
  <2>2. Head1(e) \notin Of(ReadChain(e)) /\ Head1(e) \notin Of(DataOps)
    BY <1>3, <1>5, ChainOps DEF Of, DataOps
  <2>3. SocketOk(e)' /\ ConnectOk(e)' /\ ReaderOk(e)'
    BY <1>1, <1>3, <2>1, <2>2, RunsOut
  <2>4. Cnt(io'[e], Of(DataOps)) = Cnt(io[e], Of(DataOps))
    <3>1. Cnt(io'[e], Of(DataOps)) = Cnt(io[e], Of(DataOps)) - Bit(Head1(e) \in Of(DataOps))
      BY <2>1
    <3>2. Cnt(io[e], Of(DataOps)) \in Nat
      BY <1>1, CntNat DEF IoTyped
    <3>. QED  BY <2>2, <3>1, <3>2, BitIn
  <2>5. WriterOk(e)'
    BY <1>1, <2>1, <2>4, NoWriter
  <2>. QED  BY <1>1, <2>1, <2>3, <2>5, BothEnds DEF EndOk
<1>6. CASE Continue(e, close(rest(e)))
  <2>1. IoTyped' /\ EndOk(e)' /\ io'[Peer(e)] = io[Peer(e)]
    BY <1>1, <1>3, <1>6, FailedOk
  <2>. QED  BY <1>1, <2>1, BothEnds
<1>. QED  BY <1>4, <1>5, <1>6 DEF ValidationWritten, Failed

\* A handler that writes (a part of) a message
LEMMA WritesData ==
    ASSUME IoTyped, NEW e \in Ends, EndOk(e), io[e].ready # << >>, Head1(e) \notin Of(ReadChain(e)),
           NEW op \in DataOps, NEW u \in AnyUnit, Continue(e, async_write(rest(e), op, u)), link' = link
    PROVE  /\ IoTyped' /\ io'[Peer(e)] = io[Peer(e)] /\ io'[e].socket = io[e].socket
           /\ SocketOk(e)' /\ ConnectOk(e)' /\ ReaderOk(e)'
           /\ Cnt(io'[e], Of(DataOps)) = Cnt(io[e], Of(DataOps)) - Bit(Head1(e) \in Of(DataOps)) + 1
<1>. DEFINE g == Started(io[e], "writing", op)
<1>1. op \in WriteOps /\ op \notin ReadChain(e) /\ op # "connect"
  BY ChainOps DEF WriteOps, DataOps
<1>2. /\ IoTyped' /\ io'[Peer(e)] = io[Peer(e)] /\ io'[e].socket = io[e].socket
      /\ io'[e].reading = io[e].reading
      /\ io[e].socket # "open" => io'[e].writing = io[e].writing
      /\ \A P : Cnt(io'[e], P) = Cnt(io[e], P) - Bit(Head1(e) \in P) + Bit(g \in P)
  BY <1>1, RunWrite
<1>3. g \notin Of({"connect"}) /\ g \notin Of(ReadChain(e)) /\ g \in Of(DataOps)
  BY <1>1, StartedOf DEF Stages
<1>. HIDE DEF g
<1>4. SocketOk(e)' /\ ConnectOk(e)' /\ ReaderOk(e)'
  BY <1>2, <1>3, RunsOn
<1>5. Cnt(io'[e], Of(DataOps)) = Cnt(io[e], Of(DataOps)) - Bit(Head1(e) \in Of(DataOps)) + Bit(g \in Of(DataOps))
  BY <1>2
<1>. QED  BY <1>2, <1>3, <1>4, <1>5, BitIn

\* A handler that is not one of the reader's, and starts nothing
LEMMA StartsNothing ==
    ASSUME IoTyped, NEW e \in Ends, EndOk(e), io[e].ready # << >>, Head1(e) \notin Of(ReadChain(e)),
           Continue(e, rest(e)), link' = link
    PROVE  /\ IoTyped' /\ io'[Peer(e)] = io[Peer(e)] /\ io'[e].socket = io[e].socket
           /\ SocketOk(e)' /\ ConnectOk(e)' /\ ReaderOk(e)'
           /\ Cnt(io'[e], Of(DataOps)) = Cnt(io[e], Of(DataOps)) - Bit(Head1(e) \in Of(DataOps))
<1>1. /\ IoTyped' /\ io'[Peer(e)] = io[Peer(e)] /\ io'[e].socket = io[e].socket
      /\ io'[e].reading = io[e].reading /\ io'[e].writing = io[e].writing
      /\ \A P : Cnt(io'[e], P) = Cnt(io[e], P) - Bit(Head1(e) \in P)
  BY RunNothing
<1>2. SocketOk(e)' /\ ConnectOk(e)' /\ ReaderOk(e)'
  BY <1>1, RunsOut
<1>. QED  BY <1>1, <1>2

\* The units of a message
LEMMA MessageUnits ==
    ASSUME NEW m \in Messages
    PROVE  Header(m) \in Headers /\ Body(m) \in Bodies /\ Header(m) \in AnyUnit /\ Body(m) \in AnyUnit
BY DEF Headers, Bodies, Units, AnyUnit

\* The handler that send() has posted keeps the invariant: it starts a write only
\* when m_qMessagesOut was empty, that is when no other was under way.
LEMMA CountRunSend ==
    ASSUME CountInv, NEW e \in Ends, RunSend(e)
    PROVE  CountInv'
<1>. DEFINE m == Head(io[e].ready).msg
            D == Of(DataOps)
<1>1. IoTyped /\ EndOk(e) /\ Due(e, "send") /\ link' = link
      /\ qOut \in [Ends -> Seq(Messages)] /\ UNCHANGED <<link, wire, sent, opening>>
  BY DEF CountInv, Typed, RunSend
<1>2. io[e].ready # << >> /\ Head1(e) = <<"posted", "send">> /\ m \in Messages
  BY <1>1, DuePosted
<1>3. Head1(e) \notin Of(ReadChain(e)) /\ Head1(e) \notin D
  BY <1>2 DEF Of, Stages
<1>. HIDE DEF m
<1>4. /\ qOut' = [qOut EXCEPT ![e] = Append(@, m)]
      /\ Continue(e, IF qOut[e] = << >> THEN async_write(rest(e), "writeHeader", Header(m)) ELSE rest(e))
  BY DEF RunSend, m
<1>5. /\ qOut' \in [Ends -> Seq(Messages)] /\ qOut'[Peer(e)] = qOut[Peer(e)]
      /\ qOut'[e] = Append(qOut[e], m) /\ qOut'[e] # << >>
  BY <1>1, <1>2, <1>4, TwoEnds
<1>6. Cnt(io[e], D) \in Nat /\ Bit(Head1(e) \in D) = 0
  BY <1>1, <1>3, CntNat, BitIn DEF IoTyped
<1>. HIDE DEF D
<1>7. CASE qOut[e] = << >>
  <2>1. /\ IoTyped' /\ io'[Peer(e)] = io[Peer(e)] /\ io'[e].socket = io[e].socket
        /\ SocketOk(e)' /\ ConnectOk(e)' /\ ReaderOk(e)'
        /\ Cnt(io'[e], D) = Cnt(io[e], D) - Bit(Head1(e) \in D) + 1
    <3>1. Continue(e, async_write(rest(e), "writeHeader", Header(m))) /\ "writeHeader" \in DataOps
      BY <1>4, <1>7 DEF DataOps
    <3>2. Header(m) \in AnyUnit
      BY <1>2, MessageUnits
    <3>. QED  BY <1>1, <1>2, <1>3, <3>1, <3>2, WritesData DEF D
  <2>2. Cnt(io[e], D) = 0
    BY <1>1, <1>7 DEF EndOk, WriterOk, D
  <2>3. Cnt(io'[e], D) = 1
    BY <1>6, <2>1, <2>2
  <2>4. WriterOk(e)'
    BY <1>5, <2>3 DEF WriterOk, D
  <2>. QED  BY <1>1, <1>5, <2>1, <2>4, BothEnds DEF EndOk
<1>8. CASE qOut[e] # << >>
  <2>1. /\ IoTyped' /\ io'[Peer(e)] = io[Peer(e)] /\ io'[e].socket = io[e].socket
        /\ SocketOk(e)' /\ ConnectOk(e)' /\ ReaderOk(e)'
        /\ Cnt(io'[e], D) = Cnt(io[e], D) - Bit(Head1(e) \in D)
    <3>1. Continue(e, rest(e))
      BY <1>4, <1>8
    <3>. QED  BY <1>1, <1>2, <1>3, <3>1, StartsNothing DEF D
  <2>3. Cnt(io'[e], D) = Cnt(io[e], D)
    BY <1>6, <2>1
  <2>4. WriterOk(e)'
    BY <1>1, <1>5, <1>8, <2>1, <2>3 DEF EndOk, WriterOk, D
  <2>. QED  BY <1>1, <1>5, <2>1, <2>4, BothEnds DEF EndOk
<1>. QED  BY <1>7, <1>8

\* The handler that disconnect() has posted keeps the invariant.
LEMMA CountRunClose ==
    ASSUME CountInv, NEW e \in Ends, RunClose(e)
    PROVE  CountInv'
<1>1. /\ IoTyped /\ EndOk(e) /\ Due(e, "close") /\ link' = link /\ qOut' = qOut
      /\ Continue(e, close(rest(e)))
      /\ qOut \in [Ends -> Seq(Messages)] /\ UNCHANGED <<link, wire, sent, opening>>
  BY DEF CountInv, Typed, RunClose
<1>2. io[e].ready # << >>
  BY <1>1 DEF Due
<1>3. IoTyped' /\ EndOk(e)' /\ io'[Peer(e)] = io[Peer(e)]
  BY <1>1, <1>2, FailedOk
<1>. QED  BY <1>1, <1>3, BothEnds

\* The handler of readHeader keeps the invariant.
LEMMA CountHeaderRead ==
    ASSUME CountInv, NEW e \in Ends, HeaderRead(e)
    PROVE  CountInv'
<1>1. IoTyped /\ EndOk(e) /\ Due(e, "readHeader") /\ qOut' = qOut /\ link' = link
      /\ qOut \in [Ends -> Seq(Messages)] /\ UNCHANGED <<link, wire, sent, opening>>
  BY DEF CountInv, Typed, HeaderRead
<1>2. "readHeader" \in ReadChain(e) /\ "readHeader" \in AllOps
      /\ "readHeader" \in ReadOps /\ "readBody" \in ReadOps /\ "readBody" \in AllOps
  BY ChainOps DEF ReadOps, AllOps
<1>3. /\ io[e].ready # << >> /\ Head1(e) = <<IF ok(e) THEN "ok" ELSE "failed", "readHeader">>
      /\ ok(e) \in BOOLEAN
  BY <1>1, <1>2, DueOp
<1>4. ASSUME NEW op \in ReadOps, Continue(e, async_read(rest(e), op)) PROVE CountInv'
  <2>1. IoTyped' /\ EndOk(e)' /\ io'[Peer(e)] = io[Peer(e)]
    BY <1>1, <1>2, <1>4, ReadsOk
  <2>. QED  BY <1>1, <2>1, BothEnds
<1>5. CASE Continue(e, post(rest(e), Done("readBody", TRUE)))
  <2>. DEFINE h == Done("readBody", TRUE)
              g == Token(h)
  <2>1. h \in Handlers /\ g = <<"ok", "readBody">>
    BY <1>2, DoneHandler, DoneToken
  <2>2. /\ IoTyped' /\ io'[Peer(e)] = io[Peer(e)] /\ io'[e].socket = io[e].socket
        /\ io'[e].reading = io[e].reading /\ io'[e].writing = io[e].writing
        /\ \A P : Cnt(io'[e], P) = Cnt(io[e], P) - Bit(Head1(e) \in P) + Bit(g \in P)
    <3>. HIDE DEF h
    <3>. QED  BY <1>1, <1>3, <1>5, <2>1, RunPosts DEF h
  <2>3. "readBody" \in ReadChain(e) /\ "readBody" \notin DataOps /\ "readHeader" \notin DataOps
    BY ChainOps DEF ReadOps, DataOps
  <2>. HIDE DEF g, h
  <2>4. g \notin Of({"connect"}) /\ g \in Of(ReadChain(e)) /\ g \notin Of(DataOps)
    BY <2>1, <2>3 DEF Of, Stages
  <2>5. Head1(e) \in Of(ReadChain(e)) /\ Head1(e) \notin Of(DataOps)
    BY <1>2, <1>3, <2>3 DEF Of, Stages
  <2>6. SocketOk(e)' /\ ConnectOk(e)' /\ ReaderOk(e)'
    BY <1>1, <1>3, <2>2, <2>4, <2>5, RunsOn
  <2>7. Cnt(io'[e], Of(DataOps)) = Cnt(io[e], Of(DataOps))
    <3>1. Bit(Head1(e) \in Of(DataOps)) = 0 /\ Bit(g \in Of(DataOps)) = 0
      BY <2>4, <2>5, BitIn
    <3>2. Cnt(io[e], Of(DataOps)) \in Nat
      BY <1>1, CntNat DEF IoTyped
    <3>3. Cnt(io'[e], Of(DataOps)) = Cnt(io[e], Of(DataOps)) - Bit(Head1(e) \in Of(DataOps)) + Bit(g \in Of(DataOps))
      BY <2>2
    <3>. QED  BY <3>1, <3>2, <3>3
  <2>8. WriterOk(e)'
    BY <1>1, <2>2, <2>7, NoWriter
  <2>. QED  BY <1>1, <2>2, <2>6, <2>8, BothEnds DEF EndOk
<1>6. CASE Continue(e, close(rest(e)))
  <2>1. IoTyped' /\ EndOk(e)' /\ io'[Peer(e)] = io[Peer(e)]
    BY <1>1, <1>3, <1>6, FailedOk
  <2>. QED  BY <1>1, <2>1, BothEnds
<1>7. \/ Continue(e, async_read(rest(e), "readHeader"))
      \/ Continue(e, async_read(rest(e), "readBody"))
      \/ Continue(e, post(rest(e), Done("readBody", TRUE)))
      \/ Continue(e, close(rest(e)))
  BY DEF HeaderRead, addToIncoming, Failed
<1>. QED  BY <1>2, <1>4, <1>5, <1>6, <1>7

\* The handler of readBody keeps the invariant.
LEMMA CountBodyRead ==
    ASSUME CountInv, NEW e \in Ends, BodyRead(e)
    PROVE  CountInv'
<1>1. IoTyped /\ EndOk(e) /\ Due(e, "readBody") /\ qOut' = qOut /\ link' = link
      /\ qOut \in [Ends -> Seq(Messages)] /\ UNCHANGED <<link, wire, sent, opening>>
  BY DEF CountInv, Typed, BodyRead
<1>2. "readBody" \in ReadChain(e) /\ "readHeader" \in ReadOps
  BY ChainOps DEF ReadOps
<1>3. io[e].ready # << >>
  BY <1>1 DEF Due
<1>4. \/ Continue(e, async_read(rest(e), "readHeader"))
      \/ Continue(e, close(rest(e)))
  BY DEF BodyRead, addToIncoming, Failed
<1>5. IoTyped' /\ EndOk(e)' /\ io'[Peer(e)] = io[Peer(e)]
  BY <1>1, <1>2, <1>3, <1>4, ReadsOk, FailedOk
<1>. QED  BY <1>1, <1>5, BothEnds

\* A message is out of the way: the next one is begun.
LEMMA CountNextMessage ==
    ASSUME CountInv, NEW e \in Ends, NEW h \in DataOps, Due(e, h), NextMessage(e),
           UNCHANGED <<link, wire, sent, opening>>
    PROVE  CountInv'
<1>. DEFINE D == Of(DataOps)
<1>1. IoTyped /\ EndOk(e) /\ qOut \in [Ends -> Seq(Messages)] /\ h \in AllOps
      /\ h \notin ReadChain(e)
  BY ChainOps DEF CountInv, Typed, AllOps, WriteOps
<1>2. /\ io[e].ready # << >> /\ Head1(e) = <<IF ok(e) THEN "ok" ELSE "failed", h>>
      /\ ok(e) \in BOOLEAN
  BY <1>1, DueOp
<1>3. Head1(e) \notin Of(ReadChain(e)) /\ Head1(e) \in D
  BY <1>1, <1>2 DEF Of, Stages
<1>4. /\ Cnt(io[e], D) \in Nat /\ Bit(Head1(e) \in D) = 1 /\ Cnt(io[e], D) # 0
  <2>1. Head(io[e].ready) = io[e].ready[1] /\ 1 \in DOMAIN io[e].ready
    BY <1>1, <1>2 DEF IoTyped, IoRecord
  <2>2. io[e] \in IoRecord
    BY <1>1 DEF IoTyped
  <2>. QED  BY <1>3, <2>1, <2>2, CntZero, CntNat, BitIn DEF Head1
<1>5. Cnt(io[e], D) = 1 /\ qOut[e] # << >>
  BY <1>1, <1>4 DEF EndOk, WriterOk
<1>6. /\ qOut' = [qOut EXCEPT ![e] = Tail(@)] /\ qOut' \in [Ends -> Seq(Messages)]
      /\ qOut'[Peer(e)] = qOut[Peer(e)] /\ qOut'[e] = Tail(qOut[e])
  <2>1. Tail(qOut[e]) \in Seq(Messages)
    BY <1>1, <1>5
  <2>2. qOut' = [qOut EXCEPT ![e] = Tail(@)]
    BY DEF NextMessage
  <2>. QED  BY <1>1, <2>1, <2>2, TwoEnds
<1>. HIDE DEF D
<1>7. CASE Len(qOut[e]) > 1
  <2>1. Continue(e, async_write(rest(e), "writeHeader", Header(qOut[e][2]))) /\ "writeHeader" \in DataOps
    BY <1>7 DEF NextMessage, DataOps
  <2>2. qOut[e][2] \in Messages /\ Tail(qOut[e]) # << >>
    <3>1. qOut[e] \in Seq(Messages) /\ Len(qOut[e]) \in Nat /\ 2 \in 1 .. Len(qOut[e])
      BY <1>1, <1>7
    <3>2. Tail(qOut[e]) \in Seq(Messages) /\ Len(Tail(qOut[e])) = Len(qOut[e]) - 1
      BY <1>5, <3>1
    <3>3. Len(<< >>) = 0
      OBVIOUS
    <3>. DEFINE n == Len(qOut[e])
                k == Len(Tail(qOut[e]))
    <3>4. k # 0
      <4>1. n \in Nat /\ n > 1 /\ k = n - 1
        BY <1>7, <3>1, <3>2
      <4>. HIDE DEF n, k
      <4>. QED  BY <4>1
    <3>5. Tail(qOut[e]) # << >>
      BY <3>3, <3>4
    <3>. QED  BY <3>1, <3>5
  <2>3. /\ IoTyped' /\ io'[Peer(e)] = io[Peer(e)] /\ io'[e].socket = io[e].socket
        /\ SocketOk(e)' /\ ConnectOk(e)' /\ ReaderOk(e)'
        /\ Cnt(io'[e], D) = Cnt(io[e], D) - Bit(Head1(e) \in D) + 1
    <3>1. Header(qOut[e][2]) \in AnyUnit
      BY <2>2, MessageUnits
    <3>. QED  BY <1>1, <1>2, <1>3, <2>1, <3>1, WritesData DEF D
  <2>4. Cnt(io'[e], D) = 1
    BY <1>4, <1>5, <2>3
  <2>5. WriterOk(e)'
    BY <1>6, <2>2, <2>4 DEF WriterOk, D
  <2>. QED  BY <1>1, <1>6, <2>3, <2>5, BothEnds DEF EndOk
<1>8. CASE ~(Len(qOut[e]) > 1)
  <2>1. Continue(e, rest(e))
    BY <1>8 DEF NextMessage
  <2>2. Tail(qOut[e]) = << >>
    BY <1>1, <1>5, <1>8
  <2>3. /\ IoTyped' /\ io'[Peer(e)] = io[Peer(e)] /\ io'[e].socket = io[e].socket
        /\ SocketOk(e)' /\ ConnectOk(e)' /\ ReaderOk(e)'
        /\ Cnt(io'[e], D) = Cnt(io[e], D) - Bit(Head1(e) \in D)
    BY <1>1, <1>2, <1>3, <2>1, StartsNothing DEF D
  <2>4. Cnt(io'[e], D) = 0
    BY <1>4, <1>5, <2>3
  <2>5. WriterOk(e)'
    BY <1>6, <2>2, <2>4 DEF WriterOk, D
  <2>. QED  BY <1>1, <1>6, <2>3, <2>5, BothEnds DEF EndOk
<1>. QED  BY <1>7, <1>8

\* The handler of writeHeader keeps the invariant.
LEMMA CountHeaderWritten ==
    ASSUME CountInv, NEW e \in Ends, HeaderWritten(e)
    PROVE  CountInv'
<1>. DEFINE D == Of(DataOps)
<1>1. IoTyped /\ EndOk(e) /\ qOut \in [Ends -> Seq(Messages)] /\ Due(e, "writeHeader")
      /\ UNCHANGED <<link, wire, sent, opening>> /\ "writeHeader" \in DataOps
      /\ "writeHeader" \in AllOps /\ "writeHeader" \notin ReadChain(e) /\ "writeBody" \in DataOps
  BY ChainOps DEF CountInv, Typed, AllOps, WriteOps, HeaderWritten, DataOps
<1>2. /\ io[e].ready # << >> /\ Head1(e) = <<IF ok(e) THEN "ok" ELSE "failed", "writeHeader">>
      /\ ok(e) \in BOOLEAN
  BY <1>1, DueOp
<1>3. Head1(e) \notin Of(ReadChain(e)) /\ Head1(e) \in D
  BY <1>1, <1>2 DEF Of, Stages
<1>4. /\ Cnt(io[e], D) \in Nat /\ Bit(Head1(e) \in D) = 1 /\ Cnt(io[e], D) # 0
  <2>1. Head(io[e].ready) = io[e].ready[1] /\ 1 \in DOMAIN io[e].ready
    BY <1>1, <1>2 DEF IoTyped, IoRecord
  <2>2. io[e] \in IoRecord
    BY <1>1 DEF IoTyped
  <2>. QED  BY <1>3, <2>1, <2>2, CntZero, CntNat, BitIn DEF Head1
<1>5. Cnt(io[e], D) = 1 /\ qOut[e] # << >>
  BY <1>1, <1>4 DEF EndOk, WriterOk
<1>. HIDE DEF D
<1>6. CASE Continue(e, async_write(rest(e), "writeBody", Body(Head(qOut[e])))) /\ UNCHANGED qOut
  <2>1. Head(qOut[e]) \in Messages
    BY <1>1, <1>5
  <2>2. /\ IoTyped' /\ io'[Peer(e)] = io[Peer(e)] /\ io'[e].socket = io[e].socket
        /\ SocketOk(e)' /\ ConnectOk(e)' /\ ReaderOk(e)'
        /\ Cnt(io'[e], D) = Cnt(io[e], D) - Bit(Head1(e) \in D) + 1
    <3>1. Body(Head(qOut[e])) \in AnyUnit
      BY <2>1, MessageUnits
    <3>. QED  BY <1>1, <1>2, <1>3, <1>6, <3>1, WritesData DEF D
  <2>3. Cnt(io'[e], D) = 1
    BY <1>4, <1>5, <2>2
  <2>4. WriterOk(e)'
    BY <1>5, <1>6, <2>3 DEF WriterOk, D
  <2>. QED  BY <1>1, <1>6, <2>2, <2>4, BothEnds DEF EndOk
<1>7. CASE NextMessage(e)
  BY <1>1, <1>7, CountNextMessage
<1>8. CASE Failed(e) /\ UNCHANGED qOut
  <2>1. IoTyped' /\ EndOk(e)' /\ io'[Peer(e)] = io[Peer(e)]
    BY <1>1, <1>2, <1>8, FailedOk DEF Failed
  <2>. QED  BY <1>1, <1>8, <2>1, BothEnds
<1>. QED  BY <1>6, <1>7, <1>8 DEF HeaderWritten

\* The handler of writeBody keeps the invariant.
LEMMA CountBodyWritten ==
    ASSUME CountInv, NEW e \in Ends, BodyWritten(e)
    PROVE  CountInv'
<1>1. IoTyped /\ EndOk(e) /\ qOut \in [Ends -> Seq(Messages)] /\ Due(e, "writeBody")
      /\ UNCHANGED <<link, wire, sent, opening>> /\ "writeBody" \in DataOps
  BY DEF CountInv, Typed, BodyWritten, DataOps
<1>2. CASE NextMessage(e)
  BY <1>1, <1>2, CountNextMessage
<1>3. CASE Failed(e) /\ UNCHANGED qOut
  <2>1. io[e].ready # << >>
    BY <1>1 DEF Due
  <2>2. IoTyped' /\ EndOk(e)' /\ io'[Peer(e)] = io[Peer(e)]
    BY <1>1, <1>3, <2>1, FailedOk DEF Failed
  <2>. QED  BY <1>1, <1>3, <2>2, BothEnds
<1>. QED  BY <1>2, <1>3 DEF BodyWritten

\* Every handler keeps the invariant.
LEMMA CountRun ==
    ASSUME CountInv, NEW e \in Ends, Run(e)
    PROVE  CountInv'
BY CountRunSend, CountRunClose, CountConnected, CountValidationRead, CountValidationWritten,
   CountHeaderRead, CountBodyRead, CountHeaderWritten, CountBodyWritten DEF Run

\* send() keeps the invariant.
LEMMA CountSend ==
    ASSUME CountInv, NEW e \in Ends, NEW m \in MessagesOf[e], send(e, m)
    PROVE  CountInv'
<1>1. IoTyped /\ EndOk(e) /\ UNCHANGED <<link, wire, qOut, opening>>
  BY DEF CountInv, Typed, send
<1>. DEFINE h == [handler |-> "send", msg |-> m]
<1>2. m \in Messages
  BY DEF Messages
<1>3. h \in Handlers /\ Token(h) = <<"posted", "send">>
  BY <1>2 DEF Handlers, Token, Stage
<1>4. io[e].socket # "none"
  BY <1>1 DEF send, isConnected, EndOk, SocketOk, Ends
<1>5. /\ IoTyped' /\ io'[Peer(e)] = io[Peer(e)] /\ io'[e].socket = io[e].socket
      /\ io'[e].reading = io[e].reading /\ io'[e].writing = io[e].writing
      /\ \A P : Cnt(io'[e], P) = Cnt(io[e], P) + Bit(Token(h) \in P)
  <2>1. io' = [io EXCEPT ![e] = post(@, h)]
    BY DEF send
  <2>. HIDE DEF h
  <2>. QED  BY <1>1, <1>3, <2>1, Posted
<1>6. EndOk(e)'
  <2>1. \A P : Cnt(io'[e], P) = Cnt(io[e], P) + Bit(<<"posted", "send">> \in P)
    BY <1>3, <1>5
  <2>. QED  BY <1>1, <1>4, <1>5, <2>1, PostedOk
<1>7. EndOk(Peer(e))'
  BY <1>1, <1>5, TwoEnds, OtherEnd DEF CountInv
<1>8. Typed'
  <2>1. sent' = [sent EXCEPT ![e] = Append(@, m)] /\ sent \in [Ends -> Seq(Messages)]
    BY DEF send, CountInv, Typed
  <2>2. Append(sent[e], m) \in Seq(Messages)
    BY <1>2, <2>1
  <2>3. sent' \in [Ends -> Seq(Messages)]
    BY <2>1, <2>2
  <2>. QED  BY <1>1, <1>5, <2>3 DEF CountInv, Typed
<1>. QED  BY <1>6, <1>7, <1>8, TwoEnds DEF CountInv

\* disconnect() keeps the invariant.
LEMMA CountDisconnect ==
    ASSUME CountInv, NEW e \in Ends, disconnect(e)
    PROVE  CountInv'
<1>1. IoTyped /\ EndOk(e) /\ UNCHANGED <<link, wire, qOut, opening, sent>>
      /\ qOut \in [Ends -> Seq(Messages)]
  BY DEF CountInv, Typed, disconnect
<1>. DEFINE h == [handler |-> "close"]
<1>2. h \in Handlers /\ Token(h) = <<"posted", "close">>
  BY DEF Handlers, Token, Stage
<1>3. io[e].socket # "none"
  BY DEF disconnect, isConnected
<1>4. /\ IoTyped' /\ io'[Peer(e)] = io[Peer(e)] /\ io'[e].socket = io[e].socket
      /\ io'[e].reading = io[e].reading /\ io'[e].writing = io[e].writing
      /\ \A P : Cnt(io'[e], P) = Cnt(io[e], P) + Bit(Token(h) \in P)
  <2>1. io' = [io EXCEPT ![e] = post(@, h)]
    BY DEF disconnect
  <2>. HIDE DEF h
  <2>. QED  BY <1>1, <1>2, <2>1, Posted
<1>5. EndOk(e)'
  <2>1. \A P : Cnt(io'[e], P) = Cnt(io[e], P) + Bit(<<"posted", "close">> \in P)
    BY <1>2, <1>4
  <2>. QED  BY <1>1, <1>3, <1>4, <2>1, PostedOk
<1>. QED  BY <1>1, <1>4, <1>5, BothEnds

\* What stop() leaves of io: all but that the context runs
LEMMA Halts ==
    ASSUME IoTyped, NEW e \in Ends, stop(e)
    PROVE  /\ IoTyped' /\ io'[Peer(e)] = io[Peer(e)] /\ io'[e].socket = io[e].socket
           /\ io'[e].reading = io[e].reading /\ io'[e].writing = io[e].writing
           /\ io'[e].ready = io[e].ready
           /\ \A P : Cnt(io'[e], P) = Cnt(io[e], P)
<1>1. io[e] \in IoRecord /\ io' = [io EXCEPT ![e].running = FALSE] /\ io \in [Ends -> IoRecord]
  BY DEF IoTyped, stop
<1>2. io'[e] = [io[e] EXCEPT !.running = FALSE] /\ io'[Peer(e)] = io[Peer(e)]
      /\ \A d \in Ends : d # e => io'[d] = io[d]
  BY <1>1, TwoEnds
<1>3. /\ io'[e] \in IoRecord /\ io'[e].socket = io[e].socket
      /\ io'[e].reading = io[e].reading /\ io'[e].writing = io[e].writing
      /\ io'[e].ready = io[e].ready
  BY <1>1, <1>2 DEF IoRecord
<1>4. IoTyped'
  <2>1. io' \in [Ends -> IoRecord]
    <3>. HIDE DEF IoRecord
    <3>. QED  BY <1>1, <1>2, <1>3
  <2>. QED  BY <2>1 DEF IoTyped
<1>5. ASSUME NEW P PROVE Cnt(io'[e], P) = Cnt(io[e], P)
  BY <1>3 DEF Cnt
<1>. QED  BY <1>2, <1>3, <1>4, <1>5

\* stop() keeps the invariant.
LEMMA CountStop ==
    ASSUME CountInv, NEW e \in Ends, stop(e)
    PROVE  CountInv'
<1>1. IoTyped /\ EndOk(e) /\ UNCHANGED <<link, wire, qOut, opening, sent>>
      /\ qOut \in [Ends -> Seq(Messages)]
  BY DEF CountInv, Typed, stop
<1>2. /\ IoTyped' /\ io'[Peer(e)] = io[Peer(e)] /\ io'[e].socket = io[e].socket
      /\ io'[e].reading = io[e].reading /\ io'[e].writing = io[e].writing
      /\ io'[e].ready = io[e].ready
      /\ \A P : Cnt(io'[e], P) = Cnt(io[e], P)
  BY <1>1, Halts
<1>3. EndOk(e)'
  BY <1>1, <1>2 DEF EndOk, SocketOk, ConnectOk, ReaderOk, WriterOk
<1>. QED  BY <1>1, <1>2, <1>3, BothEnds

\* A socket on which something is outstanding is open.
LEMMA OpenSocket ==
    ASSUME IoTyped, NEW e \in Ends, SocketOk(e), io[e].reading # << >> \/ io[e].writing # << >>
    PROVE  io[e].socket = "open"
BY DEF IoTyped, IoRecord, Sockets, SocketOk

\* A write that completes keeps both ends in order.
LEMMA WriteCompleted ==
    ASSUME CountInv, NEW e \in Ends, io[e].writing # << >>, NEW s \in BOOLEAN, CompleteWrite(e, s),
           qOut' = qOut, link = "refused" => link' = "refused",
           (s = FALSE /\ Head(io[e].writing).op = "connect") => link' = "refused"
    PROVE  IoTyped' /\ \A d \in Ends : EndOk(d)'
<1>. DEFINE op == Head(io[e].writing).op
            st2 == IF s THEN "ok" ELSE "failed"
<1>1. IoTyped /\ EndOk(e)
  BY DEF CountInv, Typed
<1>2. /\ IoTyped' /\ io'[Peer(e)] = io[Peer(e)] /\ io'[e].socket = io[e].socket /\ op \in AllOps
      /\ \A P : Cnt(io'[e], P) = Cnt(io[e], P) - Bit(<<"writing", op>> \in P) + Bit(<<st2, op>> \in P)
  BY <1>1, WriteCompletes
<1>3. io[e].socket = "open"
  BY <1>1, OpenSocket DEF EndOk
<1>4. (st2 = "failed" /\ op = "connect" => link' = "refused") /\ st2 \in Stages /\ "writing" \in Stages
  BY DEF Stages
<1>. HIDE DEF op, st2
<1>5. EndOk(e)'
  BY <1>1, <1>2, <1>3, <1>4, Completed
<1>6. EndOk(Peer(e))'
  BY <1>2, TwoEnds, OtherEnd DEF CountInv
<1>. QED  BY <1>2, <1>5, <1>6, TwoEnds

\* A read that completes keeps both ends in order.
LEMMA ReadCompleted ==
    ASSUME CountInv, NEW e \in Ends, io[e].reading # << >>, NEW s \in BOOLEAN, CompleteRead(e, s),
           UNCHANGED <<qOut, link>>
    PROVE  IoTyped' /\ \A d \in Ends : EndOk(d)'
<1>. DEFINE op == Head(io[e].reading)
            st2 == IF s THEN "ok" ELSE "failed"
<1>1. IoTyped /\ EndOk(e)
  BY DEF CountInv, Typed
<1>2. /\ IoTyped' /\ io'[Peer(e)] = io[Peer(e)] /\ io'[e].socket = io[e].socket /\ op \in ReadOps
      /\ \A P : Cnt(io'[e], P) = Cnt(io[e], P) - Bit(<<"reading", op>> \in P) + Bit(<<st2, op>> \in P)
  BY <1>1, ReadCompletes
<1>3. io[e].socket = "open"
  BY <1>1, OpenSocket DEF EndOk
<1>4. op # "connect" /\ op \in AllOps /\ st2 \in Stages /\ "reading" \in Stages
  BY <1>2 DEF Stages, ReadOps, AllOps
<1>. HIDE DEF op, st2
<1>5. EndOk(e)'
  BY <1>1, <1>2, <1>3, <1>4, Completed
<1>6. EndOk(Peer(e))'
  BY <1>2, TwoEnds, OtherEnd DEF CountInv
<1>. QED  BY <1>2, <1>5, <1>6, TwoEnds

\* The connect that completes keeps the invariant.
LEMMA CountConnect ==
    ASSUME CountInv, Connect
    PROVE  CountInv'
<1>1. "client" \in Ends /\ io["client"].writing # << >> /\ qOut' = qOut /\ link = "syn"
      /\ UNCHANGED <<wire, sent, opening>>
  BY DEF Ends, Connect, Connecting
<1>2. PICK s \in BOOLEAN : CompleteWrite("client", s) /\ link' = IF s THEN "up" ELSE "refused"
  BY DEF Connect
<1>3. IoTyped' /\ \A d \in Ends : EndOk(d)'
  BY <1>1, <1>2, WriteCompleted
<1>. QED  BY <1>1, <1>2, <1>3 DEF CountInv, Typed, Links

\* A write that completes keeps the invariant.
LEMMA CountTransmit ==
    ASSUME CountInv, NEW e \in Ends, Transmit(e)
    PROVE  CountInv'
<1>. DEFINE w == Head(io[e].writing)
<1>1. io[e].writing # << >> /\ w.op # "connect" /\ UNCHANGED <<qOut, link, sent>>
  BY DEF Transmit
<1>2. PICK s \in BOOLEAN : CompleteWrite(e, s)
  BY DEF Transmit
<1>3. IoTyped' /\ \A d \in Ends : EndOk(d)'
  BY <1>1, <1>2, WriteCompleted
<1>4. w.unit \in AnyUnit
  <2>1. w \in AnyWrites
    BY <1>1 DEF CountInv, Typed, IoTyped, IoRecord
  <2>. QED  BY <2>1 DEF AnyWrites
<1>5. opening' = opening \/ opening' = w.unit
  BY DEF Transmit
<1>6. wire' = wire \/ wire' = [wire EXCEPT ![Peer(e)] = Append(@, w.unit)]
  BY DEF Transmit
<1>. HIDE DEF w
<1>7. wire' \in [Ends -> Seq(AnyUnit)]
  <2>1. wire \in [Ends -> Seq(AnyUnit)]
    BY DEF CountInv, Typed
  <2>2. Append(wire[Peer(e)], w.unit) \in Seq(AnyUnit)
    BY <1>4, <2>1, TwoEnds
  <2>. QED  BY <1>6, <2>1, <2>2
<1>. QED  BY <1>1, <1>3, <1>4, <1>5, <1>7 DEF CountInv, Typed

\* A read that completes keeps the invariant.
LEMMA CountReceive ==
    ASSUME CountInv, NEW e \in Ends, Receive(e)
    PROVE  CountInv'
<1>1. io[e].reading # << >> /\ wire[e] # << >> /\ UNCHANGED <<qOut, link, sent, opening>>
      /\ CompleteRead(e, TRUE) /\ wire' = [wire EXCEPT ![e] = Tail(@)]
  BY DEF Receive
<1>2. IoTyped' /\ \A d \in Ends : EndOk(d)'
  BY <1>1, ReadCompleted
<1>3. wire' \in [Ends -> Seq(AnyUnit)]
  <2>1. wire \in [Ends -> Seq(AnyUnit)]
    BY DEF CountInv, Typed
  <2>2. Tail(wire[e]) \in Seq(AnyUnit)
    BY <1>1, <2>1
  <2>. QED  BY <1>1, <2>1, <2>2
<1>. QED  BY <1>1, <1>2, <1>3 DEF CountInv, Typed

\* A read that fails keeps the invariant.
LEMMA CountReceiveFails ==
    ASSUME CountInv, NEW e \in Ends, ReceiveFails(e)
    PROVE  CountInv'
<1>1. io[e].reading # << >> /\ UNCHANGED <<qOut, link, sent, opening, wire>> /\ CompleteRead(e, FALSE)
  BY DEF ReceiveFails
<1>2. IoTyped' /\ \A d \in Ends : EndOk(d)'
  BY <1>1, ReadCompleted
<1>. QED  BY <1>1, <1>2 DEF CountInv, Typed

\* The network that breaks keeps the invariant.
LEMMA CountReset ==
    ASSUME CountInv, Reset
    PROVE  CountInv'
<1>1. UNCHANGED <<io, qOut, sent, opening>> /\ link = "up" /\ link' = "reset"
  BY DEF Reset
<1>2. \A d \in Ends : EndOk(d)'
  BY <1>1, OtherEnd DEF CountInv
<1>3. wire' \in [Ends -> Seq(AnyUnit)]
  <2>1. wire \in [Ends -> Seq(AnyUnit)]
    BY DEF CountInv, Typed
  <2>2. PICK c \in 0 .. Len(wire["client"]), s \in 0 .. Len(wire["server"]) :
           wire' = [e \in Ends |-> SubSeq(wire[e], 1, IF e = "client" THEN c ELSE s)]
    BY DEF Reset
  <2>3. SubSeq(wire["client"], 1, c) \in Seq(AnyUnit)
    BY <2>1 DEF Ends
  <2>4. SubSeq(wire["server"], 1, s) \in Seq(AnyUnit)
    BY <2>1 DEF Ends
  <2>. QED  BY <2>2, <2>3, <2>4 DEF Ends
<1>. QED  BY <1>1, <1>2, <1>3 DEF CountInv, Typed, IoTyped, Links

\* The server's end as the accept handler leaves it
Welcomed == [socket |-> "open", reading |-> <<"readValidation">>,
             writing |-> <<[op |-> "writeValidation", unit |-> Handshake(Challenge)]>>,
             ready |-> << >>, running |-> io["server"].running]
TurnedAway == [socket |-> "closed", reading |-> << >>, writing |-> << >>, ready |-> << >>,
               running |-> io["server"].running]

\* The two outcomes of the accept handler
LEMMA Accepts ==
    ASSUME IoTyped, SocketOk("server"), Accept
    PROVE  /\ IoTyped' /\ io'["client"] = io["client"] /\ io'["server"] \in {Welcomed, TurnedAway}
           /\ io["server"].reading = << >> /\ io["server"].writing = << >> /\ io["server"].ready = << >>
<1>. DEFINE r == io["server"]
            o == [r EXCEPT !.socket = "open"]
            u == Handshake(Challenge)
            p == [socket |-> "open", reading |-> << >>, writing |-> << >>, ready |-> << >>,
                  running |-> r.running]
<1>1. /\ r \in IoRecord /\ r.socket = "none" /\ r.reading = << >> /\ r.writing = << >> /\ r.ready = << >>
      /\ "server" \in Ends /\ "client" \in Ends
  BY DEF IoTyped, SocketOk, Accept, Ends
<1>2. o = p /\ p.socket = "open"
  BY <1>1 DEF IoRecord
<1>3. \/ io' = [io EXCEPT !["server"] = async_read(async_write(o, "writeValidation", u), "readValidation")]
      \/ io' = [io EXCEPT !["server"] = close(o)]
  BY DEF Accept
<1>. HIDE DEF r, o, u
<1>4. async_write(p, "writeValidation", u) = [p EXCEPT !.writing = <<[op |-> "writeValidation", unit |-> u]>>]
  <2>1. Append(<< >>, [op |-> "writeValidation", unit |-> u]) = <<[op |-> "writeValidation", unit |-> u]>>
    OBVIOUS
  <2>. QED  BY <1>2, <2>1 DEF async_write
<1>5. async_read(async_write(p, "writeValidation", u), "readValidation") =
         [socket |-> "open", reading |-> <<"readValidation">>,
          writing |-> <<[op |-> "writeValidation", unit |-> u]>>, ready |-> << >>, running |-> r.running]
  <2>. DEFINE q == [socket |-> "open", reading |-> << >>,
                    writing |-> <<[op |-> "writeValidation", unit |-> u]>>, ready |-> << >>, running |-> r.running]
  <2>1. [p EXCEPT !.writing = <<[op |-> "writeValidation", unit |-> u]>>] = q
    OBVIOUS
  <2>2. Append(<< >>, "readValidation") = <<"readValidation">>
    OBVIOUS
  <2>3. async_read(q, "readValidation") = [q EXCEPT !.reading = Append(@, "readValidation")]
    BY DEF async_read
  <2>. QED  BY <1>4, <2>1, <2>2, <2>3
<1>6. close(p) = TurnedAway
  <2>1. p \in IoRecord
    BY <1>1 DEF IoRecord, Sockets
  <2>2. /\ close(p) \in IoRecord /\ close(p).socket = "closed" /\ close(p).reading = << >>
        /\ close(p).writing = << >> /\ close(p).ready = p.ready \o AbortedReads(p) \o AbortedWrites(p)
    BY <2>1, CloseFields
  <2>3. AbortedReads(p) = << >> /\ AbortedWrites(p) = << >>
    BY DEF AbortedReads, AbortedWrites
  <2>4. close(p).ready = << >>
    <3>1. p.ready \o AbortedReads(p) \o AbortedWrites(p) = << >> \o << >> \o << >>
      BY <2>3
    <3>2. << >> \o << >> \o << >> = << >>
      OBVIOUS
    <3>. QED  BY <2>2, <3>1, <3>2
  <2>5. close(p).running = r.running
    BY DEF close
  <2>. QED  BY <2>2, <2>4, <2>5 DEF IoRecord, TurnedAway, r
<1>7. io' = [io EXCEPT !["server"] = Welcomed] \/ io' = [io EXCEPT !["server"] = TurnedAway]
  BY <1>2, <1>3, <1>5, <1>6 DEF Welcomed, r, u
<1>8. Welcomed \in IoRecord /\ TurnedAway \in IoRecord
  <2>1. [op |-> "writeValidation", unit |-> Handshake(Challenge)] \in AnyWrites
    BY DEF AnyWrites, AnyUnit, Units, Words, WriteOps
  <2>2. <<[op |-> "writeValidation", unit |-> Handshake(Challenge)]>> \in Seq(AnyWrites)
    BY <2>1
  <2>3. <<"readValidation">> \in Seq(ReadOps)
    BY DEF ReadOps
  <2>4. io["server"].running \in BOOLEAN
    BY <1>1 DEF IoRecord, r
  <2>5. << >> \in Seq(ReadOps) /\ << >> \in Seq(AnyWrites) /\ << >> \in Seq(Handlers)
    OBVIOUS
  <2>6. Welcomed \in IoRecord
    BY <2>2, <2>3, <2>4, <2>5 DEF Welcomed, IoRecord, Sockets
  <2>7. TurnedAway \in IoRecord
    BY <2>4, <2>5 DEF TurnedAway, IoRecord, Sockets
  <2>. QED  BY <2>6, <2>7
<1>9. IoTyped' /\ io'["client"] = io["client"] /\ io'["server"] \in {Welcomed, TurnedAway}
  <2>. HIDE DEF IoRecord
  <2>. QED  BY <1>1, <1>7, <1>8 DEF IoTyped
<1>. QED  BY <1>1, <1>9 DEF r

\* What a welcomed end has outstanding
LEMMA WelcomedTokens ==
    ASSUME NEW P
    PROVE  /\ Cnt(Welcomed, P) = Bit(<<"reading", "readValidation">> \in P)
                                    + Bit(<<"writing", "writeValidation">> \in P)
           /\ Cnt(TurnedAway, P) = 0
<1>. DEFINE A == {op \in ReadOps : <<"reading", op>> \in P}
            B == {w \in AnyWrites : <<"writing", w.op>> \in P}
            H == {h \in Handlers : Token(h) \in P}
            w0 == [op |-> "writeValidation", unit |-> Handshake(Challenge)]
            a == Bit(<<"reading", "readValidation">> \in P)
            b == Bit(<<"writing", "writeValidation">> \in P)
<1>1. w0 \in AnyWrites /\ w0.op = "writeValidation"
  BY DEF AnyWrites, AnyUnit, Units, Words, WriteOps
<1>2. "readValidation" \in A <=> <<"reading", "readValidation">> \in P
  BY DEF ReadOps
<1>3. w0 \in B <=> <<"writing", "writeValidation">> \in P
  BY <1>1
<1>4. /\ Welcomed.reading = <<"readValidation">> /\ Welcomed.writing = <<w0>> /\ Welcomed.ready = << >>
      /\ TurnedAway.reading = << >> /\ TurnedAway.writing = << >> /\ TurnedAway.ready = << >>
  BY DEF Welcomed, TurnedAway
<1>5. Count(<<"readValidation">>, A) = a
  <2>1. Count(<<"readValidation">>, A) = IF "readValidation" \in A THEN 1 ELSE 0
    <3>. HIDE DEF A
    <3>. QED  BY CountSmall
  <2>. QED  BY <1>2, <2>1 DEF Bit
<1>6. Count(<<w0>>, B) = b
  <2>1. Count(<<w0>>, B) = IF w0 \in B THEN 1 ELSE 0
    <3>. HIDE DEF B, w0
    <3>. QED  BY CountSmall
  <2>. QED  BY <1>3, <2>1 DEF Bit
<1>7. Count(<< >>, A) = 0 /\ Count(<< >>, B) = 0 /\ Count(<< >>, H) = 0
  <2>. HIDE DEF A, B, H
  <2>. QED  BY CountSmall
<1>8. /\ Cnt(Welcomed, P) = Count(Welcomed.reading, A) + Count(Welcomed.writing, B) + Count(Welcomed.ready, H)
      /\ Cnt(TurnedAway, P) = Count(TurnedAway.reading, A) + Count(TurnedAway.writing, B) + Count(TurnedAway.ready, H)
  BY DEF Cnt
<1>9. a \in Nat /\ b \in Nat
  BY DEF Bit
<1>. HIDE DEF A, B, H, w0, a, b
<1>10. Cnt(Welcomed, P) = a + b /\ Cnt(TurnedAway, P) = 0
  BY <1>4, <1>5, <1>6, <1>7, <1>8, <1>9
<1>. QED  BY <1>10 DEF a, b

\* The accept handler keeps the invariant: the connection it takes begins with one
\* read, and with a write that is not one of the writer's.
LEMMA CountAccept ==
    ASSUME CountInv, Accept
    PROVE  CountInv'
<1>1. /\ IoTyped /\ EndOk("server") /\ "server" \in Ends /\ Peer("server") = "client"
      /\ UNCHANGED <<link, wire, qOut, sent, opening>> /\ qOut \in [Ends -> Seq(Messages)]
  BY DEF CountInv, Typed, Accept, Ends, Peer
<1>2. /\ IoTyped' /\ io'["client"] = io["client"] /\ io'["server"] \in {Welcomed, TurnedAway}
      /\ io["server"].reading = << >> /\ io["server"].writing = << >> /\ io["server"].ready = << >>
  BY <1>1, Accepts DEF EndOk
<1>3. /\ Welcomed.socket = "open" /\ TurnedAway.socket = "closed"
      /\ TurnedAway.reading = << >> /\ TurnedAway.writing = << >>
  BY DEF Welcomed, TurnedAway
<1>. DEFINE x == <<"reading", "readValidation">>
            y == <<"writing", "writeValidation">>
            K == Of({"connect"})
            F == {<<"failed", "connect">>}
            R == Of(ReadChain("server"))
            D == Of(DataOps)
<1>4. x \notin K /\ y \notin K /\ x \notin F /\ y \notin F /\ x \in R /\ y \notin R /\ x \notin D /\ y \notin D
  BY DEF Of, Stages, ReadChain, ReadOps, DataOps
<1>5. Bit(x \in K) = 0 /\ Bit(y \in K) = 0 /\ Bit(x \in F) = 0 /\ Bit(y \in F) = 0
      /\ Bit(x \in R) = 1 /\ Bit(y \in R) = 0 /\ Bit(x \in D) = 0 /\ Bit(y \in D) = 0
  BY <1>4 DEF Bit
<1>6. \A P : Cnt(Welcomed, P) = Bit(x \in P) + Bit(y \in P) /\ Cnt(TurnedAway, P) = 0
  BY WelcomedTokens
<1>. HIDE DEF x, y, K, F, R, D
<1>7. Cnt(Welcomed, K) = 0 /\ Cnt(Welcomed, F) = 0 /\ Cnt(Welcomed, R) = 1 /\ Cnt(Welcomed, D) = 0
  <2>1. Cnt(Welcomed, K) = Bit(x \in K) + Bit(y \in K)
    BY <1>6
  <2>2. Cnt(Welcomed, F) = Bit(x \in F) + Bit(y \in F)
    BY <1>6
  <2>3. Cnt(Welcomed, R) = Bit(x \in R) + Bit(y \in R)
    BY <1>6
  <2>4. Cnt(Welcomed, D) = Bit(x \in D) + Bit(y \in D)
    BY <1>6
  <2>. QED  BY <1>5, <2>1, <2>2, <2>3, <2>4
<1>8. Cnt(TurnedAway, K) = 0 /\ Cnt(TurnedAway, F) = 0 /\ Cnt(TurnedAway, R) = 0 /\ Cnt(TurnedAway, D) = 0
  BY <1>6
<1>9. io["server"].socket = "none" /\ qOut["server"] = << >> /\ qOut'["server"] = << >>
  BY <1>1 DEF Accept, EndOk, SocketOk
<1>10. SocketOk("server")'
  <2>1. CASE io'["server"] = Welcomed
    BY <1>3, <2>1 DEF SocketOk
  <2>2. CASE io'["server"] = TurnedAway
    BY <1>3, <2>2 DEF SocketOk
  <2>. QED  BY <1>2, <2>1, <2>2
<1>11. ConnectOk("server")'
  BY <1>2, <1>7, <1>8 DEF ConnectOk, K, F
<1>12. ReaderOk("server")'
  BY <1>2, <1>3, <1>7, <1>8 DEF ReaderOk, R
<1>13. WriterOk("server")'
  BY <1>2, <1>7, <1>8, <1>9 DEF WriterOk, D
<1>. QED  BY <1>1, <1>2, <1>10, <1>11, <1>12, <1>13, BothEnds DEF EndOk

\* The initial state satisfies the invariant.
LEMMA CountInit ==
    ASSUME Init
    PROVE  CountInv
<1>. DEFINE w0 == [op |-> "connect", unit |-> NoUnit]
            c == io["client"]
            s == io["server"]
<1>1. /\ c = [socket |-> "open", reading |-> << >>, writing |-> <<w0>>, ready |-> << >>, running |-> TRUE]
      /\ s = [socket |-> "none", reading |-> << >>, writing |-> << >>, ready |-> << >>, running |-> TRUE]
      /\ io = [e \in Ends |-> io[e]]
  BY DEF Init, Ends
<1>2. w0 \in AnyWrites /\ w0.op = "connect"
  BY DEF AnyWrites, AnyUnit
<1>3. << >> \in Seq(ReadOps) /\ << >> \in Seq(AnyWrites) /\ << >> \in Seq(Handlers)
      /\ <<w0>> \in Seq(AnyWrites)
  <2>. HIDE DEF w0
  <2>. QED  BY <1>2
<1>4. c \in IoRecord /\ s \in IoRecord
  <2>. HIDE DEF w0, c, s
  <2>. QED  BY <1>1, <1>3 DEF IoRecord, Sockets
<1>5. IoTyped
  <2>. HIDE DEF IoRecord
  <2>1. io["client"] \in IoRecord /\ io["server"] \in IoRecord
    BY <1>4
  <2>. QED  BY <1>1, <2>1 DEF IoTyped, Ends
<1>6. Typed
  <2>1. wire = [e \in Ends |-> << >>] /\ qOut = [e \in Ends |-> << >>] /\ sent = [e \in Ends |-> << >>]
        /\ opening = NoUnit /\ link = "syn"
    BY DEF Init
  <2>. QED  BY <1>5, <2>1 DEF Typed, Links, AnyUnit
<1>7. ASSUME NEW P PROVE Cnt(c, P) = Bit(<<"writing", "connect">> \in P) /\ Cnt(s, P) = 0
  <2>. DEFINE A == {op \in ReadOps : <<"reading", op>> \in P}
              B == {w \in AnyWrites : <<"writing", w.op>> \in P}
              H == {h \in Handlers : Token(h) \in P}
              b == Bit(<<"writing", "connect">> \in P)
  <2>1. Count(<<w0>>, B) = b
    <3>1. Count(<<w0>>, B) = IF w0 \in B THEN 1 ELSE 0
      <4>. HIDE DEF B, w0
      <4>. QED  BY CountSmall
    <3>2. w0 \in B <=> <<"writing", "connect">> \in P
      BY <1>2
    <3>. QED  BY <3>1, <3>2 DEF Bit
  <2>2. Count(<< >>, A) = 0 /\ Count(<< >>, B) = 0 /\ Count(<< >>, H) = 0
    <3>. HIDE DEF A, B, H
    <3>. QED  BY CountSmall
  <2>3. /\ Cnt(c, P) = Count(c.reading, A) + Count(c.writing, B) + Count(c.ready, H)
        /\ Cnt(s, P) = Count(s.reading, A) + Count(s.writing, B) + Count(s.ready, H)
    BY DEF Cnt
  <2>4. b \in Nat
    BY DEF Bit
  <2>. HIDE DEF A, B, H, w0, c, s, b
  <2>5. Cnt(c, P) = b /\ Cnt(s, P) = 0
    BY <1>1, <2>1, <2>2, <2>3, <2>4
  <2>. QED  BY <2>5 DEF b
<1>8. qOut["client"] = << >> /\ qOut["server"] = << >> /\ c.socket = "open" /\ s.socket = "none"
      /\ s.reading = << >> /\ s.writing = << >> /\ s.ready = << >>
  BY <1>1 DEF Init, Ends
<1>9. Cnt(c, Of(ReadChain("client"))) = 1 /\ Cnt(c, Of(DataOps)) = 0
      /\ Cnt(c, {<<"failed", "connect">>}) = 0
  <2>1. <<"writing", "connect">> \in Of(ReadChain("client")) /\ <<"writing", "connect">> \notin Of(DataOps)
        /\ <<"writing", "connect">> \notin {<<"failed", "connect">>}
    BY DEF Of, Stages, ReadChain, DataOps
  <2>. HIDE DEF c
  <2>. QED  BY <1>7, <2>1, BitIn
<1>10. EndOk("client")
  <2>1. SocketOk("client")
    BY <1>8 DEF SocketOk
  <2>2. ConnectOk("client")
    BY <1>9 DEF ConnectOk
  <2>3. ReaderOk("client")
    BY <1>9 DEF ReaderOk
  <2>4. WriterOk("client")
    BY <1>8, <1>9 DEF WriterOk
  <2>. QED  BY <2>1, <2>2, <2>3, <2>4 DEF EndOk
<1>11. EndOk("server")
  <2>1. SocketOk("server")
    BY <1>8 DEF SocketOk
  <2>2. ConnectOk("server")
    BY <1>7 DEF ConnectOk
  <2>3. ReaderOk("server")
    BY <1>7, <1>8 DEF ReaderOk
  <2>4. WriterOk("server")
    BY <1>7, <1>8 DEF WriterOk
  <2>. QED  BY <2>1, <2>2, <2>3, <2>4 DEF EndOk
<1>. QED  BY <1>6, <1>10, <1>11 DEF CountInv, Ends

\* Every step keeps the invariant.
LEMMA CountNext ==
    ASSUME CountInv, [Next]_vars
    PROVE  CountInv'
<1>1. CASE UNCHANGED vars
  <2>1. UNCHANGED <<io, link, wire, qOut, sent, opening>>
    BY <1>1 DEF vars
  <2>2. \A d \in Ends : EndOk(d)'
    BY <2>1, OtherEnd DEF CountInv
  <2>. QED  BY <2>1, <2>2 DEF CountInv, Typed, IoTyped
<1>2. CASE Next
  BY <1>2, CountRun, CountSend, CountDisconnect, CountStop, CountConnect, CountAccept, CountTransmit,
     CountReceive, CountReceiveFails, CountReset DEF Next, Network
<1>. QED  BY <1>1, <1>2

\* In every state of every connection, whatever its ends send and whenever it
\* breaks, each end has at most one token of its reader and at most one of its
\* writer (p2d.hpp:336-536).
THEOREM CountInvariant == Spec => []CountInv
<1>1. Init => CountInv
  BY CountInit
<1>2. CountInv /\ [Next]_vars => CountInv'
  BY CountNext
<1>. QED  BY <1>1, <1>2, PTL DEF Spec

\* What OneReader and OneWriter count
LEMMA PendingIsCnt ==
    ASSUME IoTyped, NEW e \in Ends, NEW ops, ops \subseteq AllOps
    PROVE  Pending(e, ops) = Cnt(io[e], Of(ops))
<1>. DEFINE r == io[e]
            A == {op \in ReadOps : <<"reading", op>> \in Of(ops)}
            B == {w \in AnyWrites : <<"writing", w.op>> \in Of(ops)}
            H == {h \in Handlers : Token(h) \in Of(ops)}
<1>1. r.reading \in Seq(ReadOps) /\ r.writing \in Seq(AnyWrites) /\ r.ready \in Seq(Handlers)
  BY DEF IoTyped, IoRecord
<1>2. Reading(e, ops) = Places(r.reading, A)
  <2>1. \A i \in DOMAIN r.reading : r.reading[i] \in ReadOps
    BY <1>1
  <2>. QED  BY <2>1 DEF Reading, Places, Of, Stages
<1>3. Writing(e, ops) = Places(r.writing, B)
  <2>1. \A i \in DOMAIN r.writing : r.writing[i] \in AnyWrites
    BY <1>1
  <2>. QED  BY <2>1 DEF Writing, Places, Of, Stages
<1>4. Ready(e, ops) = Places(r.ready, H)
  <2>1. \A i \in DOMAIN r.ready : r.ready[i] \in Handlers
    BY <1>1
  <2>2. ASSUME NEW h \in Handlers PROVE h.handler \in ops <=> Token(h) \in Of(ops)
    <3>1. "send" \notin ops /\ "close" \notin ops
      BY DEF AllOps, ReadOps, WriteOps, DataOps
    <3>. QED  BY <3>1 DEF Token, Stage, Of, Stages
  <2>. QED  BY <2>1, <2>2 DEF Ready, Places
<1>. QED  BY <1>2, <1>3, <1>4 DEF Pending, Cnt, Count

\* The counts of the tokens are the cardinalities that the properties speak of.
LEMMA OneReaderOneWriter ==
    ASSUME CountInv
    PROVE  OneReader /\ OneWriter
<1>1. IoTyped /\ \A e \in Ends : EndOk(e)
  BY DEF CountInv, Typed
<1>2. ASSUME NEW e \in Ends
      PROVE  /\ Pending(e, ReadChain(e)) = Cnt(io[e], Of(ReadChain(e)))
             /\ Pending(e, DataOps) = Cnt(io[e], Of(DataOps))
             /\ Cnt(io[e], Of(DataOps)) \in Nat
  <2>1. ReadChain(e) \subseteq AllOps /\ DataOps \subseteq AllOps
    BY ChainOps
  <2>. QED  BY <1>1, <2>1, PendingIsCnt, CntNat DEF IoTyped
<1>3. OneReader
  BY <1>1, <1>2 DEF OneReader, EndOk, ReaderOk, isConnected
<1>4. ASSUME NEW e \in Ends
      PROVE  /\ Pending(e, DataOps) <= IF qOut[e] = << >> THEN 0 ELSE 1
             /\ (isConnected(e) /\ qOut[e] # << >>) => Pending(e, DataOps) = 1
  <2>1. WriterOk(e)
    BY <1>1, <1>4 DEF EndOk
  <2>. QED  BY <1>2, <2>1 DEF WriterOk, isConnected
<1>. QED  BY <1>3, <1>4 DEF OneWriter

\* The reads of an end follow one another, and so do the writes of its messages:
\* never two at once, and never none on an open connection that has something to
\* read, or to write (the handlers of p2d.hpp:392-536).
THEOREM OneReaderOneWriterHold == Spec => [](OneReader /\ OneWriter)
<1>1. CountInv => OneReader /\ OneWriter
  BY OneReaderOneWriter
<1>. QED  BY <1>1, CountInvariant, PTL

-----------------------------------------------------------------------------
(***************************************************************************)
(* The stream                                                              *)
(*                                                                         *)
(* What an end has read of a message lies in several places: the units on  *)
(* their way to it, m_msgTemporaryIn, and the handler that is ready.  What *)
(* the other end has written of it lies in m_qMessagesOut, the write that  *)
(* is under way and the posted sends.  Inv ties them together.  Both ends  *)
(* count along one stream, the handshake and then the units of the         *)
(* messages that send() was called with, and each has a place in it: the   *)
(* next unit it writes (WritePlace) and the next it reads (ReadPlace).     *)
(* The units on the wire are those from the one place to the other, until  *)
(* an end closes or the connection is reset; from then on, a beginning of  *)
(* those.  Which units these are is said by Chain: from place to place,    *)
(* element by element.  So no step needs an induction, since each appends  *)
(* a unit or takes the first one away.                                     *)
(*                                                                         *)
(* The stream holds only where nothing comes before the handshake.  A      *)
(* client that sends before it has answered the challenge breaks that:     *)
(* its header comes first (opening).  The server then takes the header for *)
(* the answer, and OpeningOk and ValidOk say that it never reads on.       *)
(***************************************************************************)

(* The reader and the writer of an end *)

NoToken == <<"none", "none">>

Has(r, t) == Cnt(r, {t}) # 0

\* The token of P that r holds, if it is only one
Only(r, P) == IF Cnt(r, P) = 0 THEN NoToken ELSE CHOOSE t \in P : Has(r, t)

Reader(e) == Only(io[e], Of(ReadChain(e)))
Writer(e) == Only(io[e], Of(DataOps))

\* A record that has a token of P has just this one, when it has one at most.
LEMMA OnlyIs ==
    ASSUME NEW r \in IoRecord, NEW P, Cnt(r, P) <= 1, NEW t \in P, Has(r, t)
    PROVE  Only(r, P) = t /\ Cnt(r, P) = 1
<1>1. Cnt(r, {t}) <= Cnt(r, P) /\ Cnt(r, {t}) \in Nat /\ Cnt(r, P) \in Nat
  BY CntPart, CntNat
<1>2. Cnt(r, P) = 1 /\ Cnt(r, {t}) = 1
  BY <1>1 DEF Has
<1>3. ASSUME NEW u \in P, Has(r, u) PROVE u = t
  <2>1. SUFFICES ASSUME u # t PROVE FALSE
    OBVIOUS
  <2>2. Cnt(r, {t} \cup {u}) = Cnt(r, {t}) + Cnt(r, {u})
    BY <2>1, CntUnion
  <2>3. Cnt(r, {t} \cup {u}) <= Cnt(r, P)
    BY CntPart
  <2>4. Cnt(r, {u}) \in Nat /\ Cnt(r, {u}) # 0
    BY <1>3, CntNat DEF Has
  <2>. DEFINE a == Cnt(r, {t})
              b == Cnt(r, {u})
              c == Cnt(r, {t} \cup {u})
  <2>5. a = 1 /\ c = a + b /\ c <= 1 /\ b \in Nat /\ b # 0
    BY <1>2, <2>2, <2>3, <2>4
  <2>. HIDE DEF a, b, c
  <2>. QED  BY <2>5
<1>. QED  BY <1>2, <1>3 DEF Only

\* What a record has one token of is there.
LEMMA OnlyHas ==
    ASSUME NEW r \in IoRecord, NEW P, Cnt(r, P) # 0
    PROVE  Only(r, P) \in P /\ Has(r, Only(r, P))
<1>1. \E t \in P : Has(r, t)
  <2>1. \/ \E i \in DOMAIN r.reading : <<"reading", r.reading[i]>> \in P
        \/ \E i \in DOMAIN r.writing : <<"writing", r.writing[i].op>> \in P
        \/ \E i \in DOMAIN r.ready : Token(r.ready[i]) \in P
    BY CntZero
  <2>2. PICK t \in P : \/ \E i \in DOMAIN r.reading : <<"reading", r.reading[i]>> \in {t}
                       \/ \E i \in DOMAIN r.writing : <<"writing", r.writing[i].op>> \in {t}
                       \/ \E i \in DOMAIN r.ready : Token(r.ready[i]) \in {t}
    BY <2>1
  <2>3. Cnt(r, {t}) # 0
    BY <2>2, CntZero
  <2>. QED  BY <2>3 DEF Has
<1>. QED  BY <1>1 DEF Only

\* What stands in a queue has its token there.
LEMMA HasTokens ==
    ASSUME NEW r \in IoRecord
    PROVE  /\ \A i \in DOMAIN r.reading : Has(r, <<"reading", r.reading[i]>>)
           /\ \A i \in DOMAIN r.writing : Has(r, <<"writing", r.writing[i].op>>)
           /\ \A i \in DOMAIN r.ready : Has(r, Token(r.ready[i]))
<1>1. ASSUME NEW i \in DOMAIN r.reading PROVE Has(r, <<"reading", r.reading[i]>>)
  BY CntZero DEF Has
<1>2. ASSUME NEW i \in DOMAIN r.writing PROVE Has(r, <<"writing", r.writing[i].op>>)
  BY CntZero DEF Has
<1>3. ASSUME NEW i \in DOMAIN r.ready PROVE Has(r, Token(r.ready[i]))
  BY CntZero DEF Has
<1>. QED  BY <1>1, <1>2, <1>3

\* From r to q the token h goes and the token g comes.
Moved(r, q, h, g) == \A P \in SUBSET Tokens : Cnt(q, P) = Cnt(r, P) - Bit(h \in P) + Bit(g \in P)

\* What that makes of the one token of P
After(t, P, h, g) == IF g \in P THEN g ELSE IF h \in P THEN NoToken ELSE t

\* The one token of P after a token has moved
LEMMA OnlyMoved ==
    ASSUME NEW r \in IoRecord, NEW q \in IoRecord, NEW P, P \subseteq Tokens, NEW h, NEW g,
           Moved(r, q, h, g), Cnt(r, P) <= 1, Cnt(q, P) <= 1, h \in P => Has(r, h)
    PROVE  /\ Only(q, P) = After(Only(r, P), P, h, g)
           /\ h \in P => Only(r, P) = h
<1>1. Cnt(q, P) = Cnt(r, P) - Bit(h \in P) + Bit(g \in P)
  BY DEF Moved
<1>2. Cnt(q, P) \in Nat /\ Cnt(r, P) \in Nat
  BY CntNat
<1>3. h \in P => Only(r, P) = h /\ Cnt(r, P) = 1
  BY OnlyIs
<1>4. CASE g \in P
  <2>1. Cnt(q, {g}) = Cnt(r, {g}) - Bit(h \in {g}) + Bit(g \in {g})
    <3>1. {g} \in SUBSET Tokens
      BY <1>4
    <3>. QED  BY <3>1 DEF Moved
  <2>2. Cnt(r, {g}) \in Nat /\ Bit(g \in {g}) = 1 /\ Bit(h \in {g}) = (IF h = g THEN 1 ELSE 0)
    BY CntNat DEF Bit
  <2>3. h = g => Cnt(r, {g}) # 0
    BY <1>4 DEF Has
  <2>4. Cnt(q, {g}) # 0
    BY <2>1, <2>2, <2>3
  <2>5. Only(q, P) = g
    BY <1>4, <2>4, OnlyIs DEF Has
  <2>. QED  BY <1>3, <1>4, <2>5 DEF After
<1>5. CASE g \notin P /\ h \in P
  <2>1. Bit(h \in P) = 1 /\ Bit(g \in P) = 0
    BY <1>5, BitIn
  <2>2. Cnt(q, P) = 0
    BY <1>1, <1>2, <1>3, <1>5, <2>1
  <2>. QED  BY <1>3, <1>5, <2>2 DEF After, Only
<1>6. CASE g \notin P /\ h \notin P
  <2>1. Bit(h \in P) = 0 /\ Bit(g \in P) = 0
    BY <1>6, BitIn
  <2>2. Cnt(q, P) = Cnt(r, P)
    BY <1>1, <1>2, <2>1
  <2>3. CASE Cnt(r, P) = 0
    BY <1>6, <2>2, <2>3 DEF After, Only
  <2>4. CASE Cnt(r, P) # 0
    <3>. DEFINE t == Only(r, P)
    <3>1. t \in P /\ Has(r, t)
      BY <2>4, OnlyHas
    <3>. HIDE DEF t
    <3>2. Cnt(q, {t}) = Cnt(r, {t}) - Bit(h \in {t}) + Bit(g \in {t})
      <4>1. {t} \in SUBSET Tokens
        BY <3>1
      <4>. QED  BY <4>1 DEF Moved
    <3>3. Bit(h \in {t}) = 0 /\ Bit(g \in {t}) = 0 /\ Cnt(r, {t}) \in Nat
      BY <1>6, <3>1, CntNat DEF Bit
    <3>4. Has(q, t)
      BY <3>1, <3>2, <3>3 DEF Has
    <3>5. Only(q, P) = t
      BY <3>1, <3>4, OnlyIs
    <3>. QED  BY <1>6, <3>5 DEF After, t
  <2>. QED  BY <2>3, <2>4
<1>. QED  BY <1>4, <1>5, <1>6

\* The one token of operations when the socket is closed by the handler h
LEMMA OnlyAborted ==
    ASSUME NEW r \in IoRecord, NEW q \in IoRecord, NEW ops, ops \subseteq AllOps,
           Cnt(r, Of(ops)) <= 1, Cnt(q, Of(ops)) <= 1, NEW h, Has(r, h),
           \A P : Cnt(q, P) = Cnt(r, ClosedInto(P)) - Bit(h \in P)
    PROVE  /\ Only(q, Of(ops)) = IF h \in Of(ops) THEN NoToken ELSE Aborted(Only(r, Of(ops)))
           /\ h \in Of(ops) => Only(r, Of(ops)) = h
<1>. DEFINE P == Of(ops)
            t == Only(r, P)
<1>1. Cnt(q, P) = Cnt(r, P) - Bit(h \in P) /\ Cnt(q, P) \in Nat /\ Cnt(r, P) \in Nat
  <2>1. Cnt(q, P) = Cnt(r, ClosedInto(P)) - Bit(h \in P)
    OBVIOUS
  <2>2. ClosedInto(P) = P
    BY OfClosed
  <2>. QED  BY <2>1, <2>2, CntNat
<1>2. Aborted(NoToken) = NoToken
  BY DEF Aborted, NoToken
<1>3. h \in P => t = h /\ Cnt(r, P) = 1
  <2>1. Cnt(r, P) <= 1
    OBVIOUS
  <2>. HIDE DEF P
  <2>. QED  BY <2>1, OnlyIs DEF t
<1>4. CASE h \in P
  <2>1. Cnt(q, P) = 0
    <3>. HIDE DEF P
    <3>. QED  BY <1>1, <1>3, <1>4, BitIn
  <2>. QED  BY <1>3, <1>4, <2>1 DEF Only
<1>5. CASE h \notin P /\ Cnt(r, P) = 0
  <2>1. Cnt(q, P) = 0
    <3>. HIDE DEF P
    <3>. QED  BY <1>1, <1>5, BitIn
  <2>. QED  BY <1>2, <1>5, <2>1 DEF Only
<1>6. CASE h \notin P /\ Cnt(r, P) # 0
  <2>1. t \in P /\ Has(r, t)
    <3>. HIDE DEF P
    <3>. QED  BY <1>6, OnlyHas
  <2>. DEFINE u == Aborted(t)
  <2>2. u \in P /\ t \in Tokens /\ u # h
    <3>1. P \subseteq Tokens
      BY DEF Of, Tokens
    <3>2. \A v \in P : Aborted(v) \in P
      BY DEF Of, Stages, Aborted
    <3>. HIDE DEF P, t
    <3>. QED  BY <1>6, <2>1, <3>1, <3>2
  <2>. HIDE DEF P, t, u
  <2>3. t \in ClosedInto({u})
    BY <2>2 DEF ClosedInto, u
  <2>4. Cnt(r, {t}) <= Cnt(r, ClosedInto({u})) /\ Cnt(r, {t}) \in Nat /\ Cnt(r, ClosedInto({u})) \in Nat
    <3>1. {t} \subseteq ClosedInto({u})
      BY <2>3
    <3>. QED  BY <3>1, CntPart, CntNat
  <2>5. Cnt(q, {u}) = Cnt(r, ClosedInto({u})) - Bit(h \in {u}) /\ Bit(h \in {u}) = 0
    BY <2>2 DEF Bit
  <2>6. Has(q, u)
    BY <2>1, <2>4, <2>5 DEF Has
  <2>7. Only(q, P) = u
    <3>1. Cnt(q, P) <= 1
      BY DEF P
    <3>. QED  BY <2>2, <2>6, <3>1, OnlyIs
  <2>. QED  BY <1>6, <2>7 DEF u, t, P
<1>. QED  BY <1>3, <1>4, <1>5, <1>6

-----------------------------------------------------------------------------
(* Following a sequence from one place to another *)

\* Element after element, R leads from a to b: <<x, w, y>> \in R says that the element w
\* leads from x to y.
Chain(w, R, a, b) ==
    \E f : /\ f[0] = a /\ f[Len(w)] = b
           /\ \A i \in 1 .. Len(w) : <<f[i - 1], w[i], f[i]>> \in R

\* The empty sequence leads nowhere.
LEMMA ChainEmpty ==
    ASSUME NEW R, NEW a, NEW b
    PROVE  Chain(<< >>, R, a, b) <=> a = b
<1>1. Chain(<< >>, R, a, b) => a = b
  BY DEF Chain
<1>2. ASSUME a = b PROVE Chain(<< >>, R, a, b)
  <2>. DEFINE f == [i \in {0} |-> a]
  <2>1. f[0] = a /\ f[Len(<< >>)] = b /\ \A i \in 1 .. Len(<< >>) : <<f[i - 1], << >>[i], f[i]>> \in R
    BY <1>2
  <2>. HIDE DEF f
  <2>. QED  BY <2>1 DEF Chain
<1>. QED  BY <1>1, <1>2

\* One sequence after the other
LEMMA ChainConcat ==
    ASSUME NEW S, NEW v \in Seq(S), NEW w \in Seq(S), NEW R, NEW a, NEW b, NEW c,
           Chain(v, R, a, b), Chain(w, R, b, c)
    PROVE  Chain(v \o w, R, a, c)
<1>1. PICK f : f[0] = a /\ f[Len(v)] = b /\ \A i \in 1 .. Len(v) : <<f[i - 1], v[i], f[i]>> \in R
  BY DEF Chain
<1>2. PICK g : g[0] = b /\ g[Len(w)] = c /\ \A i \in 1 .. Len(w) : <<g[i - 1], w[i], g[i]>> \in R
  BY DEF Chain
<1>. DEFINE n == Len(v)
            m == Len(w)
            h == [i \in 0 .. n + m |-> IF i <= n THEN f[i] ELSE g[i - n]]
<1>3. n \in Nat /\ m \in Nat /\ Len(v \o w) = n + m
      /\ \A i \in 1 .. n + m : (v \o w)[i] = IF i <= n THEN v[i] ELSE w[i - n]
  OBVIOUS
<1>4. /\ \A i \in 0 .. n : h[i] = f[i]
      /\ \A i \in n .. n + m : h[i] = g[i - n]
  BY <1>1, <1>2, <1>3
<1>. HIDE DEF h
<1>5. h[0] = a /\ h[n + m] = c
  <2>1. 0 \in 0 .. n /\ n + m \in n .. n + m /\ (n + m) - n = m
    BY <1>3
  <2>. QED  BY <1>1, <1>2, <1>4, <2>1
<1>6. ASSUME NEW i \in 1 .. n + m PROVE <<h[i - 1], (v \o w)[i], h[i]>> \in R
  <2>1. CASE i <= n
    <3>1. i \in 1 .. n /\ i \in 0 .. n /\ i - 1 \in 0 .. n
      BY <1>3, <2>1
    <3>. QED  BY <1>1, <1>3, <1>4, <2>1, <3>1
  <2>2. CASE ~(i <= n)
    <3>1. i - n \in 1 .. m /\ i \in n .. n + m /\ i - 1 \in n .. n + m /\ (i - 1) - n = (i - n) - 1
      BY <1>3, <2>2
    <3>2. h[i] = g[i - n] /\ h[i - 1] = g[(i - n) - 1] /\ (v \o w)[i] = w[i - n]
      BY <1>3, <1>4, <2>2, <3>1
    <3>. QED  BY <1>2, <3>1, <3>2
  <2>. QED  BY <2>1, <2>2
<1>. QED  BY <1>3, <1>5, <1>6 DEF Chain

\* One element more at the end
LEMMA ChainAppend ==
    ASSUME NEW S, NEW w \in Seq(S), NEW u \in S, NEW R, NEW a, NEW b, NEW c,
           Chain(w, R, a, b), <<b, u, c>> \in R
    PROVE  Chain(Append(w, u), R, a, c)
<1>1. Chain(<<u>>, R, b, c)
  <2>. DEFINE f == [i \in 0 .. 1 |-> IF i = 0 THEN b ELSE c]
  <2>1. f[0] = b /\ f[1] = c
    OBVIOUS
  <2>. HIDE DEF f
  <2>2. f[0] = b /\ f[Len(<<u>>)] = c /\ \A i \in 1 .. Len(<<u>>) : <<f[i - 1], <<u>>[i], f[i]>> \in R
    BY <2>1
  <2>. QED  BY <2>2 DEF Chain
<1>2. Append(w, u) = w \o <<u>> /\ <<u>> \in Seq(S)
  OBVIOUS
<1>. QED  BY <1>1, <1>2, ChainConcat

\* One element less at the beginning
LEMMA ChainTail ==
    ASSUME NEW S, NEW w \in Seq(S), w # << >>, NEW R, NEW a, NEW b, Chain(w, R, a, b)
    PROVE  \E c : <<a, Head(w), c>> \in R /\ Chain(Tail(w), R, c, b)
<1>1. PICK f : f[0] = a /\ f[Len(w)] = b /\ \A i \in 1 .. Len(w) : <<f[i - 1], w[i], f[i]>> \in R
  BY DEF Chain
<1>. DEFINE n == Len(w) - 1
            g == [i \in 0 .. n |-> f[i + 1]]
            v == Tail(w)
<1>2. n \in Nat /\ Len(w) = n + 1 /\ Len(v) = n /\ Head(w) = w[1] /\ \A i \in 1 .. n : v[i] = w[i + 1]
  OBVIOUS
<1>3. \A i \in 0 .. n : g[i] = f[i + 1]
  OBVIOUS
<1>. HIDE DEF n, g, v
<1>4. <<a, Head(w), f[1]>> \in R
  <2>1. 1 \in 1 .. Len(w) /\ 1 - 1 = 0
    BY <1>2
  <2>. QED  BY <1>1, <1>2, <2>1
<1>5. g[0] = f[1] /\ g[Len(v)] = b
  BY <1>1, <1>2, <1>3
<1>6. ASSUME NEW i \in 1 .. Len(v) PROVE <<g[i - 1], v[i], g[i]>> \in R
  <2>1. i \in 0 .. n /\ i - 1 \in 0 .. n /\ i \in 1 .. n /\ i + 1 \in 1 .. Len(w) /\ (i - 1) + 1 = (i + 1) - 1
    BY <1>2
  <2>2. g[i - 1] = f[(i + 1) - 1] /\ g[i] = f[i + 1] /\ v[i] = w[i + 1]
    BY <1>2, <1>3, <2>1
  <2>. QED  BY <1>1, <2>1, <2>2
<1>. QED  BY <1>4, <1>5, <1>6 DEF Chain, v

\* The elements up to one of them
LEMMA ChainPrefix ==
    ASSUME NEW S, NEW w \in Seq(S), NEW n \in 0 .. Len(w), NEW R, NEW a, NEW b, Chain(w, R, a, b)
    PROVE  \E c : Chain(SubSeq(w, 1, n), R, a, c)
<1>1. PICK f : f[0] = a /\ f[Len(w)] = b /\ \A i \in 1 .. Len(w) : <<f[i - 1], w[i], f[i]>> \in R
  BY DEF Chain
<1>2. Len(SubSeq(w, 1, n)) = n /\ \A i \in 1 .. n : SubSeq(w, 1, n)[i] = w[i] /\ i \in 1 .. Len(w)
  OBVIOUS
<1>3. f[0] = a /\ f[Len(SubSeq(w, 1, n))] = f[n]
      /\ \A i \in 1 .. Len(SubSeq(w, 1, n)) : <<f[i - 1], SubSeq(w, 1, n)[i], f[i]>> \in R
  BY <1>1, <1>2
<1>. QED  BY <1>3 DEF Chain

\* With more ways to go
LEMMA ChainGrows ==
    ASSUME NEW w, NEW R, NEW Q, NEW a, NEW b, R \subseteq Q, Chain(w, R, a, b)
    PROVE  Chain(w, Q, a, b)
BY DEF Chain

\* Elements that lead nowhere
LEMMA ChainIdle ==
    ASSUME NEW S, NEW w \in Seq(S), NEW R, NEW a, \A i \in DOMAIN w : <<a, w[i], a>> \in R
    PROVE  Chain(w, R, a, a)
<1>. DEFINE f == [i \in 0 .. Len(w) |-> a]
<1>1. Len(w) \in Nat /\ DOMAIN w = 1 .. Len(w)
  OBVIOUS
<1>2. \A i \in 0 .. Len(w) : f[i] = a
  OBVIOUS
<1>. HIDE DEF f
<1>3. f[0] = a /\ f[Len(w)] = a
  BY <1>1, <1>2
<1>4. ASSUME NEW i \in 1 .. Len(w) PROVE <<f[i - 1], w[i], f[i]>> \in R
  <2>1. i \in 0 .. Len(w) /\ i - 1 \in 0 .. Len(w) /\ i \in DOMAIN w
    BY <1>1
  <2>. QED  BY <1>2, <2>1
<1>. QED  BY <1>3, <1>4 DEF Chain

-----------------------------------------------------------------------------
(* What the steps do to the reader, to the writer and to the posted sends *)

SendToken == <<"posted", "send">>

\* The sends that are posted, and how many the io thread has taken
Posts(e) == Cnt(io[e], {SendToken})
Taken(e) == Len(sent[e]) - Posts(e)

\* How one handler moves along the messages s: a send takes the next one.
SendRel(s) == {t \in Nat \X Handlers \X Nat :
                  IF t[2].handler = "send"
                  THEN t[3] = t[1] + 1 /\ t[3] <= Len(s) /\ t[2].msg = s[t[3]]
                  ELSE t[3] = t[1]}

\* The sends that are posted are those that were not taken, in their order.
Queued(e) == Taken(e) \in Nat /\ Chain(io[e].ready, SendRel(sent[e]), Taken(e), Len(sent[e]))

\* What CountInv says of one end
LEMMA EndTyped ==
    ASSUME CountInv, NEW e \in Ends
    PROVE  /\ io[e] \in IoRecord /\ IoTyped /\ EndOk(e)
           /\ Cnt(io[e], Of(ReadChain(e))) <= 1 /\ Cnt(io[e], Of(DataOps)) <= 1
           /\ io[e].ready \in Seq(Handlers) /\ io[e].writing \in Seq(AnyWrites)
           /\ io[e].reading \in Seq(ReadOps)
           /\ sent[e] \in Seq(Messages) /\ qOut[e] \in Seq(Messages) /\ wire[e] \in Seq(AnyUnit)
BY DEF CountInv, Typed, EndOk, ReaderOk, WriterOk, IoTyped, IoRecord

\* The tokens of operations
LEMMA OfTokens ==
    ASSUME NEW ops, ops \subseteq AllOps
    PROVE  /\ Of(ops) \subseteq Tokens /\ NoToken \notin Of(ops)
           /\ \A x : <<"posted", x>> \notin Of(ops)
           /\ \A st \in Stages : \A op : <<st, op>> \in Of(ops) <=> op \in ops
           /\ {SendToken} \subseteq Tokens /\ NoToken # SendToken
BY DEF Of, Tokens, NoToken, Stages, SendToken

\* A token moves at an end.
LEMMA TokenStep ==
    ASSUME CountInv, CountInv', NEW e \in Ends, NEW h, NEW g, Moved(io[e], io'[e], h, g),
           h = NoToken \/ Has(io[e], h)
    PROVE  /\ Reader(e)' = After(Reader(e), Of(ReadChain(e)), h, g)
           /\ Writer(e)' = After(Writer(e), Of(DataOps), h, g)
           /\ h \in Of(ReadChain(e)) => Reader(e) = h
           /\ h \in Of(DataOps) => Writer(e) = h
           /\ Posts(e)' = Posts(e) - Bit(h = SendToken) + Bit(g = SendToken)
<1>1. /\ io[e] \in IoRecord /\ io'[e] \in IoRecord
      /\ Cnt(io[e], Of(ReadChain(e))) <= 1 /\ Cnt(io[e], Of(DataOps)) <= 1
      /\ Cnt(io'[e], Of(ReadChain(e))) <= 1 /\ Cnt(io'[e], Of(DataOps)) <= 1
  <2>1. CountInv' => /\ io'[e] \in IoRecord
                     /\ Cnt(io'[e], Of(ReadChain(e))) <= 1 /\ Cnt(io'[e], Of(DataOps)) <= 1
    BY DEF CountInv, Typed, EndOk, ReaderOk, WriterOk, IoTyped
  <2>. QED  BY <2>1, EndTyped
<1>2. /\ Of(ReadChain(e)) \subseteq Tokens /\ Of(DataOps) \subseteq Tokens
      /\ NoToken \notin Of(ReadChain(e)) /\ NoToken \notin Of(DataOps)
  BY ChainOps, OfTokens
<1>. DEFINE R == Of(ReadChain(e))
            D == Of(DataOps)
            r == io[e]
            q == io'[e]
<1>. HIDE DEF R, D, r, q
<1>3. /\ r \in IoRecord /\ q \in IoRecord /\ Moved(r, q, h, g)
      /\ R \subseteq Tokens /\ Cnt(r, R) <= 1 /\ Cnt(q, R) <= 1 /\ (h \in R => Has(r, h))
      /\ D \subseteq Tokens /\ Cnt(r, D) <= 1 /\ Cnt(q, D) <= 1 /\ (h \in D => Has(r, h))
  BY <1>1, <1>2 DEF R, D, r, q
<1>4. Only(q, R) = After(Only(r, R), R, h, g) /\ (h \in R => Only(r, R) = h)
  BY <1>3, OnlyMoved
<1>5. Only(q, D) = After(Only(r, D), D, h, g) /\ (h \in D => Only(r, D) = h)
  BY <1>3, OnlyMoved
<1>6. Cnt(q, {SendToken}) = Cnt(r, {SendToken}) - Bit(h \in {SendToken}) + Bit(g \in {SendToken})
  <2>1. {SendToken} \in SUBSET Tokens
    BY ChainOps, OfTokens
  <2>. QED  BY <1>3, <2>1 DEF Moved
<1>7. Bit(h \in {SendToken}) = Bit(h = SendToken) /\ Bit(g \in {SendToken}) = Bit(g = SendToken)
  BY DEF Bit
<1>. QED  BY <1>4, <1>5, <1>6, <1>7 DEF Reader, Writer, Posts, R, D, r, q

\* An end that does nothing
LEMMA SameEnd ==
    ASSUME NEW p \in Ends, io'[p] = io[p]
    PROVE  /\ Reader(p)' = Reader(p) /\ Writer(p)' = Writer(p) /\ Posts(p)' = Posts(p)
           /\ sent'[p] = sent[p] => Taken(p)' = Taken(p) /\ (Queued(p) => Queued(p)')
BY DEF Reader, Writer, Posts, Taken, Queued

\* A handler that is not a send runs, and others that are not come.
LEMMA QueueRuns ==
    ASSUME CountInv, CountInv', NEW e \in Ends, io[e].ready # << >>, Head(io[e].ready).handler # "send",
           NEW v \in Seq(Handlers), \A i \in DOMAIN v : v[i].handler # "send",
           io'[e].ready = Tail(io[e].ready) \o v, Posts(e)' = Posts(e), sent'[e] = sent[e], Queued(e)
    PROVE  Queued(e)'
<1>. DEFINE w == io[e].ready
            R == SendRel(sent[e])
            n == Taken(e)
            m == Len(sent[e])
<1>1. w \in Seq(Handlers) /\ w # << >> /\ Chain(w, R, n, m) /\ n \in Nat
  BY EndTyped DEF Queued
<1>2. PICK c : <<n, Head(w), c>> \in R /\ Chain(Tail(w), R, c, m)
  <2>. HIDE DEF w, R, n, m
  <2>. QED  BY <1>1, ChainTail
<1>3. c = n
  BY <1>2 DEF SendRel
<1>4. Chain(v, R, m, m)
  <2>1. m \in Nat /\ \A i \in DOMAIN v : v[i] \in Handlers
    BY EndTyped
  <2>2. \A i \in DOMAIN v : <<m, v[i], m>> \in R
    BY <2>1 DEF SendRel
  <2>. HIDE DEF R, m
  <2>. QED  BY <2>2, ChainIdle
<1>5. Chain(Tail(w) \o v, R, n, m)
  <2>1. Tail(w) \in Seq(Handlers)
    BY <1>1
  <2>. HIDE DEF w, R, n, m
  <2>. QED  BY <1>2, <1>3, <1>4, <2>1, ChainConcat
<1>6. Taken(e)' = n
  BY DEF Taken
<1>. QED  BY <1>1, <1>5, <1>6 DEF Queued

\* A handler that is not a send becomes ready.
LEMMA QueuePosts ==
    ASSUME CountInv, NEW e \in Ends, NEW h \in Handlers, h.handler # "send",
           io'[e].ready = Append(io[e].ready, h), Posts(e)' = Posts(e), sent'[e] = sent[e], Queued(e)
    PROVE  Queued(e)'
<1>. DEFINE w == io[e].ready
            R == SendRel(sent[e])
            n == Taken(e)
            m == Len(sent[e])
<1>1. w \in Seq(Handlers) /\ Chain(w, R, n, m) /\ n \in Nat /\ m \in Nat
  BY EndTyped DEF Queued
<1>2. <<m, h, m>> \in R
  BY <1>1 DEF SendRel
<1>3. Chain(Append(w, h), R, n, m)
  <2>. HIDE DEF w, R, n, m
  <2>. QED  BY <1>1, <1>2, ChainAppend
<1>4. Taken(e)' = n
  BY DEF Taken
<1>. QED  BY <1>1, <1>3, <1>4 DEF Queued

\* The same, when none comes
LEMMA QueueLess ==
    ASSUME CountInv, CountInv', NEW e \in Ends, io[e].ready # << >>, Head(io[e].ready).handler # "send",
           io'[e].ready = Tail(io[e].ready), Posts(e)' = Posts(e), sent'[e] = sent[e], Queued(e)
    PROVE  Queued(e)'
<1>. DEFINE v == << >>
<1>1. Tail(io[e].ready) \in Seq(Handlers)
  BY EndTyped
<1>2. v \in Seq(Handlers) /\ (\A i \in DOMAIN v : v[i].handler # "send")
      /\ io'[e].ready = Tail(io[e].ready) \o v
  BY <1>1
<1>. HIDE DEF v
<1>. QED  BY <1>2, QueueRuns

\* The same, when one comes
LEMMA QueueNext ==
    ASSUME CountInv, CountInv', NEW e \in Ends, io[e].ready # << >>, Head(io[e].ready).handler # "send",
           NEW h \in Handlers, h.handler # "send", io'[e].ready = Append(Tail(io[e].ready), h),
           Posts(e)' = Posts(e), sent'[e] = sent[e], Queued(e)
    PROVE  Queued(e)'
<1>. DEFINE v == <<h>>
<1>1. Tail(io[e].ready) \in Seq(Handlers)
  BY EndTyped
<1>2. v \in Seq(Handlers) /\ (\A i \in DOMAIN v : v[i].handler # "send")
      /\ io'[e].ready = Tail(io[e].ready) \o v
  BY <1>1
<1>. HIDE DEF v
<1>. QED  BY <1>2, QueueRuns

-----------------------------------------------------------------------------
(* The steps of the handlers, once more *)

\* The stage of the handler that is due, and that of an operation that starts
DueStage(e)     == IF ok(e) THEN "ok" ELSE "failed"
Begun(e, stage) == IF io[e].socket = "open" THEN stage ELSE "failed"

\* The peer does nothing.
PeerRests(e) == io'[Peer(e)] = io[Peer(e)]

\* The handler that is due has its token.
LEMMA DueToken ==
    ASSUME CountInv, NEW e \in Ends, NEW h \in AllOps, Due(e, h)
    PROVE  /\ io[e].ready # << >> /\ Head1(e) = <<DueStage(e), h>> /\ DueStage(e) \in Stages
           /\ Has(io[e], <<DueStage(e), h>>) /\ Head(io[e].ready).handler # "send"
           /\ ok(e) \in BOOLEAN
<1>1. io[e] \in IoRecord /\ IoTyped
  BY EndTyped
<1>2. io[e].ready # << >> /\ ok(e) \in BOOLEAN /\ Head1(e) = <<IF ok(e) THEN "ok" ELSE "failed", h>>
  BY <1>1, DueOp
<1>3. Has(io[e], Head1(e))
  <2>1. Head(io[e].ready) = io[e].ready[1] /\ 1 \in DOMAIN io[e].ready
    BY <1>1, <1>2 DEF IoRecord
  <2>. QED  BY <1>1, <2>1, HasTokens DEF Head1
<1>4. Head(io[e].ready).handler # "send"
  BY DEF Due, AllOps, ReadOps, WriteOps, DataOps
<1>. QED  BY <1>2, <1>3, <1>4 DEF DueStage, Stages

\* The handler of h runs, and its token turns into <<st, op>>, or goes.
LEMMA RunsTo ==
    ASSUME CountInv, CountInv', NEW e \in Ends, NEW h \in AllOps, Due(e, h),
           NEW st \in Stages \cup {"none"}, NEW op \in AllOps \cup {"none"}, st = "none" <=> op = "none",
           Moved(io[e], io'[e], <<DueStage(e), h>>, <<st, op>>)
    PROVE  /\ h \in ReadChain(e) => Reader(e) = <<DueStage(e), h>>
           /\ h \in DataOps => Writer(e) = <<DueStage(e), h>>
           /\ Reader(e)' = IF op \in ReadChain(e) THEN <<st, op>>
                           ELSE IF h \in ReadChain(e) THEN NoToken ELSE Reader(e)
           /\ Writer(e)' = IF op \in DataOps THEN <<st, op>>
                           ELSE IF h \in DataOps THEN NoToken ELSE Writer(e)
           /\ Posts(e)' = Posts(e)
<1>. DEFINE t == <<DueStage(e), h>>
            g == <<st, op>>
            R == Of(ReadChain(e))
            D == Of(DataOps)
<1>1. Has(io[e], t) /\ DueStage(e) \in Stages
  BY DueToken
<1>2. /\ t \in R <=> h \in ReadChain(e)
      /\ t \in D <=> h \in DataOps
      /\ g \in R <=> op \in ReadChain(e)
      /\ g \in D <=> op \in DataOps
  <2>1. "none" \notin ReadChain(e) /\ "none" \notin DataOps
    BY DEF ReadChain, ReadOps, DataOps
  <2>. QED  BY <1>1, <2>1 DEF Of, Stages
<1>3. t # SendToken /\ g # SendToken
  BY <1>1 DEF SendToken, Stages
<1>. HIDE DEF t, g, R, D
<1>4. /\ Reader(e)' = After(Reader(e), R, t, g) /\ Writer(e)' = After(Writer(e), D, t, g)
      /\ (t \in R => Reader(e) = t) /\ (t \in D => Writer(e) = t)
      /\ Posts(e)' = Posts(e) - Bit(t = SendToken) + Bit(g = SendToken)
  <2>1. Moved(io[e], io'[e], t, g)
    BY DEF t, g
  <2>. QED  BY <1>1, <2>1, TokenStep DEF R, D
<1>5. Posts(e)' = Posts(e)
  <2>1. Posts(e) \in Nat
    BY EndTyped, CntNat DEF Posts
  <2>. QED  BY <1>3, <1>4, <2>1 DEF Bit
<1>. QED  BY <1>2, <1>4, <1>5 DEF After, t, g

\* A handler of the reader starts a read.
LEMMA DoRead ==
    ASSUME CountInv, CountInv', NEW e \in Ends, NEW h \in ReadChain(e), Due(e, h), NEW op \in ReadOps,
           Continue(e, async_read(rest(e), op)), sent'[e] = sent[e]
    PROVE  /\ PeerRests(e) /\ io'[e].socket = io[e].socket /\ io'[e].writing = io[e].writing
           /\ Reader(e) = <<DueStage(e), h>> /\ Reader(e)' = <<Begun(e, "reading"), op>>
           /\ Writer(e)' = Writer(e) /\ Posts(e)' = Posts(e) /\ (Queued(e) => Queued(e)')
<1>. DEFINE g == Started(io[e], "reading", op)
<1>1. h \in AllOps /\ op \in ReadChain(e) /\ op \in AllOps /\ op \notin DataOps /\ h \notin DataOps
  BY ChainOps
<1>2. io[e].ready # << >> /\ Head1(e) = <<DueStage(e), h>> /\ Head(io[e].ready).handler # "send" /\ IoTyped
  BY <1>1, DueToken, EndTyped
<1>3. g = <<Begun(e, "reading"), op>> /\ Begun(e, "reading") \in Stages
  BY DEF Started, Begun, Stages
<1>4. /\ PeerRests(e) /\ io'[e].socket = io[e].socket /\ io'[e].writing = io[e].writing
      /\ io[e].socket = "open" => io'[e].ready = Tail(io[e].ready)
      /\ io[e].socket # "open" => io'[e].ready = Append(Tail(io[e].ready), Done(op, FALSE))
      /\ \A P : Cnt(io'[e], P) = Cnt(io[e], P) - Bit(Head1(e) \in P) + Bit(g \in P)
  <2>. HIDE DEF g
  <2>. QED  BY <1>2, RunRead DEF PeerRests, g
<1>5. Moved(io[e], io'[e], <<DueStage(e), h>>, <<Begun(e, "reading"), op>>)
  <2>. HIDE DEF g
  <2>. QED  BY <1>2, <1>3, <1>4 DEF Moved
<1>6. /\ Reader(e) = <<DueStage(e), h>> /\ Reader(e)' = <<Begun(e, "reading"), op>>
      /\ Writer(e)' = Writer(e) /\ Posts(e)' = Posts(e)
  <2>1. Begun(e, "reading") # "none" /\ op # "none"
    BY DEF Begun, ReadOps
  <2>. QED  BY <1>1, <1>3, <1>5, <2>1, RunsTo
<1>7. ASSUME Queued(e) PROVE Queued(e)'
  <2>1. CASE io[e].socket = "open"
    <3>1. io'[e].ready = Tail(io[e].ready)
      BY <1>4, <2>1
    <3>. QED  BY <1>2, <1>6, <1>7, <3>1, QueueLess
  <2>2. CASE io[e].socket # "open"
    <3>1. /\ Done(op, FALSE) \in Handlers /\ Done(op, FALSE).handler # "send"
          /\ io'[e].ready = Append(Tail(io[e].ready), Done(op, FALSE))
      BY <1>1, <1>4, <2>2, DoneHandler DEF ReadOps
    <3>. QED  BY <1>2, <1>6, <1>7, <3>1, QueueNext
  <2>. QED  BY <2>1, <2>2
<1>. QED  BY <1>4, <1>6, <1>7

\* A handler starts a write.
LEMMA DoWrite ==
    ASSUME CountInv, CountInv', NEW e \in Ends, NEW h \in AllOps, Due(e, h), NEW op \in WriteOps,
           NEW u \in AnyUnit, Continue(e, async_write(rest(e), op, u)), sent'[e] = sent[e]
    PROVE  /\ PeerRests(e) /\ io'[e].socket = io[e].socket
           /\ io'[e].writing = IF io[e].socket = "open"
                               THEN Append(io[e].writing, [op |-> op, unit |-> u]) ELSE io[e].writing
           /\ h \in ReadChain(e) => Reader(e) = <<DueStage(e), h>>
           /\ h \in DataOps => Writer(e) = <<DueStage(e), h>>
           /\ Reader(e)' = IF op \in ReadChain(e) THEN <<Begun(e, "writing"), op>>
                           ELSE IF h \in ReadChain(e) THEN NoToken ELSE Reader(e)
           /\ Writer(e)' = IF op \in DataOps THEN <<Begun(e, "writing"), op>>
                           ELSE IF h \in DataOps THEN NoToken ELSE Writer(e)
           /\ Posts(e)' = Posts(e) /\ (Queued(e) => Queued(e)')
<1>. DEFINE g == Started(io[e], "writing", op)
<1>1. op \in AllOps /\ op # "none"
  BY DEF WriteOps, DataOps, AllOps
<1>2. io[e].ready # << >> /\ Head1(e) = <<DueStage(e), h>> /\ Head(io[e].ready).handler # "send" /\ IoTyped
  BY DueToken, EndTyped
<1>3. g = <<Begun(e, "writing"), op>> /\ Begun(e, "writing") \in Stages /\ Begun(e, "writing") # "none"
  BY DEF Started, Begun, Stages
<1>4. /\ PeerRests(e) /\ io'[e].socket = io[e].socket
      /\ io[e].socket = "open" => /\ io'[e].writing = Append(io[e].writing, [op |-> op, unit |-> u])
                                  /\ io'[e].ready = Tail(io[e].ready)
      /\ io[e].socket # "open" => /\ io'[e].writing = io[e].writing
                                  /\ io'[e].ready = Append(Tail(io[e].ready), Done(op, FALSE))
      /\ \A P : Cnt(io'[e], P) = Cnt(io[e], P) - Bit(Head1(e) \in P) + Bit(g \in P)
  <2>. HIDE DEF g
  <2>. QED  BY <1>2, RunWrite DEF PeerRests, g
<1>5. Moved(io[e], io'[e], <<DueStage(e), h>>, <<Begun(e, "writing"), op>>)
  <2>. HIDE DEF g
  <2>. QED  BY <1>2, <1>3, <1>4 DEF Moved
<1>6. /\ h \in ReadChain(e) => Reader(e) = <<DueStage(e), h>>
      /\ h \in DataOps => Writer(e) = <<DueStage(e), h>>
      /\ Reader(e)' = IF op \in ReadChain(e) THEN <<Begun(e, "writing"), op>>
                      ELSE IF h \in ReadChain(e) THEN NoToken ELSE Reader(e)
      /\ Writer(e)' = IF op \in DataOps THEN <<Begun(e, "writing"), op>>
                      ELSE IF h \in DataOps THEN NoToken ELSE Writer(e)
      /\ Posts(e)' = Posts(e)
  BY <1>1, <1>3, <1>5, RunsTo
<1>7. ASSUME Queued(e) PROVE Queued(e)'
  <2>1. CASE io[e].socket = "open"
    <3>1. io'[e].ready = Tail(io[e].ready)
      BY <1>4, <2>1
    <3>. QED  BY <1>2, <1>6, <1>7, <3>1, QueueLess
  <2>2. CASE io[e].socket # "open"
    <3>1. /\ Done(op, FALSE) \in Handlers /\ Done(op, FALSE).handler # "send"
          /\ io'[e].ready = Append(Tail(io[e].ready), Done(op, FALSE))
      BY <1>1, <1>4, <2>2, DoneHandler DEF WriteOps, DataOps
    <3>. QED  BY <1>2, <1>6, <1>7, <3>1, QueueNext
  <2>. QED  BY <2>1, <2>2
<1>8. io'[e].writing = IF io[e].socket = "open"
                       THEN Append(io[e].writing, [op |-> op, unit |-> u]) ELSE io[e].writing
  BY <1>4
<1>. QED  BY <1>4, <1>6, <1>7, <1>8

\* The handler of readHeader posts that of readBody.
LEMMA DoNoBody ==
    ASSUME CountInv, CountInv', NEW e \in Ends, Due(e, "readHeader"),
           Continue(e, post(rest(e), Done("readBody", TRUE))), sent'[e] = sent[e]
    PROVE  /\ PeerRests(e) /\ io'[e].socket = io[e].socket /\ io'[e].writing = io[e].writing
           /\ Reader(e) = <<DueStage(e), "readHeader">> /\ Reader(e)' = <<"ok", "readBody">>
           /\ Writer(e)' = Writer(e) /\ Posts(e)' = Posts(e) /\ (Queued(e) => Queued(e)')
<1>. DEFINE d == Done("readBody", TRUE)
<1>1. /\ "readHeader" \in AllOps /\ "readBody" \in AllOps /\ "readHeader" \in ReadChain(e)
      /\ "readBody" \in ReadChain(e) /\ "readHeader" \notin DataOps /\ "readBody" \notin DataOps
  BY ChainOps DEF ReadOps, AllOps, DataOps
<1>2. io[e].ready # << >> /\ Head1(e) = <<DueStage(e), "readHeader">>
      /\ Head(io[e].ready).handler # "send" /\ IoTyped
  BY <1>1, DueToken, EndTyped
<1>3. d \in Handlers /\ d.handler # "send" /\ Token(d) = <<"ok", "readBody">>
  BY <1>1, DoneHandler, DoneToken
<1>. HIDE DEF d
<1>4. /\ PeerRests(e) /\ io'[e].socket = io[e].socket /\ io'[e].writing = io[e].writing
      /\ io'[e].ready = Append(Tail(io[e].ready), d)
      /\ \A P : Cnt(io'[e], P) = Cnt(io[e], P) - Bit(Head1(e) \in P) + Bit(Token(d) \in P)
  BY <1>2, <1>3, RunPosts DEF PeerRests, d
<1>5. Moved(io[e], io'[e], <<DueStage(e), "readHeader">>, <<"ok", "readBody">>)
  BY <1>2, <1>3, <1>4 DEF Moved
<1>6. /\ Reader(e) = <<DueStage(e), "readHeader">> /\ Reader(e)' = <<"ok", "readBody">>
      /\ Writer(e)' = Writer(e) /\ Posts(e)' = Posts(e)
  <2>1. "ok" \in Stages
    BY DEF Stages
  <2>. QED  BY <1>1, <1>5, <2>1, RunsTo
<1>7. ASSUME Queued(e) PROVE Queued(e)'
  BY <1>2, <1>3, <1>4, <1>6, <1>7, QueueNext
<1>. QED  BY <1>4, <1>6, <1>7

\* A handler starts nothing.
LEMMA DoNothing ==
    ASSUME CountInv, CountInv', NEW e \in Ends, NEW h \in AllOps, Due(e, h),
           Continue(e, rest(e)), sent'[e] = sent[e]
    PROVE  /\ PeerRests(e) /\ io'[e].socket = io[e].socket /\ io'[e].writing = io[e].writing
           /\ h \in ReadChain(e) => Reader(e) = <<DueStage(e), h>>
           /\ h \in DataOps => Writer(e) = <<DueStage(e), h>>
           /\ Reader(e)' = IF h \in ReadChain(e) THEN NoToken ELSE Reader(e)
           /\ Writer(e)' = IF h \in DataOps THEN NoToken ELSE Writer(e)
           /\ Posts(e)' = Posts(e) /\ (Queued(e) => Queued(e)')
<1>1. io[e].ready # << >> /\ Head1(e) = <<DueStage(e), h>> /\ Head(io[e].ready).handler # "send" /\ IoTyped
  BY DueToken, EndTyped
<1>2. /\ PeerRests(e) /\ io'[e].socket = io[e].socket /\ io'[e].writing = io[e].writing
      /\ io'[e].ready = Tail(io[e].ready)
      /\ \A P : Cnt(io'[e], P) = Cnt(io[e], P) - Bit(Head1(e) \in P)
  BY <1>1, RunNothing DEF PeerRests
<1>3. Moved(io[e], io'[e], <<DueStage(e), h>>, <<"none", "none">>)
  <2>1. ASSUME NEW P \in SUBSET Tokens
        PROVE  Cnt(io'[e], P) = Cnt(io[e], P) - Bit(Head1(e) \in P) + Bit(NoToken \in P)
    <3>1. NoToken \notin P
      BY DEF NoToken, Tokens, Stages
    <3>2. Bit(NoToken \in P) = 0 /\ Bit(Head1(e) \in P) \in Nat
      BY <3>1 DEF Bit
    <3>3. Cnt(io'[e], P) = Cnt(io[e], P) - Bit(Head1(e) \in P) /\ Cnt(io[e], P) \in Nat
      BY <1>2, EndTyped, CntNat
    <3>. QED  BY <3>2, <3>3
  <2>. QED  BY <1>1, <2>1 DEF Moved, NoToken
<1>4. /\ h \in ReadChain(e) => Reader(e) = <<DueStage(e), h>>
      /\ h \in DataOps => Writer(e) = <<DueStage(e), h>>
      /\ Reader(e)' = IF h \in ReadChain(e) THEN NoToken ELSE Reader(e)
      /\ Writer(e)' = IF h \in DataOps THEN NoToken ELSE Writer(e)
      /\ Posts(e)' = Posts(e)
  <2>1. "none" \notin ReadChain(e) /\ "none" \notin DataOps
    BY DEF ReadChain, ReadOps, DataOps
  <2>. QED  BY <1>3, <2>1, RunsTo
<1>5. ASSUME Queued(e) PROVE Queued(e)'
  BY <1>1, <1>2, <1>4, <1>5, QueueLess
<1>. QED  BY <1>2, <1>4, <1>5

\* The handlers of what was aborted are no sends.
LEMMA AbortedAreDone ==
    ASSUME NEW r \in IoRecord
    PROVE  LET v == AbortedReads(r) \o AbortedWrites(r)
           IN  v \in Seq(Handlers) /\ \A i \in DOMAIN v : v[i].handler # "send"
<1>. DEFINE a == AbortedReads(r)
            b == AbortedWrites(r)
<1>1. a \in Seq(Handlers) /\ b \in Seq(Handlers)
  BY CloseFields
<1>2. \A i \in DOMAIN a : a[i].handler # "send"
  BY DEF AbortedReads, Done, IoRecord, ReadOps
<1>3. \A i \in DOMAIN b : b[i].handler # "send"
  <2>1. ASSUME NEW i \in DOMAIN b PROVE b[i].handler # "send"
    <3>1. r.writing \in Seq(AnyWrites) /\ i \in DOMAIN r.writing /\ b[i] = Done(r.writing[i].op, FALSE)
      BY DEF AbortedWrites, IoRecord
    <3>2. r.writing[i] \in AnyWrites
      BY <3>1
    <3>3. r.writing[i].op # "send"
      BY <3>2 DEF AnyWrites, WriteOps, DataOps
    <3>. QED  BY <3>1, <3>3 DEF Done
  <2>. QED  BY <2>1
<1>. HIDE DEF a, b
<1>4. a \o b \in Seq(Handlers) /\ DOMAIN (a \o b) = 1 .. Len(a) + Len(b)
      /\ \A i \in 1 .. Len(a) + Len(b) : (a \o b)[i] = IF i <= Len(a) THEN a[i] ELSE b[i - Len(a)]
  BY <1>1
<1>5. ASSUME NEW i \in 1 .. Len(a) + Len(b) PROVE (a \o b)[i].handler # "send"
  <2>1. CASE i <= Len(a)
    BY <1>1, <1>2, <1>4, <2>1
  <2>2. CASE ~(i <= Len(a))
    <3>1. i - Len(a) \in DOMAIN b
      BY <1>1, <2>2
    <3>. QED  BY <1>3, <1>4, <2>2, <3>1
  <2>. QED  BY <2>1, <2>2
<1>. QED  BY <1>4, <1>5 DEF a, b

\* A handler closes the socket.
LEMMA DoClose ==
    ASSUME CountInv, CountInv', NEW e \in Ends, NEW h \in AllOps \cup {"close"}, Due(e, h),
           Continue(e, close(rest(e))), sent'[e] = sent[e]
    PROVE  /\ PeerRests(e) /\ io'[e].socket = "closed" /\ io'[e].writing = << >>
           /\ Reader(e)' = IF h \in ReadChain(e) THEN NoToken ELSE Aborted(Reader(e))
           /\ Writer(e)' = IF h \in DataOps THEN NoToken ELSE Aborted(Writer(e))
           /\ Posts(e)' = Posts(e) /\ (Queued(e) => Queued(e)')
<1>. DEFINE t == Head1(e)
            R == Of(ReadChain(e))
            D == Of(DataOps)
            r == io[e]
            q == io'[e]
<1>1. io[e].ready # << >> /\ Head(io[e].ready).handler # "send" /\ IoTyped /\ Has(r, t)
      /\ (t \in R <=> h \in ReadChain(e)) /\ (t \in D <=> h \in DataOps) /\ t # SendToken
  <2>1. CASE h \in AllOps
    <3>1. /\ io[e].ready # << >> /\ t = <<DueStage(e), h>> /\ DueStage(e) \in Stages /\ Has(r, <<DueStage(e), h>>)
          /\ Head(io[e].ready).handler # "send" /\ IoTyped
      BY <2>1, DueToken, EndTyped
    <3>2. SendToken # <<DueStage(e), h>>
      BY <3>1 DEF Stages, SendToken
    <3>. HIDE DEF t, r
    <3>. QED  BY <3>1, <3>2 DEF Of
  <2>2. CASE h = "close"
    <3>1. io[e].ready # << >> /\ Head(io[e].ready).handler = "close" /\ IoTyped /\ r \in IoRecord
      BY <2>2, EndTyped DEF Due
    <3>2. t = <<"posted", "close">>
      BY <2>2, <3>1, DuePosted
    <3>3. Has(r, t)
      <4>1. Head(io[e].ready) = io[e].ready[1] /\ 1 \in DOMAIN io[e].ready
        BY <3>1 DEF IoRecord
      <4>. QED  BY <3>1, <4>1, HasTokens DEF Head1
    <3>4. "close" \notin ReadChain(e) /\ "close" \notin DataOps
      BY DEF ReadChain, ReadOps, DataOps
    <3>5. <<"posted", "close">> \notin R /\ <<"posted", "close">> \notin D /\ <<"posted", "close">> # SendToken
      BY DEF Of, Stages, SendToken
    <3>. HIDE DEF t, r, R, D
    <3>. QED  BY <2>2, <3>1, <3>2, <3>3, <3>4, <3>5
  <2>. QED  BY <2>1, <2>2
<1>2. /\ PeerRests(e) /\ io'[e].socket = "closed" /\ io'[e].writing = << >> /\ IoTyped'
      /\ io'[e].ready = Tail(io[e].ready) \o AbortedReads(io[e]) \o AbortedWrites(io[e])
      /\ \A P : Cnt(q, P) = Cnt(r, ClosedInto(P)) - Bit(t \in P)
  BY <1>1, RunCloses DEF PeerRests
<1>3. /\ r \in IoRecord /\ q \in IoRecord /\ Cnt(r, R) <= 1 /\ Cnt(r, D) <= 1 /\ Cnt(q, R) <= 1 /\ Cnt(q, D) <= 1
  <2>1. CountInv' => q \in IoRecord /\ Cnt(q, R) <= 1 /\ Cnt(q, D) <= 1
    BY DEF CountInv, Typed, EndOk, ReaderOk, WriterOk, IoTyped
  <2>. QED  BY <2>1, EndTyped
<1>4. Only(q, R) = IF t \in R THEN NoToken ELSE Aborted(Only(r, R))
  <2>1. ReadChain(e) \subseteq AllOps
    BY ChainOps
  <2>. HIDE DEF t, r, q
  <2>. QED  BY <1>1, <1>2, <1>3, <2>1, OnlyAborted
<1>5. Only(q, D) = IF t \in D THEN NoToken ELSE Aborted(Only(r, D))
  <2>1. DataOps \subseteq AllOps
    BY ChainOps
  <2>. HIDE DEF t, r, q
  <2>. QED  BY <1>1, <1>2, <1>3, <2>1, OnlyAborted
<1>6. Posts(e)' = Posts(e)
  <2>1. ClosedInto({SendToken}) = {SendToken}
    BY DEF ClosedInto, Tokens, Stages, Aborted, SendToken
  <2>2. Bit(t \in {SendToken}) = 0
    <3>. HIDE DEF t
    <3>. QED  BY <1>1 DEF Bit
  <2>3. Cnt(q, {SendToken}) = Cnt(r, ClosedInto({SendToken})) - Bit(t \in {SendToken})
    BY <1>2
  <2>4. Cnt(r, {SendToken}) \in Nat
    BY <1>3, CntNat
  <2>. HIDE DEF t, r, q
  <2>. QED  BY <2>1, <2>2, <2>3, <2>4 DEF Posts, r, q
<1>7. ASSUME Queued(e) PROVE Queued(e)'
  <2>. DEFINE v == AbortedReads(io[e]) \o AbortedWrites(io[e])
  <2>1. v \in Seq(Handlers) /\ \A i \in DOMAIN v : v[i].handler # "send"
    BY <1>3, AbortedAreDone
  <2>2. io'[e].ready = Tail(io[e].ready) \o v
    <3>1. Tail(io[e].ready) \in Seq(Handlers) /\ AbortedReads(io[e]) \in Seq(Handlers)
          /\ AbortedWrites(io[e]) \in Seq(Handlers)
      BY <1>1, <1>3, EndTyped, CloseFields
    <3>. DEFINE x == Tail(io[e].ready)
                y == AbortedReads(io[e])
                z == AbortedWrites(io[e])
    <3>2. x \in Seq(Handlers) /\ y \in Seq(Handlers) /\ z \in Seq(Handlers) /\ io'[e].ready = x \o y \o z
      BY <1>2, <3>1
    <3>. HIDE DEF x, y, z
    <3>3. (x \o y) \o z = x \o (y \o z)
      BY <3>2, ConcatAssociative
    <3>. QED  BY <3>2, <3>3 DEF x, y, z
  <2>. HIDE DEF v
  <2>. QED  BY <1>1, <1>6, <1>7, <2>1, <2>2, QueueRuns
<1>. QED  BY <1>1, <1>2, <1>4, <1>5, <1>6, <1>7 DEF Reader, Writer, R, D, r, q

\* The handler that send() has posted: it takes the next message, and starts to write it
\* when no other is in m_qMessagesOut.
LEMMA DoSend ==
    ASSUME CountInv, CountInv', NEW e \in Ends, RunSend(e), Queued(e)
    PROVE  LET m == sent[e][Taken(e) + 1]
           IN  /\ PeerRests(e) /\ io'[e].socket = io[e].socket
               /\ m \in Messages /\ Taken(e) + 1 <= Len(sent[e])
               /\ qOut' = [qOut EXCEPT ![e] = Append(@, m)]
               /\ Taken(e)' = Taken(e) + 1 /\ Queued(e)'
               /\ Reader(e)' = Reader(e)
               /\ qOut[e] = << >> =>
                     /\ Writer(e)' = <<Begun(e, "writing"), "writeHeader">>
                     /\ io'[e].writing = IF io[e].socket = "open"
                                         THEN Append(io[e].writing, [op |-> "writeHeader", unit |-> Header(m)])
                                         ELSE io[e].writing
               /\ qOut[e] # << >> => Writer(e)' = Writer(e) /\ io'[e].writing = io[e].writing
<1>. DEFINE m == Head(io[e].ready).msg
            w == io[e].ready
            R == SendRel(sent[e])
            n == Taken(e)
            l == Len(sent[e])
            st == Begun(e, "writing")
            d == Done("writeHeader", FALSE)
<1>1. /\ io[e].ready # << >> /\ Head1(e) = SendToken /\ m \in Messages /\ Head(io[e].ready) \in Handlers
      /\ Head(io[e].ready).handler = "send" /\ IoTyped /\ sent' = sent
      /\ qOut' = [qOut EXCEPT ![e] = Append(@, m)]
      /\ w \in Seq(Handlers) /\ w # << >> /\ n \in Nat /\ l \in Nat /\ Chain(w, R, n, l)
      /\ qOut[e] \in Seq(Messages)
  BY DuePosted, EndTyped DEF RunSend, Due, SendToken, Queued
<1>2. Has(io[e], SendToken)
  <2>1. w[1] = Head(w) /\ 1 \in DOMAIN w /\ io[e] \in IoRecord
    BY <1>1, EndTyped
  <2>. QED  BY <1>1, <2>1, HasTokens DEF Head1
<1>3. PICK c : <<n, Head(w), c>> \in R /\ Chain(Tail(w), R, c, l)
  <2>. HIDE DEF w, R, n, l
  <2>. QED  BY <1>1, ChainTail
<1>4. c = n + 1 /\ n + 1 <= l /\ m = sent[e][n + 1]
  BY <1>1, <1>3 DEF SendRel
<1>5. Tail(w) \in Seq(Handlers) /\ d \in Handlers /\ d.handler # "send"
  <2>1. "writeHeader" \in AllOps /\ FALSE \in BOOLEAN
    BY DEF AllOps, WriteOps, DataOps
  <2>2. d \in Handlers /\ d.handler = "writeHeader"
    BY <2>1, DoneHandler
  <2>. HIDE DEF d
  <2>. QED  BY <1>1, <2>2
<1>6. Chain(Append(Tail(w), d), R, n + 1, l)
  <2>1. <<l, d, l>> \in R
    BY <1>1, <1>5 DEF SendRel
  <2>. HIDE DEF w, R, n, l, d
  <2>. QED  BY <1>3, <1>4, <1>5, <2>1, ChainAppend
<1>7. ASSUME Posts(e)' = Posts(e) - 1 PROVE Taken(e)' = n + 1
  <2>1. Posts(e) \in Nat
    BY EndTyped, CntNat DEF Posts
  <2>. QED  BY <1>1, <1>7, <2>1 DEF Taken
<1>8. CASE qOut[e] = << >>
  <2>. DEFINE g == Started(io[e], "writing", "writeHeader")
  <2>1. Continue(e, async_write(rest(e), "writeHeader", Header(m)))
    BY <1>8 DEF RunSend
  <2>2. g = <<st, "writeHeader">> /\ st \in Stages /\ st # "none"
    BY DEF Started, Begun, Stages
  <2>3. Header(m) \in AnyUnit /\ "writeHeader" \in WriteOps
    BY <1>1, MessageUnits DEF WriteOps, DataOps
  <2>4. /\ PeerRests(e) /\ io'[e].socket = io[e].socket
        /\ io[e].socket = "open" => /\ io'[e].writing = Append(io[e].writing, [op |-> "writeHeader", unit |-> Header(m)])
                                    /\ io'[e].ready = Tail(io[e].ready)
        /\ io[e].socket # "open" => /\ io'[e].writing = io[e].writing
                                    /\ io'[e].ready = Append(Tail(io[e].ready), d)
        /\ \A P : Cnt(io'[e], P) = Cnt(io[e], P) - Bit(Head1(e) \in P) + Bit(g \in P)
    <3>. HIDE DEF g, m
    <3>. QED  BY <1>1, <2>1, <2>3, RunWrite DEF PeerRests, g
  <2>5. Moved(io[e], io'[e], SendToken, g)
    <3>. HIDE DEF g
    <3>. QED  BY <1>1, <2>4 DEF Moved
  <2>6. /\ SendToken \notin Of(ReadChain(e)) /\ SendToken \notin Of(DataOps)
        /\ g \in Of(DataOps) /\ g \notin Of(ReadChain(e)) /\ g # SendToken
    <3>1. "writeHeader" \in DataOps /\ "writeHeader" \notin ReadChain(e)
      BY ChainOps DEF DataOps
    <3>. QED  BY <2>2, <3>1 DEF Of, Stages, SendToken
  <2>. HIDE DEF g
  <2>7. /\ Reader(e)' = After(Reader(e), Of(ReadChain(e)), SendToken, g)
        /\ Writer(e)' = After(Writer(e), Of(DataOps), SendToken, g)
        /\ Posts(e)' = Posts(e) - Bit(SendToken = SendToken) + Bit(g = SendToken)
    BY <1>2, <2>5, TokenStep
  <2>8. Reader(e)' = Reader(e) /\ Writer(e)' = <<st, "writeHeader">>
    BY <2>2, <2>6, <2>7 DEF After
  <2>9. Taken(e)' = n + 1
    <3>1. Posts(e) \in Nat
      BY EndTyped, CntNat DEF Posts
    <3>2. Posts(e)' = Posts(e) - 1
      BY <2>6, <2>7, <3>1 DEF Bit
    <3>. QED  BY <1>7, <3>2
  <2>10. Queued(e)'
    <3>1. Chain(io'[e].ready, R, n + 1, l)
      BY <1>3, <1>4, <1>6, <2>4
    <3>. QED  BY <1>1, <2>9, <3>1 DEF Queued
  <2>. QED  BY <1>1, <1>4, <1>8, <2>4, <2>8, <2>9, <2>10
<1>9. CASE qOut[e] # << >>
  <2>1. Continue(e, rest(e))
    BY <1>9 DEF RunSend
  <2>2. /\ PeerRests(e) /\ io'[e].socket = io[e].socket /\ io'[e].writing = io[e].writing
        /\ io'[e].ready = Tail(io[e].ready)
        /\ \A P : Cnt(io'[e], P) = Cnt(io[e], P) - Bit(Head1(e) \in P)
    BY <1>1, <2>1, RunNothing DEF PeerRests
  <2>3. Moved(io[e], io'[e], SendToken, NoToken)
    <3>1. ASSUME NEW P \in SUBSET Tokens
          PROVE  Cnt(io'[e], P) = Cnt(io[e], P) - Bit(SendToken \in P) + Bit(NoToken \in P)
      <4>1. NoToken \notin P
        BY DEF NoToken, Tokens, Stages
      <4>2. Bit(NoToken \in P) = 0 /\ Bit(SendToken \in P) \in Nat
        BY <4>1 DEF Bit
      <4>3. Cnt(io'[e], P) = Cnt(io[e], P) - Bit(SendToken \in P) /\ Cnt(io[e], P) \in Nat
        BY <1>1, <2>2, EndTyped, CntNat
      <4>. QED  BY <4>2, <4>3
    <3>. QED  BY <3>1 DEF Moved
  <2>4. /\ SendToken \notin Of(ReadChain(e)) /\ SendToken \notin Of(DataOps)
        /\ NoToken \notin Of(ReadChain(e)) /\ NoToken \notin Of(DataOps) /\ NoToken # SendToken
    BY DEF Of, Stages, SendToken, NoToken
  <2>5. /\ Reader(e)' = After(Reader(e), Of(ReadChain(e)), SendToken, NoToken)
        /\ Writer(e)' = After(Writer(e), Of(DataOps), SendToken, NoToken)
        /\ Posts(e)' = Posts(e) - Bit(SendToken = SendToken) + Bit(NoToken = SendToken)
    BY <1>2, <2>3, TokenStep
  <2>6. Reader(e)' = Reader(e) /\ Writer(e)' = Writer(e)
    BY <2>4, <2>5 DEF After
  <2>7. Taken(e)' = n + 1
    <3>1. Posts(e) \in Nat
      BY EndTyped, CntNat DEF Posts
    <3>2. Posts(e)' = Posts(e) - 1
      BY <2>4, <2>5, <3>1 DEF Bit
    <3>. QED  BY <1>7, <3>2
  <2>8. Queued(e)'
    <3>1. Chain(io'[e].ready, R, n + 1, l)
      BY <1>3, <1>4, <2>2
    <3>. QED  BY <1>1, <2>7, <3>1 DEF Queued
  <2>. QED  BY <1>1, <1>4, <1>9, <2>2, <2>6, <2>7, <2>8
<1>. QED  BY <1>8, <1>9

\* A thread posts a handler.
LEMMA DoPost ==
    ASSUME CountInv, CountInv', NEW e \in Ends, NEW h \in Handlers, h.handler \in {"send", "close"},
           io' = [io EXCEPT ![e] = post(@, h)]
    PROVE  /\ PeerRests(e) /\ io'[e].socket = io[e].socket /\ io'[e].writing = io[e].writing
           /\ Reader(e)' = Reader(e) /\ Writer(e)' = Writer(e)
           /\ Posts(e)' = Posts(e) + (IF h.handler = "send" THEN 1 ELSE 0)
           /\ io'[e].ready = Append(io[e].ready, h)
<1>. DEFINE g == Token(h)
<1>1. g = <<"posted", h.handler>>
  BY DEF Token, Stage
<1>2. IoTyped /\ io[e] \in IoRecord
  BY EndTyped
<1>. HIDE DEF g
<1>3. /\ PeerRests(e) /\ io'[e].socket = io[e].socket /\ io'[e].writing = io[e].writing
      /\ io'[e].ready = Append(io[e].ready, h)
      /\ \A P : Cnt(io'[e], P) = Cnt(io[e], P) + Bit(g \in P)
  BY <1>2, Posted DEF PeerRests, g
<1>4. Moved(io[e], io'[e], NoToken, g)
  <2>1. ASSUME NEW P \in SUBSET Tokens
        PROVE  Cnt(io'[e], P) = Cnt(io[e], P) - Bit(NoToken \in P) + Bit(g \in P)
    <3>1. NoToken \notin P
      BY DEF NoToken, Tokens, Stages
    <3>2. Bit(NoToken \in P) = 0 /\ Bit(g \in P) \in Nat
      BY <3>1 DEF Bit
    <3>3. Cnt(io'[e], P) = Cnt(io[e], P) + Bit(g \in P) /\ Cnt(io[e], P) \in Nat
      BY <1>2, <1>3, CntNat
    <3>. QED  BY <3>2, <3>3
  <2>. QED  BY <2>1 DEF Moved
<1>5. /\ g \notin Of(ReadChain(e)) /\ g \notin Of(DataOps) /\ (g = SendToken <=> h.handler = "send")
      /\ NoToken \notin Of(ReadChain(e)) /\ NoToken \notin Of(DataOps) /\ NoToken # SendToken
  BY <1>1 DEF Of, Stages, SendToken, NoToken
<1>6. /\ Reader(e)' = After(Reader(e), Of(ReadChain(e)), NoToken, g)
      /\ Writer(e)' = After(Writer(e), Of(DataOps), NoToken, g)
      /\ Posts(e)' = Posts(e) - Bit(NoToken = SendToken) + Bit(g = SendToken)
  BY <1>4, TokenStep
<1>7. Reader(e)' = Reader(e) /\ Writer(e)' = Writer(e)
  BY <1>5, <1>6 DEF After
<1>8. Posts(e)' = Posts(e) + (IF h.handler = "send" THEN 1 ELSE 0)
  <2>1. Posts(e) \in Nat
    BY EndTyped, CntNat DEF Posts
  <2>. QED  BY <1>5, <1>6, <2>1 DEF Bit
<1>. QED  BY <1>3, <1>7, <1>8

\* An operation of asio completes: <<from, op>> turns into the token of its handler.
LEMMA Completes ==
    ASSUME CountInv, CountInv', NEW e \in Ends, NEW from \in {"reading", "writing"}, NEW op \in AllOps,
           NEW s \in BOOLEAN, Has(io[e], <<from, op>>), sent'[e] = sent[e],
           io'[e].ready = Append(io[e].ready, Done(op, s)),
           \A P : Cnt(io'[e], P) = Cnt(io[e], P) - Bit(<<from, op>> \in P)
                                     + Bit(<<IF s THEN "ok" ELSE "failed", op>> \in P)
    PROVE  /\ op \in ReadChain(e) => Reader(e) = <<from, op>>
           /\ op \in DataOps => Writer(e) = <<from, op>>
           /\ Reader(e)' = IF op \in ReadChain(e) THEN <<IF s THEN "ok" ELSE "failed", op>> ELSE Reader(e)
           /\ Writer(e)' = IF op \in DataOps THEN <<IF s THEN "ok" ELSE "failed", op>> ELSE Writer(e)
           /\ Posts(e)' = Posts(e) /\ (Queued(e) => Queued(e)')
<1>. DEFINE t == <<from, op>>
            g == <<IF s THEN "ok" ELSE "failed", op>>
            R == Of(ReadChain(e))
            D == Of(DataOps)
<1>1. Moved(io[e], io'[e], t, g)
  BY DEF Moved
<1>2. /\ t \in R <=> op \in ReadChain(e)
      /\ t \in D <=> op \in DataOps
      /\ g \in R <=> op \in ReadChain(e)
      /\ g \in D <=> op \in DataOps
      /\ t # SendToken /\ g # SendToken
  BY DEF Of, Stages, SendToken
<1>3. Has(io[e], t)
  OBVIOUS
<1>. HIDE DEF t, g, R, D
<1>4. /\ Reader(e)' = After(Reader(e), R, t, g) /\ Writer(e)' = After(Writer(e), D, t, g)
      /\ (t \in R => Reader(e) = t) /\ (t \in D => Writer(e) = t)
      /\ Posts(e)' = Posts(e) - Bit(t = SendToken) + Bit(g = SendToken)
  BY <1>1, <1>3, TokenStep DEF R, D
<1>5. Posts(e)' = Posts(e)
  <2>1. Posts(e) \in Nat
    BY EndTyped, CntNat DEF Posts
  <2>. QED  BY <1>2, <1>4, <2>1 DEF Bit
<1>6. ASSUME Queued(e) PROVE Queued(e)'
  <2>1. Done(op, s) \in Handlers /\ Done(op, s).handler # "send"
    <3>1. Done(op, s) \in Handlers /\ Done(op, s).handler = op
      BY DoneHandler
    <3>. QED  BY <3>1 DEF AllOps, ReadOps, WriteOps, DataOps
  <2>. QED  BY <1>5, <1>6, <2>1, QueuePosts
<1>. QED  BY <1>2, <1>4, <1>5, <1>6 DEF After, t, g

\* The oldest write completes.
LEMMA WriteDone ==
    ASSUME CountInv, CountInv', NEW e \in Ends, io[e].writing # << >>, NEW s \in BOOLEAN,
           CompleteWrite(e, s), sent'[e] = sent[e]
    PROVE  LET op == Head(io[e].writing).op
           IN  /\ PeerRests(e) /\ io[e].socket = "open" /\ io'[e].socket = "open"
               /\ io'[e].writing = Tail(io[e].writing) /\ op \in WriteOps \cup {"connect"}
               /\ op \in ReadChain(e) => Reader(e) = <<"writing", op>>
               /\ op \in DataOps => Writer(e) = <<"writing", op>>
               /\ Reader(e)' = IF op \in ReadChain(e) THEN <<IF s THEN "ok" ELSE "failed", op>> ELSE Reader(e)
               /\ Writer(e)' = IF op \in DataOps THEN <<IF s THEN "ok" ELSE "failed", op>> ELSE Writer(e)
               /\ Posts(e)' = Posts(e) /\ (Queued(e) => Queued(e)')
<1>. DEFINE op == Head(io[e].writing).op
<1>1. IoTyped /\ io[e] \in IoRecord /\ io[e].writing \in Seq(AnyWrites) /\ SocketOk(e)
  BY EndTyped DEF EndOk
<1>2. io[e].socket = "open"
  BY <1>1, OpenSocket
<1>3. Has(io[e], <<"writing", op>>) /\ op \in WriteOps \cup {"connect"}
  <2>1. Head(io[e].writing) = io[e].writing[1] /\ 1 \in DOMAIN io[e].writing
        /\ Head(io[e].writing) \in AnyWrites
    BY <1>1
  <2>. QED  BY <1>1, <2>1, HasTokens DEF AnyWrites
<1>4. /\ PeerRests(e) /\ io'[e].socket = io[e].socket /\ op \in AllOps
      /\ io'[e].writing = Tail(io[e].writing) /\ io'[e].ready = Append(io[e].ready, Done(op, s))
      /\ \A P : Cnt(io'[e], P) = Cnt(io[e], P) - Bit(<<"writing", op>> \in P)
                                    + Bit(<<IF s THEN "ok" ELSE "failed", op>> \in P)
  BY <1>1, WriteCompletes DEF PeerRests
<1>. HIDE DEF op
<1>5. /\ op \in ReadChain(e) => Reader(e) = <<"writing", op>>
      /\ op \in DataOps => Writer(e) = <<"writing", op>>
      /\ Reader(e)' = IF op \in ReadChain(e) THEN <<IF s THEN "ok" ELSE "failed", op>> ELSE Reader(e)
      /\ Writer(e)' = IF op \in DataOps THEN <<IF s THEN "ok" ELSE "failed", op>> ELSE Writer(e)
      /\ Posts(e)' = Posts(e) /\ (Queued(e) => Queued(e)')
  BY <1>3, <1>4, Completes
<1>. QED  BY <1>2, <1>3, <1>4, <1>5 DEF op

\* The oldest read completes.
LEMMA ReadDone ==
    ASSUME CountInv, CountInv', NEW e \in Ends, io[e].reading # << >>, NEW s \in BOOLEAN,
           CompleteRead(e, s), sent'[e] = sent[e]
    PROVE  LET op == Head(io[e].reading)
           IN  /\ PeerRests(e) /\ io[e].socket = "open" /\ io'[e].socket = "open"
               /\ io'[e].writing = io[e].writing /\ op \in ReadOps
               /\ Reader(e) = <<"reading", op>> /\ Reader(e)' = <<IF s THEN "ok" ELSE "failed", op>>
               /\ Writer(e)' = Writer(e) /\ Posts(e)' = Posts(e) /\ (Queued(e) => Queued(e)')
<1>. DEFINE op == Head(io[e].reading)
<1>1. IoTyped /\ io[e] \in IoRecord /\ io[e].reading \in Seq(ReadOps) /\ SocketOk(e)
  BY EndTyped DEF EndOk
<1>2. io[e].socket = "open"
  BY <1>1, OpenSocket
<1>3. Has(io[e], <<"reading", op>>) /\ op \in ReadOps
  <2>1. Head(io[e].reading) = io[e].reading[1] /\ 1 \in DOMAIN io[e].reading
        /\ Head(io[e].reading) \in ReadOps
    BY <1>1
  <2>. QED  BY <1>1, <2>1, HasTokens
<1>4. /\ PeerRests(e) /\ io'[e].socket = io[e].socket
      /\ io'[e].writing = io[e].writing /\ io'[e].ready = Append(io[e].ready, Done(op, s))
      /\ \A P : Cnt(io'[e], P) = Cnt(io[e], P) - Bit(<<"reading", op>> \in P)
                                    + Bit(<<IF s THEN "ok" ELSE "failed", op>> \in P)
  BY <1>1, ReadCompletes DEF PeerRests
<1>5. op \in AllOps /\ op \in ReadChain(e) /\ op \notin DataOps
  BY <1>3, ChainOps DEF AllOps
<1>. HIDE DEF op
<1>6. /\ op \in ReadChain(e) => Reader(e) = <<"reading", op>>
      /\ Reader(e)' = IF op \in ReadChain(e) THEN <<IF s THEN "ok" ELSE "failed", op>> ELSE Reader(e)
      /\ Writer(e)' = IF op \in DataOps THEN <<IF s THEN "ok" ELSE "failed", op>> ELSE Writer(e)
      /\ Posts(e)' = Posts(e) /\ (Queued(e) => Queued(e)')
  BY <1>3, <1>4, <1>5, Completes
<1>. QED  BY <1>2, <1>3, <1>4, <1>5, <1>6 DEF op

\* The server's end when it has accepted
LEMMA AcceptDone ==
    ASSUME CountInv, Accept
    PROVE  LET s == "server"
           IN  /\ PeerRests(s) /\ io[s].socket = "none" /\ io[s].writing = << >> /\ qOut[s] = << >>
               /\ Reader(s) = NoToken /\ Writer(s) = NoToken /\ Writer(s)' = NoToken
               /\ Posts(s)' = Posts(s) /\ (Queued(s) => Queued(s)')
               /\ \/ /\ io'[s].socket = "open" /\ Reader(s)' = <<"reading", "readValidation">>
                     /\ io'[s].writing = <<[op |-> "writeValidation", unit |-> Handshake(Challenge)]>>
                  \/ /\ io'[s].socket = "closed" /\ Reader(s)' = NoToken /\ io'[s].writing = << >>
<1>. DEFINE s == "server"
            R == Of(ReadChain(s))
            D == Of(DataOps)
<1>1. IoTyped /\ SocketOk(s) /\ io[s] \in IoRecord /\ s \in Ends
  BY EndTyped DEF EndOk, Ends
<1>2. /\ io'["client"] = io["client"] /\ io'[s] \in {Welcomed, TurnedAway} /\ IoTyped'
      /\ io[s].reading = << >> /\ io[s].writing = << >> /\ io[s].ready = << >>
  BY <1>1, Accepts
<1>3. io[s].socket = "none" /\ qOut[s] = << >>
  BY <1>1 DEF Accept, SocketOk
<1>4. \A P : Cnt(io[s], P) = 0
  BY <1>1, <1>2, CntZero
<1>5. Reader(s) = NoToken /\ Writer(s) = NoToken
  BY <1>4 DEF Reader, Writer, Only
<1>6. Writer(s)' = NoToken /\ Posts(s)' = 0 /\ io'[s].ready = << >>
      /\ (io'[s] = TurnedAway => Reader(s)' = NoToken)
  <2>1. /\ <<"reading", "readValidation">> \notin D /\ <<"writing", "writeValidation">> \notin D
        /\ <<"reading", "readValidation">> \notin {SendToken}
        /\ <<"writing", "writeValidation">> \notin {SendToken}
    BY DEF Of, DataOps, SendToken
  <2>. HIDE DEF D
  <2>2. Cnt(Welcomed, D) = 0 /\ Cnt(TurnedAway, D) = 0
    BY <2>1, WelcomedTokens, BitIn
  <2>3. Cnt(Welcomed, {SendToken}) = 0 /\ Cnt(TurnedAway, {SendToken}) = 0
    BY <2>1, WelcomedTokens, BitIn
  <2>4. Cnt(TurnedAway, R) = 0
    BY WelcomedTokens
  <2>5. Welcomed.ready = << >> /\ TurnedAway.ready = << >>
    BY DEF Welcomed, TurnedAway
  <2>. HIDE DEF s, R
  <2>. QED  BY <1>2, <2>2, <2>3, <2>4, <2>5 DEF Writer, Reader, Only, Posts, D, R
<1>7. io'[s] = Welcomed => Reader(s)' = <<"reading", "readValidation">>
  <2>. DEFINE t == <<"reading", "readValidation">>
  <2>1. /\ t \in R /\ <<"writing", "writeValidation">> \notin R
        /\ t \in {t} /\ <<"writing", "writeValidation">> \notin {t}
    BY <1>1, ChainOps DEF Of, Stages, ReadOps
  <2>. HIDE DEF t, R
  <2>2. Cnt(Welcomed, R) = 1
    BY <2>1, WelcomedTokens, BitIn DEF t
  <2>3. Cnt(Welcomed, {t}) = 1
    BY <2>1, WelcomedTokens, BitIn DEF t
  <2>4. ASSUME io'[s] = Welcomed PROVE Only(io'[s], R) = t
    <3>1. io'[s] \in IoRecord
      BY <1>1, <1>2 DEF IoTyped
    <3>2. Cnt(io'[s], R) <= 1 /\ Has(io'[s], t)
      BY <2>2, <2>3, <2>4 DEF Has
    <3>. HIDE DEF s
    <3>. QED  BY <2>1, <3>1, <3>2, OnlyIs
  <2>. QED  BY <2>4 DEF Reader, R, t
<1>8. /\ Welcomed.socket = "open" /\ TurnedAway.socket = "closed" /\ TurnedAway.writing = << >>
      /\ Welcomed.writing = <<[op |-> "writeValidation", unit |-> Handshake(Challenge)]>>
  BY DEF Welcomed, TurnedAway
<1>9. Posts(s) = 0 /\ (Queued(s) => Queued(s)')
  <2>1. Posts(s) = 0
    BY <1>4 DEF Posts
  <2>2. sent' = sent
    BY DEF Accept
  <2>3. Taken(s)' = Taken(s)
    BY <1>6, <2>1, <2>2 DEF Taken
  <2>4. ASSUME Queued(s) PROVE Queued(s)'
    BY <1>2, <1>6, <2>2, <2>3, <2>4 DEF Queued
  <2>. QED  BY <2>1, <2>4
<1>10. PeerRests(s)
  BY <1>2 DEF PeerRests, Peer
<1>. QED  BY <1>2, <1>3, <1>5, <1>6, <1>7, <1>8, <1>9, <1>10

-----------------------------------------------------------------------------
(* The stream of an end: its handshake, then a header and, unless it is empty, *)
(* a body of each message that it sends                                        *)

Hello(p) == Handshake(IF p = "server" THEN Challenge ELSE scramble(Challenge))

\* A place in a stream: a unit of the n-th message, or the handshake before them all
StreamPlaces == Nat \X {"hello", "header", "body"}

\* The units in the stream of p, which sends the messages s: <<x, u, y>> says that u
\* stands at the place x, and the next unit at y.
Stream(p, s) ==
    {t \in StreamPlaces \X Units \X StreamPlaces :
        \/ t[1] = <<0, "hello">> /\ t[2] = Hello(p) /\ t[3] = <<1, "header">>
        \/ \E k \in 1 .. Len(s) :
              /\ t[1] = <<k, "header">> /\ t[2] = Header(s[k])
              /\ t[3] = IF s[k].body = << >> THEN <<k + 1, "header">> ELSE <<k, "body">>
        \/ \E k \in 1 .. Len(s) :
              /\ s[k].body # << >>
              /\ t[1] = <<k, "body">> /\ t[2] = Body(s[k]) /\ t[3] = <<k + 1, "header">>}

\* The message at the head of m_qMessagesOut is the one after the first Out(p).
Out(p) == Taken(p) - Len(qOut[p])

\* Nothing has been lost.
InStep == link \in {"syn", "up"} /\ \A d \in Ends : io[d].socket # "closed"

\* The handshake of p is on the wire, or at the client the message that went before it.
Greeted(p) ==
    IF p = "client" THEN opening # NoUnit
    ELSE io[p].socket # "none" /\ ~(io[p].writing # << >> /\ Head(io[p].writing).op = "writeValidation")

\* The place of the next unit that p puts on the wire
WritePlace(p) ==
    IF ~Greeted(p) THEN <<0, "hello">>
    ELSE IF Writer(p) = <<"ok", "writeHeader">>
         THEN IF Head(qOut[p]).body = << >> THEN <<Out(p) + 2, "header">> ELSE <<Out(p) + 1, "body">>
    ELSE IF Writer(p) = <<"writing", "writeBody">> THEN <<Out(p) + 1, "body">>
    ELSE IF Writer(p) = <<"ok", "writeBody">> THEN <<Out(p) + 2, "header">>
    ELSE <<Out(p) + 1, "header">>

\* The operation that the reader of e is at
ReaderOp(e) == Reader(e)[2]

\* The place of the next unit that e reads
ReadPlace(e) ==
    LET n == Len(qIn[e])
    IN  IF handshakeIn[e] = NoUnit THEN <<0, "hello">>
        ELSE IF Reader(e) = <<"ok", "readHeader">>
             THEN IF tmpIn[e].header.size <= HeaderSize THEN <<n + 2, "header">> ELSE <<n + 1, "body">>
        ELSE IF Reader(e) = <<"ok", "readBody">> THEN <<n + 2, "header">>
        ELSE IF ReaderOp(e) = "readBody" THEN <<n + 1, "body">>
        ELSE <<n + 1, "header">>

\* What m_msgTemporaryIn.body holds when n of the messages s have arrived
BodyOf(s, n) == LET body[i \in 0 .. Len(s)] == IF i = 0 THEN << >>
                                               ELSE IF s[i].size = 0 THEN body[i - 1] ELSE s[i].body
                IN  body[n]

-----------------------------------------------------------------------------
(* The invariant *)

Arrivals == [id : {m.id : m \in Messages}, size : {m.size : m \in Messages}, body : Seq(Byte)]

TypedToo ==
    /\ wire \in [Ends -> Seq(Units)]
    /\ handshakeIn \in [Ends -> Units \cup {NoUnit}]
    /\ tmpIn \in [Ends -> [header : Headers \cup {NoUnit}, body : Seq(Byte)]]
    /\ qIn \in [Ends -> Seq(Arrivals)]
    /\ validated \in BOOLEAN /\ breaks \in 0 .. MaxBreaks

\* m_qMessagesOut holds the messages that were taken and not written, in their order.
QueueOk(p) ==
    /\ Queued(p) /\ Out(p) \in Nat
    /\ \A i \in 1 .. Len(qOut[p]) : qOut[p][i] = sent[p][Out(p) + i]

\* What a write of p carries
Carries(p, op) ==
    IF op = "connect" THEN NoUnit
    ELSE IF op = "writeValidation" THEN Hello(p)
    ELSE IF op = "writeHeader" THEN Header(Head(qOut[p])) ELSE Body(Head(qOut[p]))

\* The server's handshake is the first of its writes.
WritesOk(p) ==
    /\ \A i \in DOMAIN io[p].writing : io[p].writing[i].unit = Carries(p, io[p].writing[i].op)
    /\ p = "server" => \A i \in DOMAIN io[p].writing : io[p].writing[i].op = "writeValidation" => i = 1
    /\ Writer(p) = <<"writing", "writeBody">> => Head(qOut[p]).body # << >>

\* Nothing of a message but its header can come before the handshake.
GreetOk(p) == (~Greeted(p) /\ InStep) => Out(p) = 0 /\ Writer(p) \in {NoToken, <<"writing", "writeHeader">>}

\* m_handshakeIn is empty until readValidation has read it.
EarlyOk(e) ==
    /\ (\/ ReaderOp(e) = "connect" \/ Reader(e) = <<"reading", "readValidation">>
        \/ io[e].socket = "none") => handshakeIn[e] = NoUnit
    /\ (\/ Reader(e) = <<"ok", "readValidation">>
        \/ ReaderOp(e) \in {"writeValidation", "readHeader", "readBody"}
        \/ qIn[e] # << >>) => handshakeIn[e] # NoUnit

\* m_msgTemporaryIn holds as much of the next message as was read of it, and the body
\* of the last one until then.
TmpOk(e) ==
    LET s == sent[Peer(e)]
        n == Len(qIn[e])
    IN  /\ n <= Len(s)
        /\ Reader(e) = <<"ok", "readHeader">> => n + 1 <= Len(s) /\ tmpIn[e].header = Header(s[n + 1])
        /\ ReaderOp(e) = "readBody" =>
              n + 1 <= Len(s) /\ tmpIn[e].header = Header(s[n + 1]) /\ s[n + 1].size > 0
        /\ Reader(e) = <<"ok", "readBody">> => tmpIn[e].body = s[n + 1].body
        /\ (io[e].socket = "none" \/ ReaderOp(e) \notin {"none", "readBody"}) =>
              tmpIn[e].body = BodyOf(s, n)

\* The units on their way to e are the next ones in the stream of its peer.
StreamOk(e) ==
    ((e = "server" => opening \notin Headers) /\ io[e].socket # "closed") =>
        \E b : /\ Chain(wire[e], Stream(Peer(e), sent[Peer(e)]), ReadPlace(e), b)
               /\ InStep => b = WritePlace(Peer(e))

\* The client's handshake: it sends no other one, and the server takes just the first
\* unit for it.
OpeningOk ==
    /\ opening \in {NoUnit, Hello("client")} \cup Headers
    /\ opening = Hello("client") =>
          /\ ReaderOp("client") \notin {"connect", "readValidation"}
          /\ Reader("client") # <<"writing", "writeValidation">>
    /\ opening = NoUnit => wire["server"] = << >>
    /\ (handshakeIn["server"] = NoUnit /\ (wire["server"] # << >> \/ (opening # NoUnit /\ link = "up"))) =>
          wire["server"] # << >> /\ Head(wire["server"]) = opening
    /\ handshakeIn["client"] \in {NoUnit, Hello("server")} /\ handshakeIn["server"] \in {NoUnit, opening}

\* The server reads messages of a client it has validated.
ValidOk ==
    /\ (ReaderOp("server") \in {"readHeader", "readBody"} \/ qIn["server"] # << >>) => validated
    /\ validated => /\ opening = Hello("client") /\ io["server"].socket # "none"
                    /\ ReaderOp("server") # "readValidation"

\* Before the connect has completed nothing else is written.
SynOk ==
    link = "syn" => /\ io["server"].socket = "none" /\ opening = NoUnit
                    /\ io["client"].socket = "open" => /\ io["client"].writing # << >>
                                                       /\ Head(io["client"].writing).op = "connect"

EndInv(e) == QueueOk(e) /\ WritesOk(e) /\ GreetOk(e) /\ EarlyOk(e) /\ TmpOk(e) /\ StreamOk(e)

Inv == CountInv /\ TypedToo /\ (\A e \in Ends : EndInv(e)) /\ OpeningOk /\ ValidOk /\ SynOk

-----------------------------------------------------------------------------
(* Units, the stream, and the body of a message *)

\* The units that are told apart by their kind
LEMMA UnitKinds ==
    /\ \A p : Hello(p).unit = "handshake" /\ Hello(p) \notin Headers /\ Hello(p) # NoUnit
    /\ \A p \in Ends : Hello(p) \in Words
    /\ \A m : Header(m).unit = "header" /\ Header(m) # NoUnit /\ (\A p : Header(m) # Hello(p))
              /\ Header(m).id = m.id /\ Header(m).size = m.size
    /\ \A m : Body(m).unit = "body" /\ Body(m).body = m.body
    /\ NoUnit.unit = "none" /\ NoUnit \notin Headers
    /\ \A h \in Headers : h.unit = "header"
    /\ \A m \in Messages : Header(m) \in Headers /\ Header(m) \in Units /\ Body(m) \in Units
    /\ Headers \subseteq Units /\ Words \subseteq Units /\ Units \subseteq AnyUnit
<1>1. \A p : Hello(p).unit = "handshake"
  BY DEF Hello, Handshake
<1>2. \A m : Header(m).unit = "header" /\ Header(m).id = m.id /\ Header(m).size = m.size
  BY DEF Header
<1>3. \A m : Body(m).unit = "body" /\ Body(m).body = m.body
  BY DEF Body
<1>4. NoUnit.unit = "none"
  BY DEF NoUnit
<1>5. \A h \in Headers : h.unit = "header"
  BY <1>2 DEF Headers
<1>6. \A p \in Ends : Hello(p) \in Words
  BY DEF Hello, Words, Ends
<1>7. \A m \in Messages : Header(m) \in Headers /\ Header(m) \in Units /\ Body(m) \in Units
  BY DEF Headers, Units, Bodies
<1>8. Headers \subseteq Units /\ Words \subseteq Units /\ Units \subseteq AnyUnit
  BY DEF Units, AnyUnit
<1>9. \A p : Hello(p) \notin Headers /\ Hello(p) # NoUnit
  BY <1>1, <1>4, <1>5
<1>10. \A m : Header(m) # NoUnit /\ \A p : Header(m) # Hello(p)
  <2>. SUFFICES ASSUME NEW m, NEW p PROVE Header(m) # NoUnit /\ Header(m) # Hello(p)
    OBVIOUS
  <2>1. Header(m).unit = "header" /\ Hello(p).unit = "handshake"
    BY <1>1, <1>2
  <2>. QED  BY <1>4, <2>1
<1>11. NoUnit \notin Headers
  BY <1>4, <1>5
<1>. QED  BY <1>1, <1>2, <1>3, <1>4, <1>5, <1>6, <1>7, <1>8, <1>9, <1>10, <1>11

\* The size of a message and the length of its body
LEMMA MessageSize ==
    ASSUME NEW m \in Messages
    PROVE  /\ m.body \in Seq(Byte) /\ Len(m.body) \in Nat /\ m.size \in Nat
           /\ m.size = 0 \/ m.size = HeaderSize + Len(m.body)
           /\ m.body = << >> <=> m.size <= HeaderSize
           /\ m.size = 0 => m.body = << >>
           /\ m.size = HeaderSize => m.body = << >>
<1>1. m.body \in Seq(Byte) /\ m.size \in {0, HeaderSize + Len(m.body)} /\ (m.size = 0 => m.body = << >>)
  BY MessagesAssumption
<1>2. Len(m.body) \in Nat /\ (m.body = << >> <=> Len(m.body) = 0)
  BY <1>1, EmptySeq
<1>. QED  BY <1>1, <1>2 DEF HeaderSize

\* The handshake leads to the first header.
LEMMA StreamHello ==
    ASSUME NEW p \in Ends, NEW s \in Seq(Messages)
    PROVE  /\ <<<<0, "hello">>, Hello(p), <<1, "header">>>> \in Stream(p, s)
           /\ \A u, c : <<<<0, "hello">>, u, c>> \in Stream(p, s) => u = Hello(p) /\ c = <<1, "header">>
<1>1. Hello(p) \in Units
  BY UnitKinds
<1>. QED  BY <1>1 DEF Stream, StreamPlaces

\* A header leads to the body of its message, or to the next header.
LEMMA StreamHeader ==
    ASSUME NEW p \in Ends, NEW s \in Seq(Messages), NEW k \in Nat
    PROVE  LET y == IF s[k].body = << >> THEN <<k + 1, "header">> ELSE <<k, "body">>
           IN  /\ k \in 1 .. Len(s) => <<<<k, "header">>, Header(s[k]), y>> \in Stream(p, s)
               /\ \A u, c : <<<<k, "header">>, u, c>> \in Stream(p, s) =>
                                k \in 1 .. Len(s) /\ u = Header(s[k]) /\ c = y
<1>. DEFINE y == IF s[k].body = << >> THEN <<k + 1, "header">> ELSE <<k, "body">>
<1>1. y \in StreamPlaces /\ <<k, "header">> \in StreamPlaces
  BY DEF StreamPlaces
<1>2. ASSUME k \in 1 .. Len(s) PROVE <<<<k, "header">>, Header(s[k]), y>> \in Stream(p, s)
  <2>. DEFINE t == <<<<k, "header">>, Header(s[k]), y>>
  <2>1. s[k] \in Messages
    BY <1>2
  <2>2. Header(s[k]) \in Units
    BY <2>1, UnitKinds
  <2>3. t \in StreamPlaces \X Units \X StreamPlaces
    BY <1>1, <2>2
  <2>4. t[1] = <<k, "header">> /\ t[2] = Header(s[k])
        /\ t[3] = IF s[k].body = << >> THEN <<k + 1, "header">> ELSE <<k, "body">>
    OBVIOUS
  <2>. HIDE DEF t
  <2>. QED  BY <1>2, <2>3, <2>4 DEF Stream, t
<1>3. ASSUME NEW u, NEW c, <<<<k, "header">>, u, c>> \in Stream(p, s)
      PROVE  k \in 1 .. Len(s) /\ u = Header(s[k]) /\ c = y
  BY <1>3 DEF Stream
<1>. QED  BY <1>2, <1>3

\* A body leads to the next header.
LEMMA StreamBody ==
    ASSUME NEW p \in Ends, NEW s \in Seq(Messages), NEW k \in Nat
    PROVE  /\ k \in 1 .. Len(s) /\ s[k].body # << >> =>
                 <<<<k, "body">>, Body(s[k]), <<k + 1, "header">>>> \in Stream(p, s)
           /\ \A u, c : <<<<k, "body">>, u, c>> \in Stream(p, s) =>
                            /\ k \in 1 .. Len(s) /\ u = Body(s[k]) /\ c = <<k + 1, "header">>
                            /\ s[k].body # << >>
<1>1. <<k + 1, "header">> \in StreamPlaces /\ <<k, "body">> \in StreamPlaces
  BY DEF StreamPlaces
<1>2. ASSUME k \in 1 .. Len(s), s[k].body # << >>
      PROVE  <<<<k, "body">>, Body(s[k]), <<k + 1, "header">>>> \in Stream(p, s)
  <2>. DEFINE t == <<<<k, "body">>, Body(s[k]), <<k + 1, "header">>>>
  <2>1. s[k] \in Messages
    BY <1>2
  <2>2. Body(s[k]) \in Units
    BY <2>1, UnitKinds
  <2>3. t \in StreamPlaces \X Units \X StreamPlaces
    BY <1>1, <2>2
  <2>4. t[1] = <<k, "body">> /\ t[2] = Body(s[k]) /\ t[3] = <<k + 1, "header">>
    OBVIOUS
  <2>. HIDE DEF t
  <2>. QED  BY <1>2, <2>3, <2>4 DEF Stream, t
<1>3. ASSUME NEW u, NEW c, <<<<k, "body">>, u, c>> \in Stream(p, s)
      PROVE  /\ k \in 1 .. Len(s) /\ u = Body(s[k]) /\ c = <<k + 1, "header">>
             /\ s[k].body # << >>
  BY <1>3 DEF Stream
<1>. QED  BY <1>2, <1>3

\* One message more
LEMMA StreamGrows ==
    ASSUME NEW p \in Ends, NEW s \in Seq(Messages), NEW m \in Messages
    PROVE  Stream(p, s) \subseteq Stream(p, Append(s, m))
<1>. DEFINE q == Append(s, m)
<1>1. \A k \in 1 .. Len(s) : k \in 1 .. Len(q) /\ q[k] = s[k]
  OBVIOUS
<1>. HIDE DEF q
<1>2. ASSUME NEW t \in Stream(p, s) PROVE t \in Stream(p, q)
  BY <1>1 DEF Stream
<1>. QED  BY <1>2 DEF q

\* The bodies are those of the recursion.
LEMMA BodySteps ==
    ASSUME NEW s \in Seq(Messages)
    PROVE  /\ BodyOf(s, 0) = << >>
           /\ \A k \in 1 .. Len(s) : BodyOf(s, k) = IF s[k].size = 0 THEN BodyOf(s, k - 1) ELSE s[k].body
           /\ \A k \in 0 .. Len(s) : BodyOf(s, k) \in Seq(Byte)
<1>. DEFINE n == Len(s)
            Ok(f) == f = [i \in 0 .. n |-> IF i = 0 THEN << >>
                                           ELSE IF s[i].size = 0 THEN f[i - 1] ELSE s[i].body]
            S == Seq(Byte)
            g == [k \in 1 .. n |-> [b \in S |-> IF s[k].size = 0 THEN b ELSE s[k].body]]
<1>1. n \in Nat /\ << >> \in S /\ \A k \in 1 .. n : s[k] \in Messages /\ s[k].body \in S
  BY MessageSize
<1>2. g \in [1 .. n -> [S -> S]]
  <2>. HIDE DEF S
  <2>. QED  BY <1>1
<1>3. PICK f \in [0 .. n -> S] : IsRecursion(f, n, << >>, g)
  <2>. HIDE DEF S, g, n
  <2>. QED  BY <1>1, <1>2, RecursiveFunction
<1>4. f[0] = << >> /\ \A k \in 1 .. n : f[k] = IF s[k].size = 0 THEN f[k - 1] ELSE s[k].body
  <2>1. \A k \in 1 .. n : f[k - 1] \in S /\ f[k] = g[k][f[k - 1]]
    <3>1. \A k \in 1 .. n : k - 1 \in 0 .. n
      BY <1>1
    <3>. HIDE DEF S, g, n
    <3>. QED  BY <1>3, <3>1 DEF IsRecursion
  <2>. QED  BY <1>3, <2>1 DEF IsRecursion
<1>5. Ok(f)
  BY <1>1, <1>3, <1>4
<1>. DEFINE h == CHOOSE f2 : Ok(f2)
<1>6. Ok(h)
  <2>. HIDE DEF Ok
  <2>. QED  BY <1>5
<1>7. \A k : BodyOf(s, k) = h[k]
  BY DEF BodyOf
<1>8. /\ h[0] = << >>
      /\ \A k \in 1 .. n : h[k] = IF s[k].size = 0 THEN h[k - 1] ELSE s[k].body
  <2>. HIDE DEF h
  <2>. QED  BY <1>1, <1>6
<1>. DEFINE T == {k \in 0 .. n : h[k] \in S}
<1>9. 0 .. n \subseteq T
  <2>1. 0 \in T
    <3>. HIDE DEF h, S
    <3>. QED  BY <1>1, <1>8
  <2>2. ASSUME NEW i \in 1 .. n, i - 1 \in T PROVE i \in T
    <3>1. h[i - 1] \in S
      BY <2>2
    <3>. HIDE DEF h, S
    <3>. QED  BY <1>1, <1>8, <3>1
  <2>. HIDE DEF T, h, n
  <2>. QED  BY <1>1, <2>1, <2>2, InductionTo
<1>. HIDE DEF h, n
<1>. QED  BY <1>7, <1>8, <1>9 DEF n

\* A message that is sent later changes no body before it.
LEMMA BodyGrows ==
    ASSUME NEW s \in Seq(Messages), NEW m \in Messages, NEW n \in 0 .. Len(s)
    PROVE  BodyOf(Append(s, m), n) = BodyOf(s, n)
<1>. DEFINE q == Append(s, m)
            T == {k \in 0 .. Len(s) : BodyOf(q, k) = BodyOf(s, k)}
<1>1. q \in Seq(Messages) /\ Len(s) \in Nat /\ Len(q) = Len(s) + 1 /\ \A k \in 1 .. Len(s) : q[k] = s[k]
  OBVIOUS
<1>. HIDE DEF q
<1>2. 0 \in T
  BY <1>1, BodySteps
<1>3. ASSUME NEW i \in 1 .. Len(s), i - 1 \in T PROVE i \in T
  <2>1. BodyOf(s, i) = IF s[i].size = 0 THEN BodyOf(s, i - 1) ELSE s[i].body
    BY BodySteps
  <2>2. BodyOf(q, i) = IF q[i].size = 0 THEN BodyOf(q, i - 1) ELSE q[i].body
    BY <1>1, BodySteps
  <2>. QED  BY <1>1, <1>3, <2>1, <2>2
<1>4. 0 .. Len(s) \subseteq T
  <2>. HIDE DEF T
  <2>. QED  BY <1>1, <1>2, <1>3, InductionTo
<1>. QED  BY <1>4 DEF q

\* What arrives, message by message
LEMMA DeliveredBody ==
    ASSUME NEW s \in Seq(Messages), NEW i \in 1 .. Len(s)
    PROVE  Delivered(s)[i] = [id |-> s[i].id, size |-> s[i].size, body |-> BodyOf(s, i)]
<1>1. i \in DOMAIN s
  OBVIOUS
<1>. QED  BY <1>1 DEF Delivered, BodyOf

-----------------------------------------------------------------------------
(* What a step leaves alone *)

\* The operators of the invariant, when what they read stays as it is
LEMMA PlacesKept ==
    ASSUME NEW p \in Ends
    PROVE  /\ (Taken(p)' = Taken(p) /\ qOut'[p] = qOut[p]) => Out(p)' = Out(p)
           /\ (opening' = opening /\ io'[p].socket = io[p].socket /\ io'[p].writing = io[p].writing) =>
                 Greeted(p)' = Greeted(p)
           /\ (/\ Greeted(p)' = Greeted(p) /\ Writer(p)' = Writer(p)
               /\ qOut'[p] = qOut[p] /\ Out(p)' = Out(p)) => WritePlace(p)' = WritePlace(p)
           /\ (/\ handshakeIn'[p] = handshakeIn[p] /\ Reader(p)' = Reader(p)
               /\ qIn'[p] = qIn[p] /\ tmpIn'[p] = tmpIn[p]) => ReadPlace(p)' = ReadPlace(p)
BY DEF Out, Greeted, WritePlace, ReadPlace, ReaderOp

\* An end whose queues, reader and writer stay as they are
LEMMA QueueKept ==
    ASSUME NEW p \in Ends, QueueOk(p), Queued(p)', Taken(p)' = Taken(p), qOut'[p] = qOut[p],
           sent'[p] = sent[p]
    PROVE  QueueOk(p)' /\ Out(p)' = Out(p)
BY DEF QueueOk, Out

\* The writes of an end that starts and completes none
LEMMA WritesKept ==
    ASSUME NEW p \in Ends, WritesOk(p), io'[p].writing = io[p].writing, Writer(p)' = Writer(p),
           qOut'[p] = qOut[p]
    PROVE  WritesOk(p)'
BY DEF WritesOk, Carries

\* An end that has not greeted, and does not now
LEMMA GreetKept ==
    ASSUME NEW p \in Ends, GreetOk(p), Greeted(p)' = Greeted(p), InStep' => InStep,
           Out(p)' = Out(p), Writer(p)' = Writer(p)
    PROVE  GreetOk(p)'
BY DEF GreetOk

\* A reader that stays where it is, with what it was greeted with
LEMMA EarlyKept ==
    ASSUME NEW p \in Ends, EarlyOk(p), Reader(p)' = Reader(p), io'[p].socket = io[p].socket,
           handshakeIn'[p] = handshakeIn[p], qIn'[p] = qIn[p]
    PROVE  EarlyOk(p)'
BY DEF EarlyOk, ReaderOp

\* A reader that stays where it is, with what it has of a message
LEMMA TmpKept ==
    ASSUME NEW p \in Ends, TmpOk(p), Reader(p)' = Reader(p), io'[p].socket = io[p].socket,
           tmpIn'[p] = tmpIn[p], qIn'[p] = qIn[p], sent'[Peer(p)] = sent[Peer(p)]
    PROVE  TmpOk(p)'
BY DEF TmpOk, ReaderOp

\* What is on its way to e
LEMMA StreamKept ==
    ASSUME NEW e \in Ends, StreamOk(e), wire'[e] = wire[e], sent'[Peer(e)] = sent[Peer(e)],
           e = "server" => opening' = opening, io[e].socket = "closed" => io'[e].socket = "closed",
           io'[e].socket # "closed" => ReadPlace(e)' = ReadPlace(e),
           InStep' => InStep /\ WritePlace(Peer(e))' = WritePlace(Peer(e))
    PROVE  StreamOk(e)'
<1>1. SUFFICES ASSUME e = "server" => opening \notin Headers, io'[e].socket # "closed"
               PROVE  \E b : /\ Chain(wire'[e], Stream(Peer(e), sent'[Peer(e)]), ReadPlace(e)', b)
                             /\ InStep' => b = WritePlace(Peer(e))'
  BY DEF StreamOk
<1>2. PICK b : /\ Chain(wire[e], Stream(Peer(e), sent[Peer(e)]), ReadPlace(e), b)
               /\ InStep => b = WritePlace(Peer(e))
  BY <1>1 DEF StreamOk
<1>. QED  BY <1>1, <1>2

\* The two ends, and what the invariant says of each
LEMMA InvEnds ==
    ASSUME Inv, NEW e \in Ends
    PROVE  /\ CountInv /\ TypedToo /\ OpeningOk /\ ValidOk /\ SynOk
           /\ QueueOk(e) /\ WritesOk(e) /\ GreetOk(e) /\ EarlyOk(e) /\ TmpOk(e) /\ StreamOk(e)
           /\ Queued(e)
BY DEF Inv, EndInv, QueueOk

\* A step that changes one end, and nothing that is on the wire
LEMMA LocalStep ==
    ASSUME Inv, CountInv', TypedToo', NEW e \in Ends, PeerRests(e),
           wire' = wire, opening' = opening, sent' = sent,
           qOut'[Peer(e)] = qOut[Peer(e)], handshakeIn'[Peer(e)] = handshakeIn[Peer(e)],
           tmpIn'[Peer(e)] = tmpIn[Peer(e)], qIn'[Peer(e)] = qIn[Peer(e)],
           io[e].socket = "closed" => io'[e].socket = "closed",
           io'[e].socket # "closed" => ReadPlace(e)' = ReadPlace(e),
           InStep' => InStep /\ WritePlace(e)' = WritePlace(e),
           QueueOk(e)', WritesOk(e)', GreetOk(e)', EarlyOk(e)', TmpOk(e)',
           OpeningOk', ValidOk', SynOk'
    PROVE  Inv'
<1>. DEFINE p == Peer(e)
<1>1. p \in Ends /\ Peer(p) = e /\ \A d \in Ends : d = e \/ d = p
  BY TwoEnds
<1>2. /\ StreamOk(e) /\ QueueOk(p) /\ WritesOk(p) /\ GreetOk(p) /\ EarlyOk(p) /\ TmpOk(p) /\ StreamOk(p)
      /\ Queued(p)
  BY <1>1, InvEnds
<1>3. io'[p] = io[p] /\ Reader(p)' = Reader(p) /\ Writer(p)' = Writer(p) /\ Taken(p)' = Taken(p) /\ Queued(p)'
  BY <1>1, <1>2, SameEnd DEF PeerRests
<1>4. QueueOk(p)' /\ Out(p)' = Out(p)
  BY <1>1, <1>2, <1>3, QueueKept
<1>5. Greeted(p)' = Greeted(p) /\ WritePlace(p)' = WritePlace(p) /\ ReadPlace(p)' = ReadPlace(p)
  BY <1>1, <1>3, <1>4, PlacesKept
<1>6. WritesOk(p)'
  BY <1>1, <1>2, <1>3, WritesKept
<1>7. GreetOk(p)'
  BY <1>1, <1>2, <1>3, <1>4, <1>5, GreetKept
<1>8. EarlyOk(p)'
  BY <1>1, <1>2, <1>3, EarlyKept
<1>9. TmpOk(p)'
  BY <1>1, <1>2, <1>3, TmpKept
<1>10. StreamOk(p)'
  BY <1>1, <1>2, <1>3, <1>5, StreamKept
<1>11. StreamOk(e)'
  BY <1>1, <1>2, <1>5, StreamKept
<1>. QED  BY <1>1, <1>4, <1>6, <1>7, <1>8, <1>9, <1>10, <1>11 DEF Inv, EndInv

\* A handler is due only at an end that has a socket.
LEMMA DueSocket ==
    ASSUME CountInv, NEW e \in Ends, io[e].ready # << >>
    PROVE  io[e].socket # "none" /\ io[e].socket \in {"open", "closed"}
BY EndTyped DEF EndOk, SocketOk, IoRecord, Sockets

\* The writer of an end has something to write, and its writes are the only ones that
\* carry data.
LEMMA WriterIs ==
    ASSUME CountInv, NEW e \in Ends
    PROVE  /\ qOut[e] = << >> => Writer(e) = NoToken
           /\ \A i \in DOMAIN io[e].writing : io[e].writing[i].op \in DataOps =>
                 Writer(e) = <<"writing", io[e].writing[i].op>>
           /\ \A i \in DOMAIN io[e].writing : io[e].writing[i].op \in WriteOps \cup {"connect"}
<1>1. /\ io[e] \in IoRecord /\ EndOk(e) /\ Cnt(io[e], Of(DataOps)) <= 1 /\ io[e].writing \in Seq(AnyWrites)
  BY EndTyped
<1>2. qOut[e] = << >> => Writer(e) = NoToken
  BY <1>1 DEF EndOk, WriterOk, Writer, Only
<1>3. ASSUME NEW i \in DOMAIN io[e].writing, io[e].writing[i].op \in DataOps
      PROVE  Writer(e) = <<"writing", io[e].writing[i].op>>
  <2>. DEFINE t == <<"writing", io[e].writing[i].op>>
  <2>1. Has(io[e], t) /\ t \in Of(DataOps)
    BY <1>1, <1>3, HasTokens DEF Of, Stages
  <2>. HIDE DEF t
  <2>2. Only(io[e], Of(DataOps)) = t
    BY <1>1, <2>1, OnlyIs
  <2>. QED  BY <2>2 DEF Writer, t
<1>4. ASSUME NEW i \in DOMAIN io[e].writing PROVE io[e].writing[i].op \in WriteOps \cup {"connect"}
  <2>1. io[e].writing[i] \in AnyWrites
    BY <1>1
  <2>. QED  BY <2>1 DEF AnyWrites
<1>. QED  BY <1>2, <1>3, <1>4

\* What closing the socket makes of a token
LEMMA AbortKinds ==
    ASSUME NEW t
    PROVE  /\ Aborted(t)[2] = t[2]
           /\ \A op : Aborted(t) # <<"reading", op>> /\ Aborted(t) # <<"writing", op>>
           /\ \A op : Aborted(t) = <<"ok", op>> => t = <<"ok", op>>
           /\ \A op : NoToken # <<"ok", op>> /\ NoToken # <<"reading", op>> /\ NoToken # <<"writing", op>>
           /\ NoToken[2] = "none"
BY DEF Aborted, NoToken

\* The values of the variables that a step leaves alone keep their types.
LEMMA TypesKept ==
    ASSUME TypedToo, UNCHANGED <<wire, handshakeIn, tmpIn, qIn, validated>>, breaks' \in 0 .. MaxBreaks
    PROVE  TypedToo'
BY DEF TypedToo

\* What is known of the client's handshake
LEMMA OpeningKept ==
    ASSUME OpeningOk, wire' = wire, opening' = opening, handshakeIn' = handshakeIn,
           link' = "up" => link = "up" \/ opening = NoUnit,
           opening = Hello("client") =>
              /\ ReaderOp("client")' \notin {"connect", "readValidation"}
              /\ Reader("client")' # <<"writing", "writeValidation">>
    PROVE  OpeningOk'
BY DEF OpeningOk

\* What is known of the client the server has validated
LEMMA ValidKept ==
    ASSUME ValidOk, validated' = validated, opening' = opening,
           qIn'["server"] # << >> => validated,
           ReaderOp("server")' \in {"readHeader", "readBody"} => validated,
           validated => ReaderOp("server")' # "readValidation",
           io["server"].socket # "none" => io'["server"].socket # "none"
    PROVE  ValidOk'
BY DEF ValidOk

\* What the reader was at when it was aborted, or was nothing more
LEMMA ReaderAborted ==
    ASSUME NEW e \in Ends, Reader(e)' \in {NoToken, Aborted(Reader(e))}
    PROVE  /\ ReaderOp(e)' \in {"none", ReaderOp(e)}
           /\ \A op : Reader(e)' # <<"reading", op>> /\ Reader(e)' # <<"writing", op>>
           /\ \A op : Reader(e)' = <<"ok", op>> => Reader(e) = <<"ok", op>>
BY AbortKinds DEF ReaderOp

\* The socket of e is closed, and what its reader and its writer have outstanding aborted.
LEMMA ClosedStep ==
    ASSUME Inv, CountInv', NEW e \in Ends, PeerRests(e), io[e].socket # "none" \/ link # "syn",
           io'[e].socket = "closed", io'[e].writing = << >>,
           Reader(e)' \in {NoToken, Aborted(Reader(e))}, Writer(e)' \in {NoToken, Aborted(Writer(e))},
           Posts(e)' = Posts(e), Queued(e)',
           UNCHANGED <<link, wire, qOut, handshakeIn, tmpIn, qIn, validated, sent, opening, breaks>>
    PROVE  Inv'
<1>1. /\ CountInv /\ TypedToo /\ OpeningOk /\ ValidOk /\ SynOk
      /\ QueueOk(e) /\ WritesOk(e) /\ GreetOk(e) /\ EarlyOk(e) /\ TmpOk(e) /\ StreamOk(e)
      /\ Queued(e)
  BY InvEnds
<1>2. Taken(e)' = Taken(e)
  BY DEF Taken
<1>3. QueueOk(e)'
  BY <1>1, <1>2, QueueKept
<1>4. ~InStep'
  BY DEF InStep
<1>5. WritesOk(e)'
  <2>1. Writer(e)' # <<"writing", "writeBody">>
    BY AbortKinds
  <2>. QED  BY <2>1 DEF WritesOk
<1>6. GreetOk(e)'
  BY <1>4 DEF GreetOk
<1>7. /\ ReaderOp(e)' \in {"none", ReaderOp(e)}
      /\ \A op : Reader(e)' # <<"reading", op>> /\ Reader(e)' # <<"writing", op>>
      /\ \A op : Reader(e)' = <<"ok", op>> => Reader(e) = <<"ok", op>>
  BY ReaderAborted
<1>8. EarlyOk(e)'
  BY <1>1, <1>7 DEF EarlyOk
<1>9. TmpOk(e)'
  BY <1>1, <1>7 DEF TmpOk
<1>10. \A d \in Ends : d = e \/ d = Peer(e)
  BY TwoEnds
<1>11. \A d \in Ends : ReaderOp(d)' \in {"none", ReaderOp(d)}
                       /\ (Reader(d)' = <<"writing", "writeValidation">> => Reader(d)' = Reader(d))
  <2>1. Reader(Peer(e))' = Reader(Peer(e))
    BY TwoEnds, SameEnd DEF PeerRests
  <2>. QED  BY <1>7, <1>10, <2>1 DEF ReaderOp
<1>12. "client" \in Ends /\ "server" \in Ends
  BY DEF Ends
<1>13. OpeningOk'
  <2>1. opening = Hello("client") => /\ ReaderOp("client")' \notin {"connect", "readValidation"}
                                     /\ Reader("client")' # <<"writing", "writeValidation">>
    <3>1. ReaderOp("client")' \in {"none", ReaderOp("client")}
          /\ (Reader("client")' = <<"writing", "writeValidation">> => Reader("client")' = Reader("client"))
      BY <1>11, <1>12
    <3>. QED  BY <1>1, <3>1 DEF OpeningOk
  <2>. QED  BY <1>1, <2>1, OpeningKept
<1>14. ValidOk'
  <2>1. ReaderOp("server")' \in {"none", ReaderOp("server")}
    BY <1>11, <1>12
  <2>2. io["server"].socket # "none" => io'["server"].socket # "none"
    BY <1>10, <1>12 DEF PeerRests
  <2>. QED  BY <1>1, <2>1, <2>2, ValidKept DEF ValidOk
<1>15. SynOk'
  <2>1. CASE e = "client"
    BY <1>1, <2>1 DEF SynOk, PeerRests, Peer
  <2>2. CASE e = "server"
    BY <1>1, <2>2 DEF SynOk
  <2>. QED  BY <2>1, <2>2 DEF Ends
<1>16. TypedToo'
  BY <1>1, TypesKept DEF TypedToo
<1>. QED  BY <1>3, <1>4, <1>5, <1>6, <1>8, <1>9, <1>13, <1>14, <1>15, <1>16, LocalStep

\* A handler closes the socket.
LEMMA ClosesStep ==
    ASSUME Inv, CountInv', NEW e \in Ends, NEW h \in AllOps \cup {"close"}, Due(e, h),
           Continue(e, close(rest(e))),
           UNCHANGED <<link, wire, qOut, handshakeIn, tmpIn, qIn, validated, sent, opening, breaks>>
    PROVE  Inv'
<1>1. CountInv /\ Queued(e)
  BY InvEnds
<1>2. /\ PeerRests(e) /\ io'[e].socket = "closed" /\ io'[e].writing = << >>
      /\ Reader(e)' = IF h \in ReadChain(e) THEN NoToken ELSE Aborted(Reader(e))
      /\ Writer(e)' = IF h \in DataOps THEN NoToken ELSE Aborted(Writer(e))
      /\ Posts(e)' = Posts(e) /\ Queued(e)'
  BY <1>1, DoClose
<1>3. io[e].socket # "none"
  BY <1>1, DueSocket DEF Due
<1>4. Reader(e)' \in {NoToken, Aborted(Reader(e))} /\ Writer(e)' \in {NoToken, Aborted(Writer(e))}
  BY <1>2
<1>. QED  BY <1>2, <1>3, <1>4, ClosedStep

-----------------------------------------------------------------------------
(* The handlers that read *)

\* An end that keeps its socket
LEMMA SocketKept ==
    ASSUME SynOk, NEW e \in Ends, PeerRests(e), io'[e].socket = io[e].socket, link' = link, opening' = opening,
           io[e].writing # << >> => io'[e].writing # << >> /\ Head(io'[e].writing) = Head(io[e].writing)
    PROVE  SynOk' /\ InStep' = InStep
<1>1. \A d \in Ends : io'[d].socket = io[d].socket
  BY TwoEnds DEF PeerRests
<1>2. InStep' = InStep
  BY <1>1 DEF InStep
<1>3. io["client"].writing # << >> => /\ io'["client"].writing # << >>
                                      /\ Head(io'["client"].writing) = Head(io["client"].writing)
  BY DEF Ends, Peer, PeerRests
<1>4. SynOk'
  BY <1>1, <1>3 DEF SynOk, Ends
<1>. QED  BY <1>2, <1>4

\* The server does nothing.
LEMMA ValidOther ==
    ASSUME ValidOk, PeerRests("client"), validated' = validated, opening' = opening,
           qIn'["server"] = qIn["server"]
    PROVE  ValidOk'
<1>1. io'["server"] = io["server"] /\ "server" \in Ends
  BY DEF PeerRests, Peer, Ends
<1>2. Reader("server")' = Reader("server")
  BY <1>1, SameEnd
<1>. QED  BY <1>1, <1>2 DEF ValidOk, ReaderOp

\* A handler of the reader keeps the socket, and writes nothing.
LEMMA ReaderStep ==
    ASSUME Inv, CountInv', TypedToo', NEW e \in Ends, PeerRests(e),
           io'[e].socket = io[e].socket, io'[e].writing = io[e].writing,
           Writer(e)' = Writer(e), Posts(e)' = Posts(e), Queued(e)',
           UNCHANGED <<link, wire, qOut, handshakeIn, sent, opening>>,
           tmpIn'[Peer(e)] = tmpIn[Peer(e)], qIn'[Peer(e)] = qIn[Peer(e)],
           ReadPlace(e)' = ReadPlace(e), EarlyOk(e)', TmpOk(e)', ValidOk',
           e = "client" /\ opening = Hello("client") => ReaderOp(e)' \in {"none", "writeValidation", "readHeader", "readBody"},
           Reader(e)' # <<"writing", "writeValidation">>
    PROVE  Inv'
<1>1. /\ CountInv /\ OpeningOk /\ SynOk /\ QueueOk(e) /\ WritesOk(e) /\ GreetOk(e) /\ Queued(e)
  BY InvEnds
<1>2. Taken(e)' = Taken(e)
  BY DEF Taken
<1>3. QueueOk(e)' /\ Out(e)' = Out(e)
  BY <1>1, <1>2, QueueKept
<1>4. Greeted(e)' = Greeted(e) /\ WritePlace(e)' = WritePlace(e)
  BY <1>3, PlacesKept
<1>5. WritesOk(e)'
  BY <1>1, WritesKept
<1>6. SynOk' /\ InStep' = InStep
  BY <1>1, SocketKept
<1>7. GreetOk(e)'
  BY <1>1, <1>3, <1>4, <1>6, GreetKept
<1>8. OpeningOk'
  <2>1. CASE e = "client"
    BY <1>1, <2>1, OpeningKept
  <2>2. CASE e = "server"
    <3>1. "client" \in Ends /\ io'["client"] = io["client"]
      BY <2>2 DEF PeerRests, Peer, Ends
    <3>2. Reader("client")' = Reader("client") /\ ReaderOp("client")' = ReaderOp("client")
      BY <3>1, SameEnd DEF ReaderOp
    <3>. QED  BY <1>1, <3>2, OpeningKept DEF OpeningOk
  <2>. QED  BY <2>1, <2>2 DEF Ends
<1>. QED  BY <1>3, <1>4, <1>5, <1>6, <1>7, <1>8, LocalStep

\* Only the client connects.
LEMMA ConnectClient ==
    ASSUME CountInv, NEW e \in Ends, Due(e, "connect")
    PROVE  e = "client"
<1>1. "connect" \in AllOps
  BY DEF AllOps
<1>2. Has(io[e], <<DueStage(e), "connect">>) /\ DueStage(e) \in Stages /\ io[e] \in IoRecord /\ EndOk(e)
  BY <1>1, DueToken, EndTyped
<1>. DEFINE t == <<DueStage(e), "connect">>
<1>3. {t} \subseteq Of({"connect"})
  BY <1>2 DEF Of
<1>. HIDE DEF t
<1>4. Cnt(io[e], {t}) <= Cnt(io[e], Of({"connect"})) /\ Cnt(io[e], {t}) \in Nat
      /\ Cnt(io[e], Of({"connect"})) \in Nat /\ Cnt(io[e], {t}) # 0
  BY <1>2, <1>3, CntPart, CntNat DEF Has, t
<1>. QED  BY <1>2, <1>4 DEF EndOk, ConnectOk, Ends

\* async_connect's handler (p2d.hpp:331-337)
LEMMA KeepsConnected ==
    ASSUME Inv, CountInv', NEW e \in Ends, Connected(e)
    PROVE  Inv'
<1>1. /\ CountInv /\ TypedToo /\ OpeningOk /\ ValidOk /\ EarlyOk(e) /\ TmpOk(e) /\ Queued(e)
  BY InvEnds
<1>2. /\ Due(e, "connect") /\ UNCHANGED <<link, wire, qOut, handshakeIn, tmpIn, qIn, validated, sent, opening, breaks>>
      /\ Continue(e, IF ok(e) THEN async_read(rest(e), "readValidation") ELSE rest(e))
  BY DEF Connected
<1>3. e = "client" /\ "connect" \in ReadChain(e) /\ "connect" \in AllOps /\ "readValidation" \in ReadOps
      /\ "connect" \notin DataOps
  BY <1>1, <1>2, ConnectClient, ChainOps DEF ReadOps, AllOps, DataOps
<1>4. io[e].socket # "none"
  BY <1>1, <1>2, DueSocket DEF Due
<1>5. /\ PeerRests(e) /\ io'[e].socket = io[e].socket /\ io'[e].writing = io[e].writing
      /\ Reader(e) = <<DueStage(e), "connect">>
      /\ Reader(e)' \in {<<"reading", "readValidation">>, <<"failed", "readValidation">>, NoToken}
      /\ Writer(e)' = Writer(e) /\ Posts(e)' = Posts(e) /\ Queued(e)'
  <2>1. CASE ok(e)
    <3>1. Continue(e, async_read(rest(e), "readValidation"))
      BY <1>2, <2>1
    <3>. QED  BY <1>1, <1>2, <1>3, <3>1, DoRead DEF Begun
  <2>2. CASE ~ok(e)
    <3>1. Continue(e, rest(e))
      BY <1>2, <2>2
    <3>. QED  BY <1>1, <1>2, <1>3, <3>1, DoNothing
  <2>. QED  BY <2>1, <2>2
<1>6. handshakeIn[e] = NoUnit /\ qIn[e] = << >>
  BY <1>1, <1>5 DEF EarlyOk, ReaderOp
<1>7. ReadPlace(e)' = ReadPlace(e)
  BY <1>2, <1>6 DEF ReadPlace
<1>8. EarlyOk(e)'
  BY <1>2, <1>5, <1>6 DEF EarlyOk, ReaderOp, NoToken
<1>9. TmpOk(e)'
  <2>1. tmpIn[e].body = BodyOf(sent[Peer(e)], Len(qIn[e])) /\ Len(qIn[e]) <= Len(sent[Peer(e)])
    BY <1>1, <1>5 DEF TmpOk, ReaderOp
  <2>. QED  BY <1>2, <1>5, <2>1 DEF TmpOk, ReaderOp, NoToken
<1>10. ValidOk'
  BY <1>1, <1>2, <1>3, <1>5, ValidOther
<1>11. opening # Hello("client")
  BY <1>1, <1>3, <1>5 DEF OpeningOk, ReaderOp
<1>12. TypedToo'
  BY <1>1, <1>2, TypesKept DEF TypedToo
<1>13. Reader(e)' # <<"writing", "writeValidation">>
  BY <1>5 DEF NoToken
<1>. QED  BY <1>2, <1>5, <1>7, <1>8, <1>9, <1>10, <1>11, <1>12, <1>13, ReaderStep

\* The server compares the answer (p2d.hpp:500-505).
LEMMA KeepsAdmitted ==
    ASSUME Inv, CountInv', NEW e \in Ends, Due(e, "readValidation"), ok(e), e = "server",
           handshakeIn[e] = Handshake(scramble(Challenge)), validated' = TRUE,
           Continue(e, async_read(rest(e), "readHeader")),
           UNCHANGED <<link, wire, qOut, handshakeIn, tmpIn, qIn, sent, opening, breaks>>
    PROVE  Inv'
<1>1. /\ CountInv /\ TypedToo /\ OpeningOk /\ ValidOk /\ EarlyOk(e) /\ TmpOk(e) /\ Queued(e)
  BY InvEnds
<1>2. "readValidation" \in ReadChain(e) /\ "readHeader" \in ReadOps
  BY ChainOps DEF ReadOps
<1>3. io[e].socket # "none"
  BY <1>1, DueSocket DEF Due
<1>4. /\ PeerRests(e) /\ io'[e].socket = io[e].socket /\ io'[e].writing = io[e].writing
      /\ Reader(e) = <<"ok", "readValidation">>
      /\ Reader(e)' \in {<<"reading", "readHeader">>, <<"failed", "readHeader">>}
      /\ Writer(e)' = Writer(e) /\ Posts(e)' = Posts(e) /\ Queued(e)'
  BY <1>1, <1>2, DoRead DEF Begun, DueStage
<1>5. handshakeIn[e] = Hello("client") /\ handshakeIn[e] # NoUnit
  BY UnitKinds DEF Hello
<1>6. opening = Hello("client")
  BY <1>1, <1>5 DEF OpeningOk
<1>7. ReadPlace(e)' = ReadPlace(e)
  BY <1>4, <1>5 DEF ReadPlace, ReaderOp
<1>8. EarlyOk(e)'
  BY <1>3, <1>4, <1>5 DEF EarlyOk, ReaderOp
<1>9. TmpOk(e)'
  <2>1. tmpIn[e].body = BodyOf(sent[Peer(e)], Len(qIn[e])) /\ Len(qIn[e]) <= Len(sent[Peer(e)])
    BY <1>1, <1>4 DEF TmpOk, ReaderOp
  <2>. QED  BY <1>4, <2>1 DEF TmpOk, ReaderOp
<1>10. ValidOk'
  BY <1>3, <1>4, <1>6 DEF ValidOk, ReaderOp
<1>11. TypedToo'
  BY <1>1 DEF TypedToo
<1>12. Reader(e)' # <<"writing", "writeValidation">>
  BY <1>4
<1>. QED  BY <1>4, <1>7, <1>8, <1>9, <1>10, <1>11, <1>12, ReaderStep

\* The client answers (p2d.hpp:514-515).
LEMMA KeepsAnswered ==
    ASSUME Inv, CountInv', NEW e \in Ends, Due(e, "readValidation"), ok(e), e = "client",
           Continue(e, async_write(rest(e), "writeValidation", Handshake(scramble(handshakeIn[e].word)))),
           UNCHANGED <<link, wire, qOut, handshakeIn, tmpIn, qIn, validated, sent, opening, breaks>>
    PROVE  Inv'
<1>1. /\ CountInv /\ TypedToo /\ OpeningOk /\ ValidOk /\ SynOk /\ QueueOk(e) /\ WritesOk(e) /\ GreetOk(e)
      /\ EarlyOk(e) /\ TmpOk(e) /\ Queued(e)
  BY InvEnds
<1>. DEFINE u == Handshake(scramble(handshakeIn[e].word))
            w == [op |-> "writeValidation", unit |-> u]
<1>2. /\ "readValidation" \in ReadChain(e) /\ "writeValidation" \in ReadChain(e) /\ "writeValidation" \in WriteOps
      /\ "readValidation" \in AllOps /\ "readValidation" \notin DataOps /\ "writeValidation" \notin DataOps
  BY ChainOps DEF ReadOps, WriteOps, AllOps, DataOps
<1>3. io[e].socket # "none"
  BY <1>1, DueSocket DEF Due
<1>4. u \in AnyUnit
  BY DEF AnyUnit, Units, Words, scramble, Handshake
<1>. HIDE DEF u
<1>5. /\ PeerRests(e) /\ io'[e].socket = io[e].socket
      /\ io'[e].writing = IF io[e].socket = "open" THEN Append(io[e].writing, w) ELSE io[e].writing
      /\ Reader(e) = <<DueStage(e), "readValidation">>
      /\ Reader(e)' = <<Begun(e, "writing"), "writeValidation">>
      /\ Writer(e)' = Writer(e) /\ Posts(e)' = Posts(e) /\ Queued(e)'
  BY <1>1, <1>2, <1>4, DoWrite DEF u
<1>6. Reader(e) = <<"ok", "readValidation">>
      /\ Reader(e)' \in {<<"writing", "writeValidation">>, <<"failed", "writeValidation">>}
  BY <1>5 DEF DueStage, Begun
<1>7. handshakeIn[e] # NoUnit
  BY <1>1, <1>6 DEF EarlyOk
<1>8. u = Hello("client")
  <2>1. handshakeIn[e] = Handshake(Challenge)
    BY <1>1, <1>7 DEF OpeningOk, Hello
  <2>2. handshakeIn[e].word = Challenge
    BY <2>1 DEF Handshake
  <2>. QED  BY <2>2 DEF u, Hello
<1>9. Taken(e)' = Taken(e)
  BY <1>5 DEF Taken
<1>10. QueueOk(e)' /\ Out(e)' = Out(e)
  BY <1>1, <1>5, <1>9, QueueKept
<1>11. Greeted(e)' = Greeted(e) /\ WritePlace(e)' = WritePlace(e)
  <2>1. Greeted(e)' = Greeted(e)
    BY DEF Greeted
  <2>. QED  BY <1>5, <1>10, <2>1, PlacesKept
<1>12. io[e].writing \in Seq(AnyWrites) /\ w \in AnyWrites
  BY <1>1, <1>2, <1>4, EndTyped DEF AnyWrites
<1>13. WritesOk(e)'
  <2>1. ASSUME NEW i \in DOMAIN io'[e].writing
        PROVE  io'[e].writing[i].unit = Carries(e, io'[e].writing[i].op)
    <3>1. CASE io'[e].writing = io[e].writing
      BY <1>1, <2>1, <3>1 DEF WritesOk
    <3>2. CASE io'[e].writing = Append(io[e].writing, w)
      <4>1. CASE i \in DOMAIN io[e].writing
        <5>1. io'[e].writing[i] = io[e].writing[i]
          BY <1>12, <3>2, <4>1
        <5>. QED  BY <1>1, <4>1, <5>1 DEF WritesOk
      <4>2. CASE i \notin DOMAIN io[e].writing
        <5>1. io'[e].writing[i] = w
          BY <1>12, <2>1, <3>2, <4>2
        <5>. QED  BY <1>8, <5>1 DEF Carries
      <4>. QED  BY <4>1, <4>2
    <3>. QED  BY <1>5, <3>1, <3>2
  <2>2. \A op : Carries(e, op)' = Carries(e, op)
    BY DEF Carries
  <2>. QED  BY <1>1, <1>5, <2>1, <2>2 DEF WritesOk
<1>14. SynOk' /\ InStep' = InStep
  <2>1. io[e].writing # << >> => io'[e].writing # << >> /\ Head(io'[e].writing) = Head(io[e].writing)
    BY <1>5, <1>12
  <2>. QED  BY <1>1, <1>5, <2>1, SocketKept
<1>15. GreetOk(e)'
  BY <1>1, <1>5, <1>10, <1>11, <1>14, GreetKept
<1>16. ReadPlace(e)' = ReadPlace(e)
  BY <1>6, <1>7 DEF ReadPlace, ReaderOp
<1>17. EarlyOk(e)'
  BY <1>3, <1>5, <1>6, <1>7 DEF EarlyOk, ReaderOp
<1>18. TmpOk(e)'
  <2>1. tmpIn[e].body = BodyOf(sent[Peer(e)], Len(qIn[e])) /\ Len(qIn[e]) <= Len(sent[Peer(e)])
    BY <1>1, <1>6 DEF TmpOk, ReaderOp
  <2>. QED  BY <1>6, <2>1 DEF TmpOk, ReaderOp
<1>19. OpeningOk'
  <2>1. opening # Hello("client")
    BY <1>1, <1>6 DEF OpeningOk, ReaderOp
  <2>. QED  BY <1>1, <2>1, OpeningKept
<1>20. ValidOk'
  BY <1>1, <1>5, ValidOther
<1>21. TypedToo'
  BY <1>1, TypesKept DEF TypedToo
<1>. QED  BY <1>5, <1>10, <1>11, <1>13, <1>14, <1>15, <1>16, <1>17, <1>18, <1>19, <1>20, <1>21, LocalStep

\* The handler of readValidation
LEMMA KeepsValidationRead ==
    ASSUME Inv, CountInv', NEW e \in Ends, ValidationRead(e)
    PROVE  Inv'
<1>1. Due(e, "readValidation") /\ "readValidation" \in AllOps \cup {"close"}
      /\ UNCHANGED <<link, wire, qOut, handshakeIn, tmpIn, qIn, sent, opening, breaks>>
  BY DEF ValidationRead, AllOps, ReadOps
<1>2. CASE /\ ok(e) /\ e = "server" /\ handshakeIn[e] = Handshake(scramble(Challenge))
           /\ validated' = TRUE
           /\ Continue(e, async_read(rest(e), "readHeader"))
  BY <1>1, <1>2, KeepsAdmitted
<1>3. CASE /\ ok(e) /\ e = "client"
           /\ Continue(e, async_write(rest(e), "writeValidation",
                                      Handshake(scramble(handshakeIn[e].word))))
           /\ UNCHANGED validated
  BY <1>1, <1>3, KeepsAnswered
<1>4. CASE Failed(e) /\ UNCHANGED validated
  BY <1>1, <1>4, ClosesStep DEF Failed
<1>. QED  BY <1>2, <1>3, <1>4 DEF ValidationRead

\* The handler of writeValidation: the client goes on to read headers (p2d.hpp:478-484).
LEMMA KeepsValidationWritten ==
    ASSUME Inv, CountInv', NEW e \in Ends, ValidationWritten(e)
    PROVE  Inv'
<1>1. /\ CountInv /\ TypedToo /\ OpeningOk /\ ValidOk /\ EarlyOk(e) /\ TmpOk(e) /\ Queued(e)
  BY InvEnds
<1>2. /\ Due(e, "writeValidation") /\ "writeValidation" \in AllOps \cup {"close"}
      /\ UNCHANGED <<link, wire, qOut, handshakeIn, tmpIn, qIn, validated, sent, opening, breaks>>
  BY DEF ValidationWritten, AllOps, WriteOps
<1>3. CASE Failed(e)
  BY <1>2, <1>3, ClosesStep DEF Failed
<1>4. CASE ok(e) /\ e = "client" /\ Continue(e, async_read(rest(e), "readHeader"))
  <2>1. "writeValidation" \in ReadChain(e) /\ "readHeader" \in ReadOps
    BY <1>4, ChainOps DEF ReadOps
  <2>2. io[e].socket # "none"
    BY <1>1, <1>2, DueSocket DEF Due
  <2>3. /\ PeerRests(e) /\ io'[e].socket = io[e].socket /\ io'[e].writing = io[e].writing
        /\ Reader(e) = <<"ok", "writeValidation">>
        /\ Reader(e)' \in {<<"reading", "readHeader">>, <<"failed", "readHeader">>}
        /\ Writer(e)' = Writer(e) /\ Posts(e)' = Posts(e) /\ Queued(e)'
    BY <1>1, <1>2, <1>4, <2>1, DoRead DEF Begun, DueStage
  <2>4. handshakeIn[e] # NoUnit
    BY <1>1, <2>3 DEF EarlyOk, ReaderOp
  <2>5. ReadPlace(e)' = ReadPlace(e)
    BY <1>2, <2>3, <2>4 DEF ReadPlace, ReaderOp
  <2>6. EarlyOk(e)'
    BY <1>2, <2>2, <2>3, <2>4 DEF EarlyOk, ReaderOp
  <2>7. TmpOk(e)'
    <3>1. tmpIn[e].body = BodyOf(sent[Peer(e)], Len(qIn[e])) /\ Len(qIn[e]) <= Len(sent[Peer(e)])
      BY <1>1, <2>3 DEF TmpOk, ReaderOp
    <3>. QED  BY <1>2, <2>3, <3>1 DEF TmpOk, ReaderOp
  <2>8. ValidOk'
    BY <1>1, <1>2, <1>4, <2>3, ValidOther
  <2>9. TypedToo'
    BY <1>1, <1>2, TypesKept DEF TypedToo
  <2>10. Reader(e)' # <<"writing", "writeValidation">>
         /\ ReaderOp(e)' \in {"none", "writeValidation", "readHeader", "readBody"}
    BY <2>3 DEF ReaderOp
  <2>. QED  BY <1>2, <2>3, <2>5, <2>6, <2>7, <2>8, <2>9, <2>10, ReaderStep
<1>5. CASE ok(e) /\ e = "server" /\ Continue(e, rest(e))
  <2>1. "writeValidation" \notin ReadChain(e) /\ "writeValidation" \notin DataOps /\ "writeValidation" \in AllOps
    BY <1>5, ChainOps DEF DataOps, AllOps, WriteOps
  <2>2. io[e].socket # "none"
    BY <1>1, <1>2, DueSocket DEF Due
  <2>3. /\ PeerRests(e) /\ io'[e].socket = io[e].socket /\ io'[e].writing = io[e].writing
        /\ Reader(e)' = Reader(e)
        /\ Writer(e)' = Writer(e) /\ Posts(e)' = Posts(e) /\ Queued(e)'
    BY <1>1, <1>2, <1>5, <2>1, DoNothing
  <2>4. ReadPlace(e)' = ReadPlace(e)
    BY <1>2, <2>3, PlacesKept
  <2>5. EarlyOk(e)'
    BY <1>1, <1>2, <2>3, EarlyKept
  <2>6. TmpOk(e)'
    BY <1>1, <1>2, <2>3, TmpKept
  <2>7. ValidOk'
    BY <1>1, <1>2, <1>5, <2>3 DEF ValidOk, ReaderOp
  <2>8. TypedToo'
    BY <1>1, <1>2, TypesKept DEF TypedToo
  <2>9. Reader(e)' # <<"writing", "writeValidation">>
    <3>1. "writeValidation" \notin ReadChain(e)
      BY <2>1
    <3>2. Reader(e) # NoToken => Reader(e) \in Of(ReadChain(e))
      BY <1>1, EndTyped, OnlyHas DEF Reader, Only
    <3>. QED  BY <2>3, <3>1, <3>2 DEF Of, NoToken
  <2>. QED  BY <1>2, <1>5, <2>3, <2>4, <2>5, <2>6, <2>7, <2>8, <2>9, ReaderStep
<1>. QED  BY <1>3, <1>4, <1>5 DEF ValidationWritten, Ends

\* resize() leaves a body of bytes, and an empty one when it is to be empty.
LEMMA ResizeBody ==
    ASSUME NEW b \in Seq(Byte), NEW n \in Nat
    PROVE  resize(b, n) \in Seq(Byte) /\ resize(b, 0) = << >>
<1>1. SubSeq(b, 1, 0) = << >>
  OBVIOUS
<1>2. n <= Len(b) => SubSeq(b, 1, n) \in Seq(Byte)
  OBVIOUS
<1>. QED  BY <1>1, <1>2 DEF resize

\* The message that e is about to push, and the one after it
LEMMA PushedTypes ==
    ASSUME TypedToo, NEW e \in Ends, NEW m \in Messages, tmpIn[e].header = Header(m),
           qIn' = [qIn EXCEPT ![e] = Append(@, [id   |-> tmpIn[e].header.id,
                                                size |-> tmpIn[e].header.size,
                                                body |-> tmpIn[e].body])],
           UNCHANGED <<wire, handshakeIn, tmpIn, validated, breaks>>
    PROVE  /\ TypedToo' /\ qIn'[Peer(e)] = qIn[Peer(e)]
           /\ Len(qIn[e]) \in Nat /\ Len(qIn'[e]) = Len(qIn[e]) + 1 /\ qIn'[e] # << >>
           /\ qIn'[e] = Append(qIn[e], [id |-> m.id, size |-> m.size, body |-> tmpIn[e].body])
<1>. DEFINE a == [id |-> m.id, size |-> m.size, body |-> tmpIn[e].body]
<1>1. tmpIn[e].header.id = m.id /\ tmpIn[e].header.size = m.size
  BY UnitKinds
<1>2. a \in Arrivals
  <2>1. tmpIn[e].body \in Seq(Byte)
    BY DEF TypedToo
  <2>. QED  BY <2>1 DEF Arrivals
<1>3. qIn' = [qIn EXCEPT ![e] = Append(@, a)] /\ qIn[e] \in Seq(Arrivals) /\ qIn \in [Ends -> Seq(Arrivals)]
  BY <1>1 DEF TypedToo
<1>. HIDE DEF a
<1>4. qIn'[e] = Append(qIn[e], a) /\ qIn' \in [Ends -> Seq(Arrivals)]
  BY <1>2, <1>3
<1>5. Len(qIn[e]) \in Nat /\ Len(qIn'[e]) = Len(qIn[e]) + 1 /\ qIn'[e] # << >>
  BY <1>2, <1>3, <1>4
<1>6. qIn'[Peer(e)] = qIn[Peer(e)]
  BY <1>3, TwoEnds
<1>7. TypedToo'
  BY <1>4 DEF TypedToo
<1>. QED  BY <1>4, <1>5, <1>6, <1>7 DEF a

\* A message that has been read to its end: m_msgTemporaryIn holds the next of those that
\* were sent, with the body it is delivered with.
LEMMA NextArrival ==
    ASSUME Inv, NEW e \in Ends, NEW h \in {"readHeader", "readBody"}, Reader(e) = <<"ok", h>>,
           h = "readHeader" => tmpIn[e].header.size = 0
    PROVE  LET s == sent[Peer(e)]
               n == Len(qIn[e])
               m == s[n + 1]
           IN  /\ n + 1 <= Len(s) /\ tmpIn[e].header = Header(m) /\ handshakeIn[e] # NoUnit /\ n \in Nat
               /\ s \in Seq(Messages) /\ m \in Messages /\ tmpIn[e].header.size = m.size
               /\ n + 1 \in 1 .. Len(s) /\ n \in 0 .. Len(s) /\ Len(s) \in Nat
               /\ tmpIn[e].body = BodyOf(s, n + 1)
<1>. DEFINE s == sent[Peer(e)]
            n == Len(qIn[e])
            m == s[n + 1]
<1>1. CountInv /\ TypedToo /\ EarlyOk(e) /\ TmpOk(e)
  BY InvEnds
<1>2. n + 1 <= Len(s) /\ tmpIn[e].header = Header(m) /\ handshakeIn[e] # NoUnit /\ n \in Nat
      /\ s \in Seq(Messages)
  BY <1>1, TwoEnds, EndTyped DEF TmpOk, EarlyOk, ReaderOp, TypedToo
<1>3. m \in Messages /\ tmpIn[e].header.size = m.size /\ n + 1 \in 1 .. Len(s) /\ n \in 0 .. Len(s)
      /\ Len(s) \in Nat
  BY <1>2, UnitKinds
<1>4. tmpIn[e].body = BodyOf(s, n + 1)
  <2>1. BodyOf(s, n + 1) = IF m.size = 0 THEN BodyOf(s, (n + 1) - 1) ELSE m.body
    BY <1>2, <1>3, BodySteps
  <2>2. (n + 1) - 1 = n
    BY <1>2
  <2>3. CASE h = "readHeader"
    <3>1. tmpIn[e].body = BodyOf(s, n)
      BY <1>1, <2>3 DEF TmpOk, ReaderOp
    <3>. QED  BY <1>3, <2>1, <2>2, <2>3, <3>1
  <2>4. CASE h = "readBody"
    <3>1. tmpIn[e].body = m.body /\ m.size > 0
      BY <1>1, <2>4 DEF TmpOk, ReaderOp
    <3>2. m.size \in Nat
      BY <1>3, MessageSize
    <3>. QED  BY <2>1, <3>1, <3>2
  <2>. QED  BY <2>3, <2>4
<1>. QED  BY <1>2, <1>3, <1>4

\* addToIncomingMessageQueue (p2d.hpp:461-467): the message is complete, and the next
\* header is read.
LEMMA KeepsPushed ==
    ASSUME Inv, CountInv', NEW e \in Ends, NEW h \in {"readHeader", "readBody"}, Due(e, h), ok(e),
           addToIncoming(e), h = "readHeader" => tmpIn[e].header.size = 0,
           UNCHANGED <<link, wire, qOut, handshakeIn, tmpIn, validated, sent, opening, breaks>>
    PROVE  Inv'
<1>1. /\ CountInv /\ TypedToo /\ OpeningOk /\ ValidOk /\ EarlyOk(e) /\ TmpOk(e) /\ Queued(e)
  BY InvEnds
<1>. DEFINE s == sent[Peer(e)]
            n == Len(qIn[e])
            m == s[n + 1]
<1>2. h \in ReadChain(e) /\ "readHeader" \in ReadOps
  BY ChainOps DEF ReadOps
<1>3. io[e].socket # "none"
  BY <1>1, DueSocket DEF Due
<1>4. /\ PeerRests(e) /\ io'[e].socket = io[e].socket /\ io'[e].writing = io[e].writing
      /\ Reader(e) = <<"ok", h>>
      /\ Reader(e)' \in {<<"reading", "readHeader">>, <<"failed", "readHeader">>}
      /\ Writer(e)' = Writer(e) /\ Posts(e)' = Posts(e) /\ Queued(e)'
  BY <1>1, <1>2, DoRead DEF Begun, DueStage, addToIncoming
<1>5. n + 1 <= Len(s) /\ tmpIn[e].header = Header(m) /\ handshakeIn[e] # NoUnit /\ n \in Nat
      /\ s \in Seq(Messages)
  BY <1>4, NextArrival
<1>6. m \in Messages /\ tmpIn[e].header.size = m.size /\ n + 1 \in 1 .. Len(s) /\ n \in 0 .. Len(s)
      /\ Len(s) \in Nat
  BY <1>4, <1>5, NextArrival
<1>7. /\ TypedToo' /\ qIn'[Peer(e)] = qIn[Peer(e)] /\ Len(qIn'[e]) = n + 1 /\ qIn'[e] # << >>
  BY <1>1, <1>5, <1>6, PushedTypes DEF addToIncoming
<1>8. tmpIn[e].body = BodyOf(s, n + 1)
  BY <1>4, NextArrival
<1>. HIDE DEF s, n, m
<1>9. ReadPlace(e)' = ReadPlace(e)
  <2>1. ReadPlace(e)' = <<(n + 1) + 1, "header">>
    BY <1>4, <1>5, <1>7 DEF ReadPlace, ReaderOp
  <2>2. ReadPlace(e) = <<n + 2, "header">>
    BY <1>4, <1>5, <1>6 DEF ReadPlace, ReaderOp, HeaderSize, n
  <2>. QED  BY <1>5, <2>1, <2>2
<1>10. EarlyOk(e)'
  BY <1>3, <1>4, <1>5 DEF EarlyOk, ReaderOp
<1>11. TmpOk(e)'
  <2>1. sent'[Peer(e)] = s
    BY DEF s
  <2>. QED  BY <1>4, <1>5, <1>7, <1>8, <2>1 DEF TmpOk, ReaderOp
<1>12. ValidOk'
  <2>1. CASE e = "client"
    BY <1>1, <1>4, <1>7, <2>1, ValidOther DEF Peer
  <2>2. CASE e = "server"
    BY <1>1, <1>3, <1>4, <2>2 DEF ValidOk, ReaderOp
  <2>. QED  BY <2>1, <2>2 DEF Ends
<1>13. Reader(e)' # <<"writing", "writeValidation">>
       /\ ReaderOp(e)' \in {"none", "writeValidation", "readHeader", "readBody"}
  BY <1>4 DEF ReaderOp
<1>. QED  BY <1>4, <1>7, <1>9, <1>10, <1>11, <1>12, <1>13, ReaderStep

\* The handler of readHeader for a message that was filled (p2d.hpp:380-384)
LEMMA KeepsResized ==
    ASSUME Inv, CountInv', NEW e \in Ends, Due(e, "readHeader"), ok(e), tmpIn[e].header.size > 0,
           tmpIn' = [tmpIn EXCEPT ![e].body = resize(@, tmpIn[e].header.size - HeaderSize)],
           Continue(e, IF tmpIn[e].header.size - HeaderSize = 0 THEN post(rest(e), Done("readBody", TRUE))
                                                                ELSE async_read(rest(e), "readBody")),
           UNCHANGED <<link, wire, qOut, qIn, handshakeIn, validated, sent, opening, breaks>>
    PROVE  Inv'
<1>1. /\ CountInv /\ TypedToo /\ OpeningOk /\ ValidOk /\ EarlyOk(e) /\ TmpOk(e) /\ Queued(e)
  BY InvEnds
<1>. DEFINE s == sent[Peer(e)]
            n == Len(qIn[e])
            m == s[n + 1]
            b == resize(tmpIn[e].body, m.size - HeaderSize)
<1>2. "readHeader" \in ReadChain(e) /\ "readBody" \in ReadOps
  BY ChainOps DEF ReadOps
<1>3. io[e].socket # "none"
  BY <1>1, DueSocket DEF Due
<1>4. /\ PeerRests(e) /\ io'[e].socket = io[e].socket /\ io'[e].writing = io[e].writing
      /\ Reader(e) = <<"ok", "readHeader">>
      /\ tmpIn[e].header.size - HeaderSize = 0 => Reader(e)' = <<"ok", "readBody">>
      /\ tmpIn[e].header.size - HeaderSize # 0 =>
            Reader(e)' \in {<<"reading", "readBody">>, <<"failed", "readBody">>}
      /\ Writer(e)' = Writer(e) /\ Posts(e)' = Posts(e) /\ Queued(e)'
  <2>1. CASE tmpIn[e].header.size - HeaderSize = 0
    <3>1. Continue(e, post(rest(e), Done("readBody", TRUE)))
      BY <2>1
    <3>. QED  BY <1>1, <2>1, <3>1, DoNoBody DEF DueStage
  <2>2. CASE tmpIn[e].header.size - HeaderSize # 0
    <3>1. Continue(e, async_read(rest(e), "readBody"))
      BY <2>2
    <3>. QED  BY <1>1, <1>2, <2>2, <3>1, DoRead DEF Begun, DueStage
  <2>. QED  BY <2>1, <2>2
<1>5. n + 1 <= Len(s) /\ tmpIn[e].header = Header(m) /\ handshakeIn[e] # NoUnit /\ n \in Nat
      /\ s \in Seq(Messages)
  BY <1>1, <1>4, TwoEnds, EndTyped DEF TmpOk, EarlyOk, ReaderOp, TypedToo
<1>6. m \in Messages /\ tmpIn[e].header.size = m.size /\ Len(s) \in Nat
  BY <1>5, UnitKinds
<1>7. /\ m.size \in Nat /\ m.size > 0 /\ m.size >= HeaderSize /\ m.size - HeaderSize \in Nat
      /\ m.body = << >> <=> m.size <= HeaderSize
      /\ m.size = HeaderSize => m.body = << >>
  BY <1>6, MessageSize DEF HeaderSize
<1>8. /\ tmpIn'[e].header = tmpIn[e].header /\ tmpIn'[e].body = b
      /\ tmpIn'[Peer(e)] = tmpIn[Peer(e)] /\ TypedToo'
  <2>. DEFINE T == [header : Headers \cup {NoUnit}, body : Seq(Byte)]
  <2>1. tmpIn \in [Ends -> T] /\ tmpIn[e] \in T
    BY <1>1 DEF TypedToo
  <2>2. tmpIn[e].body \in Seq(Byte)
    BY <2>1
  <2>3. b \in Seq(Byte)
    BY <1>7, <2>2, ResizeBody
  <2>4. tmpIn' = [tmpIn EXCEPT ![e].body = b]
    BY <1>6
  <2>. HIDE DEF b, m, n, s
  <2>5. tmpIn'[e] = [header |-> tmpIn[e].header, body |-> b]
    BY <2>1, <2>4
  <2>6. tmpIn'[e] \in T
    BY <2>1, <2>3, <2>5
  <2>7. tmpIn'[Peer(e)] = tmpIn[Peer(e)] /\ tmpIn' \in [Ends -> T]
    <3>1. tmpIn' = [tmpIn EXCEPT ![e] = tmpIn'[e]]
      BY <2>1, <2>4
    <3>. HIDE DEF T
    <3>. QED  BY <2>1, <2>6, <3>1, TwoEnds
  <2>8. TypedToo'
    BY <1>1, <2>7 DEF TypedToo
  <2>. QED  BY <2>5, <2>7, <2>8
<1>9. m.size = HeaderSize => b = << >>
  <2>1. tmpIn[e].body \in Seq(Byte)
    BY <1>1 DEF TypedToo
  <2>2. resize(tmpIn[e].body, 0) = << >>
    BY <2>1, ResizeBody
  <2>. QED  BY <2>2 DEF HeaderSize
<1>. HIDE DEF s, n, m, b
<1>10. ReadPlace(e)' = ReadPlace(e)
  <2>1. CASE m.size = HeaderSize
    <3>1. Reader(e)' = <<"ok", "readBody">> /\ m.size <= HeaderSize
      BY <1>4, <1>6, <1>7, <2>1 DEF HeaderSize
    <3>2. ReadPlace(e)' = <<n + 2, "header">>
      BY <1>5, <3>1 DEF ReadPlace, n
    <3>3. ReadPlace(e) = <<n + 2, "header">>
      BY <1>4, <1>5, <1>6, <3>1 DEF ReadPlace, n
    <3>. QED  BY <3>2, <3>3
  <2>2. CASE m.size # HeaderSize
    <3>1. ~(m.size <= HeaderSize) /\ m.size - HeaderSize # 0
      BY <1>7, <2>2 DEF HeaderSize
    <3>2. Reader(e)' \in {<<"reading", "readBody">>, <<"failed", "readBody">>}
      BY <1>4, <1>6, <3>1
    <3>3. ReadPlace(e)' = <<n + 1, "body">>
      BY <1>5, <3>2 DEF ReadPlace, ReaderOp, n
    <3>4. ReadPlace(e) = <<n + 1, "body">>
      BY <1>4, <1>5, <1>6, <3>1 DEF ReadPlace, n
    <3>. QED  BY <3>3, <3>4
  <2>. QED  BY <2>1, <2>2
<1>11. Reader(e)' \in {<<"ok", "readBody">>, <<"reading", "readBody">>, <<"failed", "readBody">>}
  BY <1>4
<1>12. EarlyOk(e)'
  BY <1>3, <1>4, <1>5, <1>11 DEF EarlyOk, ReaderOp
<1>13. TmpOk(e)'
  <2>1. sent'[Peer(e)] = s /\ Len(qIn'[e]) = n /\ n <= Len(s) /\ s[n + 1] = m
    BY <1>5, <1>6 DEF s, n, m
  <2>2. Reader(e)' = <<"ok", "readBody">> => b = m.body
    <3>1. m.size - HeaderSize # 0 => Reader(e)' # <<"ok", "readBody">>
      BY <1>4, <1>6
    <3>2. m.size - HeaderSize = 0 => m.size = HeaderSize
      BY <1>7 DEF HeaderSize
    <3>. QED  BY <1>7, <1>9, <3>1, <3>2
  <2>. QED  BY <1>3, <1>4, <1>5, <1>6, <1>7, <1>8, <1>11, <2>1, <2>2 DEF TmpOk, ReaderOp
<1>14. ValidOk'
  <2>1. CASE e = "client"
    BY <1>1, <1>4, <2>1, ValidOther
  <2>2. CASE e = "server"
    BY <1>1, <1>3, <1>4, <1>11, <2>2 DEF ValidOk, ReaderOp
  <2>. QED  BY <2>1, <2>2 DEF Ends
<1>15. Reader(e)' # <<"writing", "writeValidation">>
       /\ ReaderOp(e)' \in {"none", "writeValidation", "readHeader", "readBody"}
  BY <1>11 DEF ReaderOp
<1>. QED  BY <1>4, <1>8, <1>10, <1>12, <1>13, <1>14, <1>15, ReaderStep

\* The handlers of readHeader and readBody
LEMMA KeepsHeaderRead ==
    ASSUME Inv, CountInv', NEW e \in Ends, HeaderRead(e)
    PROVE  Inv'
<1>1. Due(e, "readHeader") /\ "readHeader" \in AllOps \cup {"close"}
      /\ UNCHANGED <<link, wire, qOut, handshakeIn, validated, sent, opening, breaks>>
  BY DEF HeaderRead, AllOps, ReadOps
<1>2. CASE /\ ok(e) /\ tmpIn[e].header.size > 0
           /\ tmpIn' = [tmpIn EXCEPT ![e].body = resize(@, tmpIn[e].header.size - HeaderSize)]
           /\ Continue(e, IF tmpIn[e].header.size - HeaderSize = 0 THEN post(rest(e), Done("readBody", TRUE))
                                                                   ELSE async_read(rest(e), "readBody"))
           /\ UNCHANGED qIn
  BY <1>1, <1>2, KeepsResized
<1>3. CASE ok(e) /\ tmpIn[e].header.size = 0 /\ addToIncoming(e) /\ UNCHANGED tmpIn
  BY <1>1, <1>3, KeepsPushed
<1>4. CASE Failed(e) /\ UNCHANGED <<qIn, tmpIn>>
  BY <1>1, <1>4, ClosesStep DEF Failed
<1>. QED  BY <1>2, <1>3, <1>4 DEF HeaderRead

\* A body has been read, or the read has failed.
LEMMA KeepsBodyRead ==
    ASSUME Inv, CountInv', NEW e \in Ends, BodyRead(e)
    PROVE  Inv'
<1>1. Due(e, "readBody") /\ "readBody" \in AllOps \cup {"close"}
      /\ UNCHANGED <<link, wire, qOut, handshakeIn, tmpIn, validated, sent, opening, breaks>>
  BY DEF BodyRead, AllOps, ReadOps
<1>2. CASE ok(e) /\ addToIncoming(e)
  BY <1>1, <1>2, KeepsPushed
<1>3. CASE Failed(e) /\ UNCHANGED qIn
  BY <1>1, <1>3, ClosesStep DEF Failed
<1>. QED  BY <1>2, <1>3 DEF BodyRead

-----------------------------------------------------------------------------
(* The handlers that write *)

\* The writes of e when the queue has changed, and one more write perhaps has started
LEMMA WritesGo ==
    ASSUME CountInv, NEW e \in Ends, WritesOk(e), NEW w \in AnyWrites, w.op \in DataOps,
           io'[e].writing \in {io[e].writing, Append(io[e].writing, w)},
           io'[e].socket = io[e].socket, opening' = opening,
           io'[e].writing # io[e].writing =>
              w.unit = IF w.op = "writeHeader" THEN Header(Head(qOut'[e])) ELSE Body(Head(qOut'[e])),
           (\E op \in DataOps : Writer(e) = <<"writing", op>>) => Head(qOut'[e]) = Head(qOut[e]),
           Writer(e)' = <<"writing", "writeBody">> => Head(qOut'[e]).body # << >>
    PROVE  /\ WritesOk(e)' /\ Greeted(e)' = Greeted(e)
           /\ io[e].writing # << >> => io'[e].writing # << >> /\ Head(io'[e].writing) = Head(io[e].writing)
<1>1. io[e].writing \in Seq(AnyWrites)
  BY EndTyped
<1>2. ASSUME NEW i \in DOMAIN io[e].writing, NEW op, op = io[e].writing[i].op
      PROVE  io[e].writing[i].unit = Carries(e, op)'
  <2>1. io[e].writing[i].unit = Carries(e, op) /\ op \in WriteOps \cup {"connect"}
    BY <1>2, WriterIs DEF WritesOk
  <2>2. CASE op \in DataOps
    <3>1. Writer(e) = <<"writing", op>>
      BY <1>2, <2>2, WriterIs
    <3>2. Head(qOut'[e]) = Head(qOut[e])
      BY <2>2, <3>1
    <3>. QED  BY <2>1, <3>2 DEF Carries
  <2>3. CASE op \notin DataOps
    <3>1. op \in {"connect", "writeValidation"}
      BY <2>1, <2>3 DEF WriteOps
    <3>. QED  BY <2>1, <3>1 DEF Carries
  <2>. QED  BY <2>2, <2>3
<1>3. CASE io'[e].writing = io[e].writing
  <2>1. Greeted(e)' = Greeted(e)
    BY <1>3, PlacesKept
  <2>. QED  BY <1>2, <1>3, <2>1 DEF WritesOk, Carries
<1>4. CASE io'[e].writing # io[e].writing
  <2>1. io'[e].writing = Append(io[e].writing, w) /\ w.unit = Carries(e, w.op)'
    BY <1>4 DEF Carries, DataOps
  <2>2. /\ io'[e].writing # << >> /\ DOMAIN io[e].writing = 1 .. Len(io[e].writing)
        /\ DOMAIN io'[e].writing = 1 .. Len(io[e].writing) + 1 /\ Len(io[e].writing) \in Nat
        /\ \A i \in DOMAIN io[e].writing : io'[e].writing[i] = io[e].writing[i]
        /\ io'[e].writing[Len(io[e].writing) + 1] = w
        /\ io[e].writing # << >> => Head(io'[e].writing) = Head(io[e].writing)
        /\ io[e].writing = << >> => Head(io'[e].writing) = w
    BY <1>1, <2>1
  <2>3. ASSUME NEW i \in DOMAIN io'[e].writing, NEW op, op = io'[e].writing[i].op
        PROVE  /\ io'[e].writing[i].unit = Carries(e, op)'
               /\ (e = "server" /\ op = "writeValidation") => i = 1
    <3>1. CASE i \in DOMAIN io[e].writing
      <4>1. io'[e].writing[i] = io[e].writing[i] /\ op = io[e].writing[i].op
        BY <2>2, <2>3, <3>1
      <4>2. io[e].writing[i].unit = Carries(e, op)'
        BY <1>2, <3>1, <4>1
      <4>. QED  BY <3>1, <4>1, <4>2 DEF WritesOk
    <3>2. CASE i \notin DOMAIN io[e].writing
      <4>1. io'[e].writing[i] = w
        BY <2>2, <2>3, <3>2
      <4>2. op = w.op /\ op # "writeValidation"
        BY <2>3, <4>1 DEF DataOps
      <4>. QED  BY <2>1, <4>1, <4>2
    <3>. QED  BY <3>1, <3>2
  <2>4. WritesOk(e)'
    BY <2>3 DEF WritesOk, Carries
  <2>5. Greeted(e)' = Greeted(e)
    <3>1. w.op # "writeValidation"
      BY DEF DataOps
    <3>. QED  BY <2>2, <3>1 DEF Greeted
  <2>. QED  BY <2>2, <2>4, <2>5
<1>. QED  BY <1>3, <1>4

\* A handler of the writer, or none that the invariant speaks of
LEMMA WriterStep ==
    ASSUME Inv, CountInv', NEW e \in Ends, PeerRests(e), breaks' \in 0 .. MaxBreaks,
           io'[e].socket = io[e].socket, Reader(e)' = Reader(e),
           UNCHANGED <<link, wire, handshakeIn, tmpIn, qIn, validated, sent, opening>>,
           qOut'[Peer(e)] = qOut[Peer(e)], QueueOk(e)', WritesOk(e)', Greeted(e)' = Greeted(e),
           io[e].writing # << >> => io'[e].writing # << >> /\ Head(io'[e].writing) = Head(io[e].writing),
           (InStep /\ Greeted(e)) => WritePlace(e)' = WritePlace(e),
           (InStep /\ ~Greeted(e)) => Out(e)' = 0 /\ Writer(e)' \in {NoToken, <<"writing", "writeHeader">>}
    PROVE  Inv'
<1>1. /\ CountInv /\ TypedToo /\ OpeningOk /\ ValidOk /\ SynOk /\ EarlyOk(e) /\ TmpOk(e)
  BY InvEnds
<1>2. SynOk' /\ InStep' = InStep
  BY <1>1, SocketKept
<1>3. InStep' => WritePlace(e)' = WritePlace(e)
  BY <1>2 DEF WritePlace
<1>4. GreetOk(e)'
  BY <1>2 DEF GreetOk
<1>5. ReadPlace(e)' = ReadPlace(e)
  BY PlacesKept
<1>6. EarlyOk(e)'
  BY <1>1, EarlyKept
<1>7. TmpOk(e)'
  BY <1>1, TmpKept
<1>8. \A d \in Ends : Reader(d)' = Reader(d) /\ io'[d].socket = io[d].socket
  <2>1. Reader(Peer(e))' = Reader(Peer(e)) /\ io'[Peer(e)] = io[Peer(e)]
    BY TwoEnds, SameEnd DEF PeerRests
  <2>. QED  BY <2>1, TwoEnds
<1>9. OpeningOk' /\ ValidOk'
  <2>1. /\ Reader("client")' = Reader("client") /\ Reader("server")' = Reader("server")
        /\ io'["server"].socket = io["server"].socket
    BY <1>8 DEF Ends
  <2>. QED  BY <1>1, <2>1 DEF OpeningOk, ValidOk, ReaderOp
<1>10. TypedToo'
  BY <1>1, TypesKept DEF TypedToo
<1>. QED  BY <1>2, <1>3, <1>4, <1>5, <1>6, <1>7, <1>9, <1>10, LocalStep

\* While nothing is lost a write that is started is under way.
LEMMA WriteBegins ==
    ASSUME CountInv, NEW e \in Ends, io[e].ready # << >>, InStep
    PROVE  Begun(e, "writing") = "writing" /\ io[e].socket = "open"
BY DueSocket DEF InStep, Begun

\* The handler that send() has posted (p2d.hpp:359-364)
LEMMA KeepsRunSend ==
    ASSUME Inv, CountInv', NEW e \in Ends, RunSend(e)
    PROVE  Inv'
<1>1. /\ CountInv /\ QueueOk(e) /\ WritesOk(e) /\ GreetOk(e) /\ Queued(e) /\ Out(e) \in Nat
      /\ \A i \in 1 .. Len(qOut[e]) : qOut[e][i] = sent[e][Out(e) + i]
  BY InvEnds DEF QueueOk
<1>2. /\ UNCHANGED <<link, wire, handshakeIn, tmpIn, qIn, validated, sent, opening, breaks>>
      /\ io[e].ready # << >>
  BY DEF RunSend, Due
<1>. DEFINE m == sent[e][Taken(e) + 1]
            w == [op |-> "writeHeader", unit |-> Header(m)]
            q == qOut[e]
<1>3. /\ PeerRests(e) /\ io'[e].socket = io[e].socket
      /\ m \in Messages /\ Taken(e) + 1 <= Len(sent[e])
      /\ qOut' = [qOut EXCEPT ![e] = Append(@, m)]
      /\ Taken(e)' = Taken(e) + 1 /\ Queued(e)'
      /\ Reader(e)' = Reader(e)
      /\ q = << >> =>
            /\ Writer(e)' = <<Begun(e, "writing"), "writeHeader">>
            /\ io'[e].writing = IF io[e].socket = "open" THEN Append(io[e].writing, w) ELSE io[e].writing
      /\ q # << >> => Writer(e)' = Writer(e) /\ io'[e].writing = io[e].writing
  BY <1>1, DoSend
<1>. HIDE DEF m
<1>4. q \in Seq(Messages) /\ Len(q) \in Nat /\ Taken(e) \in Nat /\ qOut \in [Ends -> Seq(Messages)]
  BY <1>1, EndTyped DEF Queued, CountInv, Typed
<1>5. /\ qOut'[e] = Append(q, m) /\ qOut'[Peer(e)] = qOut[Peer(e)] /\ Len(qOut'[e]) = Len(q) + 1
      /\ \A i \in 1 .. Len(q) : qOut'[e][i] = q[i]
      /\ qOut'[e][Len(q) + 1] = m
      /\ q # << >> => Head(qOut'[e]) = Head(q)
      /\ q = << >> => Head(qOut'[e]) = m
  <2>1. qOut'[e] = Append(q, m) /\ qOut'[Peer(e)] = qOut[Peer(e)]
    BY <1>3, <1>4, TwoEnds
  <2>. HIDE DEF q
  <2>. QED  BY <1>3, <1>4, <2>1
<1>6. Out(e)' = Out(e) /\ Out(e) + Len(q) = Taken(e)
  BY <1>3, <1>4, <1>5 DEF Out
<1>7. QueueOk(e)'
  <2>1. ASSUME NEW i \in 1 .. Len(qOut'[e]) PROVE qOut'[e][i] = sent[e][Out(e) + i]
    <3>1. CASE i \in 1 .. Len(q)
      BY <1>1, <1>5, <3>1
    <3>2. CASE i \notin 1 .. Len(q)
      <4>1. i = Len(q) + 1
        BY <1>4, <1>5, <3>2
      <4>2. Out(e) + i = Taken(e) + 1
        BY <1>1, <1>4, <1>6, <4>1
      <4>. QED  BY <1>5, <4>1, <4>2 DEF m
    <3>. QED  BY <3>1, <3>2
  <2>. QED  BY <1>1, <1>2, <1>3, <1>6, <2>1 DEF QueueOk
<1>8. /\ q = << >> => Writer(e) = NoToken
      /\ Writer(e)' = <<"writing", "writeBody">> => q # << >> /\ Writer(e)' = Writer(e)
  BY <1>1, <1>3, WriterIs
<1>9. /\ WritesOk(e)' /\ Greeted(e)' = Greeted(e)
      /\ io[e].writing # << >> => io'[e].writing # << >> /\ Head(io'[e].writing) = Head(io[e].writing)
  <2>1. w \in AnyWrites /\ w.op \in DataOps /\ w.op = "writeHeader" /\ w.unit = Header(m)
    BY <1>3, MessageUnits DEF AnyWrites, DataOps, WriteOps
  <2>. HIDE DEF w
  <2>2. io'[e].writing \in {io[e].writing, Append(io[e].writing, w)}
    BY <1>3
  <2>3. io'[e].writing # io[e].writing => w.unit = Header(Head(qOut'[e]))
    BY <1>3, <1>5, <2>1
  <2>4. (\E op \in DataOps : Writer(e) = <<"writing", op>>) => Head(qOut'[e]) = Head(qOut[e])
    BY <1>5, <1>8, AbortKinds
  <2>5. Writer(e)' = <<"writing", "writeBody">> => Head(qOut'[e]).body # << >>
    BY <1>1, <1>5, <1>8 DEF WritesOk
  <2>. QED  BY <1>1, <1>2, <1>3, <2>1, <2>2, <2>3, <2>4, <2>5, WritesGo
<1>10. InStep => (q = << >> => Writer(e)' = <<"writing", "writeHeader">>)
  BY <1>1, <1>2, <1>3, WriteBegins
<1>11. (InStep /\ Greeted(e)) => WritePlace(e)' = WritePlace(e)
  <2>1. CASE q = << >>
    BY <1>6, <1>8, <1>9, <1>10, <2>1 DEF WritePlace, NoToken
  <2>2. CASE q # << >>
    BY <1>3, <1>5, <1>6, <1>9, <2>2 DEF WritePlace
  <2>. QED  BY <2>1, <2>2
<1>12. (InStep /\ ~Greeted(e)) => Out(e)' = 0 /\ Writer(e)' \in {NoToken, <<"writing", "writeHeader">>}
  BY <1>1, <1>3, <1>6, <1>10 DEF GreetOk
<1>13. breaks' \in 0 .. MaxBreaks
  BY <1>2, InvEnds DEF TypedToo
<1>. QED  BY <1>2, <1>3, <1>5, <1>7, <1>9, <1>11, <1>12, <1>13, WriterStep

\* The first message of the queue is written, and the next one's turn comes (p2d.hpp:426-430, 447-451).
LEMMA KeepsNextMessage ==
    ASSUME Inv, CountInv', NEW e \in Ends, NEW h \in DataOps, Due(e, h), ok(e), NextMessage(e),
           h = "writeHeader" => Head(qOut[e]).body = << >>,
           UNCHANGED <<link, wire, handshakeIn, tmpIn, qIn, validated, sent, opening, breaks>>
    PROVE  Inv'
<1>1. /\ CountInv /\ QueueOk(e) /\ WritesOk(e) /\ GreetOk(e) /\ Queued(e) /\ Out(e) \in Nat
      /\ \A i \in 1 .. Len(qOut[e]) : qOut[e][i] = sent[e][Out(e) + i]
      /\ io[e].ready # << >>
  BY InvEnds DEF QueueOk, Due
<1>. DEFINE q == qOut[e]
            m == q[2]
            w == [op |-> "writeHeader", unit |-> Header(m)]
<1>2. h \in AllOps /\ h \notin ReadChain(e) /\ "writeHeader" \in DataOps /\ "writeHeader" \in WriteOps
      /\ "writeHeader" \notin ReadChain(e)
  BY ChainOps DEF DataOps, WriteOps
<1>3. q \in Seq(Messages) /\ Len(q) \in Nat /\ Taken(e) \in Nat /\ qOut \in [Ends -> Seq(Messages)]
  BY <1>1, EndTyped DEF Queued, CountInv, Typed
<1>4. /\ PeerRests(e) /\ io'[e].socket = io[e].socket
      /\ Reader(e)' = Reader(e) /\ Writer(e) = <<"ok", h>>
      /\ Posts(e)' = Posts(e) /\ Queued(e)'
      /\ Len(q) > 1 => /\ m \in Messages
                       /\ Writer(e)' = <<Begun(e, "writing"), "writeHeader">>
                       /\ io'[e].writing = IF io[e].socket = "open" THEN Append(io[e].writing, w) ELSE io[e].writing
      /\ ~(Len(q) > 1) => Writer(e)' = NoToken /\ io'[e].writing = io[e].writing
  <2>1. CASE Len(q) > 1
    <3>1. Continue(e, async_write(rest(e), "writeHeader", Header(m)))
      BY <2>1 DEF NextMessage
    <3>2. m \in Messages
      BY <1>3, <2>1
    <3>3. Header(m) \in AnyUnit
      BY <3>2, MessageUnits
    <3>. HIDE DEF m
    <3>. QED  BY <1>1, <1>2, <2>1, <3>1, <3>2, <3>3, DoWrite DEF DueStage
  <2>2. CASE ~(Len(q) > 1)
    <3>1. Continue(e, rest(e))
      BY <2>2 DEF NextMessage
    <3>. QED  BY <1>1, <1>2, <2>2, <3>1, DoNothing DEF DueStage
  <2>. QED  BY <2>1, <2>2
<1>5. q # << >>
  BY <1>1, <1>4, WriterIs, AbortKinds
<1>6. /\ qOut'[e] = Tail(q) /\ qOut'[Peer(e)] = qOut[Peer(e)] /\ Len(qOut'[e]) = Len(q) - 1
      /\ \A i \in 1 .. Len(q) - 1 : qOut'[e][i] = q[i + 1]
      /\ Len(q) > 1 => Head(qOut'[e]) = m
  <2>1. qOut'[e] = Tail(q) /\ qOut'[Peer(e)] = qOut[Peer(e)]
    BY <1>3, TwoEnds DEF NextMessage
  <2>2. Len(q) \in Nat /\ Len(q) >= 1
    BY <1>3, <1>5, EmptySeq
  <2>. HIDE DEF q
  <2>3. Len(Tail(q)) = Len(q) - 1 /\ \A i \in 1 .. Len(q) - 1 : Tail(q)[i] = q[i + 1]
    BY <1>3, <1>5
  <2>4. Len(q) > 1 => Head(Tail(q)) = Tail(q)[1] /\ Tail(q)[1] = q[1 + 1]
    BY <1>3, <1>5, <2>2, <2>3
  <2>. QED  BY <2>1, <2>2, <2>3, <2>4
<1>. HIDE DEF m
<1>7. Taken(e)' = Taken(e)
  BY <1>4 DEF Taken
<1>8. Out(e)' = Out(e) + 1
  <2>1. Out(e) = Taken(e) - Len(qOut[e]) /\ Out(e)' = Taken(e)' - Len(qOut'[e])
    BY DEF Out
  <2>2. Len(qOut'[e]) = Len(qOut[e]) - 1 /\ Len(qOut[e]) \in Nat
    BY <1>3, <1>6
  <2>. QED  BY <1>3, <1>7, <2>1, <2>2
<1>9. QueueOk(e)'
  <2>1. ASSUME NEW i \in 1 .. Len(qOut'[e]) PROVE qOut'[e][i] = sent[e][(Out(e) + 1) + i]
    <3>1. i \in 1 .. Len(q) - 1 /\ i + 1 \in 1 .. Len(q) /\ (Out(e) + 1) + i = Out(e) + (i + 1)
      BY <1>1, <1>3, <1>6
    <3>2. qOut'[e][i] = q[i + 1] /\ q[i + 1] = sent[e][Out(e) + (i + 1)]
      BY <1>1, <1>6, <3>1
    <3>. QED  BY <3>1, <3>2
  <2>2. Out(e) + 1 \in Nat
    BY <1>1
  <2>. QED  BY <1>4, <1>8, <2>1, <2>2 DEF QueueOk
<1>10. /\ WritesOk(e)' /\ Greeted(e)' = Greeted(e)
       /\ io[e].writing # << >> => io'[e].writing # << >> /\ Head(io'[e].writing) = Head(io[e].writing)
  <2>0. \A op : Writer(e) # <<"writing", op>>
    BY <1>4
  <2>1. Writer(e)' # <<"writing", "writeBody">>
    BY <1>4, AbortKinds
  <2>2. CASE Len(q) > 1
    <3>1. w \in AnyWrites /\ w.op \in DataOps /\ w.op = "writeHeader" /\ w.unit = Header(m)
      BY <1>4, <2>2, MessageUnits DEF AnyWrites, DataOps, WriteOps
    <3>. HIDE DEF w
    <3>2. io'[e].writing \in {io[e].writing, Append(io[e].writing, w)}
      BY <1>4, <2>2
    <3>3. w.unit = Header(Head(qOut'[e]))
      BY <1>6, <2>2, <3>1
    <3>. QED  BY <1>1, <1>4, <2>0, <2>1, <3>1, <3>2, <3>3, WritesGo
  <2>3. CASE ~(Len(q) > 1)
    <3>. DEFINE u == [op |-> "writeHeader", unit |-> Header(q[1])]
    <3>1. q[1] \in Messages
      BY <1>3, <1>5
    <3>2. u \in AnyWrites /\ u.op \in DataOps
      BY <3>1, MessageUnits DEF AnyWrites, DataOps, WriteOps
    <3>. HIDE DEF u
    <3>. QED  BY <1>1, <1>4, <2>0, <2>1, <2>3, <3>2, WritesGo
  <2>. QED  BY <2>2, <2>3
<1>11. InStep => (Len(q) > 1 => Writer(e)' = <<"writing", "writeHeader">>)
  BY <1>1, <1>4, WriteBegins
<1>12. (InStep /\ Greeted(e)) => WritePlace(e)' = WritePlace(e)
  <2>1. ASSUME InStep, Greeted(e) PROVE WritePlace(e)' = WritePlace(e)
    <3>1. WritePlace(e) = <<Out(e) + 2, "header">>
      BY <1>4, <2>1 DEF WritePlace, DataOps
    <3>2. Writer(e)' \in {NoToken, <<"writing", "writeHeader">>}
      BY <1>4, <1>11, <2>1
    <3>3. WritePlace(e)' = <<(Out(e) + 1) + 1, "header">>
      BY <1>8, <1>10, <2>1, <3>2 DEF WritePlace, NoToken
    <3>. QED  BY <1>1, <3>1, <3>3
  <2>. QED  BY <2>1
<1>13. ~(InStep /\ ~Greeted(e))
  BY <1>1, <1>4 DEF GreetOk, NoToken
<1>14. breaks' \in 0 .. MaxBreaks
  BY InvEnds DEF TypedToo
<1>. QED  BY <1>1, <1>4, <1>6, <1>9, <1>10, <1>12, <1>13, <1>14, WriterStep

\* The handler of writeHeader for a message with a body (p2d.hpp:420-422)
LEMMA KeepsBodyBegun ==
    ASSUME Inv, CountInv', NEW e \in Ends, Due(e, "writeHeader"), ok(e), Head(qOut[e]).body # << >>,
           Continue(e, async_write(rest(e), "writeBody", Body(Head(qOut[e])))),
           UNCHANGED <<link, wire, qOut, handshakeIn, tmpIn, qIn, validated, sent, opening, breaks>>
    PROVE  Inv'
<1>1. /\ CountInv /\ QueueOk(e) /\ WritesOk(e) /\ GreetOk(e) /\ Queued(e) /\ io[e].ready # << >>
      /\ qOut[e] \in Seq(Messages)
  BY InvEnds, EndTyped DEF Due
<1>. DEFINE m == Head(qOut[e])
            w == [op |-> "writeBody", unit |-> Body(m)]
<1>2. /\ "writeHeader" \in AllOps /\ "writeHeader" \in DataOps /\ "writeHeader" \notin ReadChain(e)
      /\ "writeBody" \in WriteOps /\ "writeBody" \in DataOps /\ "writeBody" \notin ReadChain(e)
  BY ChainOps DEF AllOps, DataOps, WriteOps
<1>3. Writer(e) = <<"ok", "writeHeader">> /\ qOut[e] # << >> /\ m \in Messages
  <2>1. Has(io[e], <<"ok", "writeHeader">>)
    BY <1>1, <1>2, DueToken DEF DueStage
  <2>2. <<"ok", "writeHeader">> \in Of(DataOps) /\ io[e] \in IoRecord /\ Cnt(io[e], Of(DataOps)) <= 1
    BY <1>1, <1>2, EndTyped DEF Of, Stages
  <2>3. Only(io[e], Of(DataOps)) = <<"ok", "writeHeader">>
    BY <2>1, <2>2, OnlyIs
  <2>4. Writer(e) = <<"ok", "writeHeader">>
    BY <2>3 DEF Writer
  <2>5. qOut[e] # << >>
    BY <1>1, <2>4, WriterIs, AbortKinds
  <2>. QED  BY <1>1, <2>4, <2>5
<1>4. Body(m) \in AnyUnit
  BY <1>3, MessageUnits
<1>5. /\ PeerRests(e) /\ io'[e].socket = io[e].socket
      /\ io'[e].writing = IF io[e].socket = "open" THEN Append(io[e].writing, w) ELSE io[e].writing
      /\ Reader(e)' = Reader(e) /\ Writer(e)' = <<Begun(e, "writing"), "writeBody">>
      /\ Posts(e)' = Posts(e) /\ Queued(e)'
  <2>. HIDE DEF m
  <2>. QED  BY <1>1, <1>2, <1>4, DoWrite DEF m
<1>6. Taken(e)' = Taken(e)
  BY <1>5 DEF Taken
<1>7. QueueOk(e)' /\ Out(e)' = Out(e)
  BY <1>1, <1>5, <1>6, QueueKept
<1>8. /\ WritesOk(e)' /\ Greeted(e)' = Greeted(e)
      /\ io[e].writing # << >> => io'[e].writing # << >> /\ Head(io'[e].writing) = Head(io[e].writing)
  <2>1. w \in AnyWrites /\ w.op \in DataOps /\ w.op = "writeBody" /\ w.unit = Body(Head(qOut'[e]))
    BY <1>2, <1>4 DEF AnyWrites
  <2>. HIDE DEF w, m
  <2>2. io'[e].writing \in {io[e].writing, Append(io[e].writing, w)}
    BY <1>5
  <2>3. w.unit = Body(Head(qOut'[e])) /\ w.op # "writeHeader"
    BY <2>1
  <2>4. Head(qOut'[e]).body # << >> /\ Head(qOut'[e]) = Head(qOut[e])
    OBVIOUS
  <2>. QED  BY <1>1, <1>5, <2>1, <2>2, <2>3, <2>4, WritesGo
<1>9. InStep => Writer(e)' = <<"writing", "writeBody">>
  BY <1>1, <1>5, WriteBegins
<1>10. (InStep /\ Greeted(e)) => WritePlace(e)' = WritePlace(e)
  BY <1>3, <1>7, <1>8, <1>9 DEF WritePlace
<1>11. ~(InStep /\ ~Greeted(e))
  BY <1>1, <1>3 DEF GreetOk, NoToken
<1>12. breaks' \in 0 .. MaxBreaks
  BY InvEnds DEF TypedToo
<1>. QED  BY <1>1, <1>5, <1>7, <1>8, <1>10, <1>11, <1>12, WriterStep

\* The handler of writeHeader
LEMMA KeepsHeaderWritten ==
    ASSUME Inv, CountInv', NEW e \in Ends, HeaderWritten(e)
    PROVE  Inv'
<1>1. /\ Due(e, "writeHeader") /\ "writeHeader" \in AllOps \cup {"close"} /\ "writeHeader" \in DataOps
      /\ UNCHANGED <<link, wire, handshakeIn, tmpIn, qIn, validated, sent, opening, breaks>>
  BY DEF HeaderWritten, AllOps, WriteOps, DataOps
<1>2. CASE /\ ok(e) /\ Head(qOut[e]).body # << >>
           /\ Continue(e, async_write(rest(e), "writeBody", Body(Head(qOut[e]))))
           /\ UNCHANGED qOut
  BY <1>1, <1>2, KeepsBodyBegun
<1>3. CASE ok(e) /\ Head(qOut[e]).body = << >> /\ NextMessage(e)
  BY <1>1, <1>3, KeepsNextMessage
<1>4. CASE ~ok(e) /\ Failed(e) /\ UNCHANGED qOut
  BY <1>1, <1>4, ClosesStep DEF Failed
<1>. QED  BY <1>2, <1>3, <1>4 DEF HeaderWritten

\* The handler of writeBody
LEMMA KeepsBodyWritten ==
    ASSUME Inv, CountInv', NEW e \in Ends, BodyWritten(e)
    PROVE  Inv'
<1>1. /\ Due(e, "writeBody") /\ "writeBody" \in AllOps \cup {"close"} /\ "writeBody" \in DataOps
      /\ UNCHANGED <<link, wire, handshakeIn, tmpIn, qIn, validated, sent, opening, breaks>>
  BY DEF BodyWritten, AllOps, WriteOps, DataOps
<1>2. CASE ok(e) /\ NextMessage(e)
  BY <1>1, <1>2, KeepsNextMessage
<1>3. CASE ~ok(e) /\ Failed(e) /\ UNCHANGED qOut
  BY <1>1, <1>3, ClosesStep DEF Failed
<1>. QED  BY <1>2, <1>3 DEF BodyWritten

\* Every handler keeps the invariant.
LEMMA KeepsRun ==
    ASSUME Inv, CountInv', NEW e \in Ends, Run(e)
    PROVE  Inv'
<1>1. CASE RunClose(e)
  <2>1. "close" \in AllOps \cup {"close"}
    OBVIOUS
  <2>. QED  BY <1>1, <2>1, ClosesStep DEF RunClose
<1>2. CASE RunSend(e)
  BY <1>2, KeepsRunSend
<1>3. CASE Connected(e)
  BY <1>3, KeepsConnected
<1>4. CASE ValidationRead(e) \/ ValidationWritten(e)
  BY <1>4, KeepsValidationRead, KeepsValidationWritten
<1>5. CASE HeaderRead(e) \/ BodyRead(e)
  BY <1>5, KeepsHeaderRead, KeepsBodyRead
<1>6. CASE HeaderWritten(e) \/ BodyWritten(e)
  BY <1>6, KeepsHeaderWritten, KeepsBodyWritten
<1>. QED  BY <1>1, <1>2, <1>3, <1>4, <1>5, <1>6 DEF Run

-----------------------------------------------------------------------------
(* The application, the network, and the steps that change nothing *)

\* An end of which nothing changes that the invariant speaks of, but the handlers that
\* are ready
LEMMA QuietStep ==
    ASSUME Inv, CountInv', NEW e \in Ends, PeerRests(e), breaks' \in 0 .. MaxBreaks,
           io'[e].socket = io[e].socket, io'[e].writing = io[e].writing,
           Reader(e)' = Reader(e), Writer(e)' = Writer(e), Posts(e)' = Posts(e), Queued(e)',
           UNCHANGED <<link, wire, qOut, handshakeIn, tmpIn, qIn, validated, sent, opening>>
    PROVE  Inv'
<1>1. QueueOk(e) /\ WritesOk(e) /\ GreetOk(e)
  BY InvEnds
<1>2. Taken(e)' = Taken(e)
  BY DEF Taken
<1>3. QueueOk(e)' /\ Out(e)' = Out(e)
  BY <1>1, <1>2, QueueKept
<1>4. WritesOk(e)' /\ Greeted(e)' = Greeted(e) /\ WritePlace(e)' = WritePlace(e)
  BY <1>1, <1>3, WritesKept, PlacesKept
<1>5. (InStep /\ ~Greeted(e)) => Out(e)' = 0 /\ Writer(e)' \in {NoToken, <<"writing", "writeHeader">>}
  BY <1>1, <1>3 DEF GreetOk
<1>. QED  BY <1>3, <1>4, <1>5, WriterStep

\* A step that changes nothing
LEMMA KeepsStutter ==
    ASSUME Inv, CountInv', UNCHANGED vars
    PROVE  Inv'
<1>. DEFINE e == "client"
<1>1. /\ UNCHANGED <<io, link, wire, qOut, handshakeIn, tmpIn, qIn, validated, sent, opening, breaks>>
      /\ e \in Ends
  BY DEF vars, Ends
<1>2. Queued(e) /\ TypedToo
  BY <1>1, InvEnds
<1>3. /\ Reader(e)' = Reader(e) /\ Writer(e)' = Writer(e) /\ Posts(e)' = Posts(e) /\ Queued(e)'
      /\ PeerRests(e)
  BY <1>1, <1>2, SameEnd DEF PeerRests
<1>4. breaks' \in 0 .. MaxBreaks
  BY <1>1, <1>2 DEF TypedToo
<1>. HIDE DEF e
<1>. QED  BY <1>1, <1>3, <1>4, QuietStep

\* disconnect() posts the handler that closes the socket (p2d.hpp:343-350).
LEMMA KeepsDisconnect ==
    ASSUME Inv, CountInv', NEW e \in Ends, disconnect(e)
    PROVE  Inv'
<1>. DEFINE h == [handler |-> "close"]
<1>1. /\ io' = [io EXCEPT ![e] = post(@, h)] /\ h \in Handlers /\ h.handler = "close"
      /\ UNCHANGED <<link, wire, qOut, handshakeIn, tmpIn, qIn, validated, sent, opening>>
      /\ breaks < MaxBreaks /\ breaks' = breaks + 1
  BY DEF disconnect, Handlers
<1>2. CountInv /\ TypedToo /\ Queued(e)
  BY InvEnds
<1>. HIDE DEF h
<1>3. /\ PeerRests(e) /\ io'[e].socket = io[e].socket /\ io'[e].writing = io[e].writing
      /\ Reader(e)' = Reader(e) /\ Writer(e)' = Writer(e) /\ Posts(e)' = Posts(e) + 0
      /\ io'[e].ready = Append(io[e].ready, h)
  BY <1>1, <1>2, DoPost
<1>4. Posts(e)' = Posts(e)
  <2>1. Posts(e) \in Nat
    BY <1>2, EndTyped, CntNat DEF Posts
  <2>. QED  BY <1>3, <2>1
<1>5. Queued(e)'
  BY <1>1, <1>2, <1>3, <1>4, QueuePosts
<1>6. breaks' \in 0 .. MaxBreaks
  BY <1>1, <1>2, MessagesAssumption DEF TypedToo
<1>. QED  BY <1>1, <1>3, <1>4, <1>5, <1>6, QuietStep

\* The tokens of an end that was stopped are those it had.
LEMMA HaltsTokens ==
    ASSUME CountInv, NEW e \in Ends, stop(e)
    PROVE  Reader(e)' = Reader(e) /\ Writer(e)' = Writer(e) /\ Posts(e)' = Posts(e)
<1>1. IoTyped /\ IoTyped' /\ \A P : Cnt(io'[e], P) = Cnt(io[e], P)
  BY Halts DEF CountInv, Typed
<1>2. Cnt(io[e], Of(ReadChain(e))) <= 1 /\ Cnt(io[e], Of(DataOps)) <= 1
  BY DEF CountInv, EndOk, ReaderOk, WriterOk
<1>3. ASSUME NEW P, Cnt(io[e], P) <= 1
      PROVE  Only(io'[e], P) = Only(io[e], P)
  <2>. DEFINE r == io[e]
              q == io'[e]
              t == Only(r, P)
  <2>1. r \in IoRecord /\ q \in IoRecord /\ Cnt(q, P) = Cnt(r, P) /\ Cnt(r, P) <= 1
        /\ Cnt(q, {t}) = Cnt(r, {t})
    BY <1>1, <1>3 DEF IoTyped
  <2>. SUFFICES Only(q, P) = Only(r, P)
    OBVIOUS
  <2>. HIDE DEF r, q
  <2>2. CASE Cnt(r, P) = 0
    BY <2>1, <2>2 DEF Only
  <2>3. CASE Cnt(r, P) # 0
    <3>1. t \in P /\ Has(r, t)
      BY <2>1, <2>3, OnlyHas
    <3>2. Has(q, t)
      BY <2>1, <3>1 DEF Has
    <3>. HIDE DEF t
    <3>3. Only(q, P) = t
      BY <2>1, <3>1, <3>2, OnlyIs
    <3>. QED  BY <3>3 DEF t
  <2>. QED  BY <2>2, <2>3
<1>. QED  BY <1>1, <1>2, <1>3 DEF Reader, Writer, Posts

\* stop() changes nothing but what will not happen any more (p2d.hpp:573, 633).
LEMMA KeepsStop ==
    ASSUME Inv, CountInv', NEW e \in Ends, stop(e)
    PROVE  Inv'
<1>1. /\ UNCHANGED <<link, wire, qOut, handshakeIn, tmpIn, qIn, validated, sent, opening>>
      /\ breaks' = breaks \/ (breaks < MaxBreaks /\ breaks' = breaks + 1)
  BY DEF stop
<1>2. CountInv /\ IoTyped /\ TypedToo /\ Queued(e)
  BY InvEnds DEF CountInv, Typed
<1>3. /\ PeerRests(e) /\ io'[e].socket = io[e].socket /\ io'[e].writing = io[e].writing
      /\ io'[e].ready = io[e].ready
      /\ Reader(e)' = Reader(e) /\ Writer(e)' = Writer(e) /\ Posts(e)' = Posts(e)
  BY <1>2, Halts, HaltsTokens DEF PeerRests
<1>4. Queued(e)'
  BY <1>1, <1>2, <1>3 DEF Queued, Taken
<1>5. breaks' \in 0 .. MaxBreaks
  BY <1>1, <1>2, MessagesAssumption DEF TypedToo
<1>. QED  BY <1>1, <1>3, <1>4, <1>5, QuietStep

\* With one message more, the sends move along as before.
LEMMA SendRelGrows ==
    ASSUME NEW s \in Seq(Messages), NEW m \in Messages
    PROVE  SendRel(s) \subseteq SendRel(Append(s, m))
<1>. DEFINE q == Append(s, m)
<1>1. Len(s) \in Nat /\ Len(q) = Len(s) + 1 /\ \A k \in 1 .. Len(s) : q[k] = s[k]
  OBVIOUS
<1>. HIDE DEF q
<1>2. ASSUME NEW t \in SendRel(s) PROVE t \in SendRel(q)
  <2>1. t \in Nat \X Handlers \X Nat /\ t[1] \in Nat /\ t[3] \in Nat
    BY DEF SendRel
  <2>2. CASE t[2].handler = "send"
    <3>1. t[3] = t[1] + 1 /\ t[3] <= Len(s) /\ t[2].msg = s[t[3]]
      BY <2>2 DEF SendRel
    <3>2. t[3] <= Len(q) /\ q[t[3]] = s[t[3]]
      BY <1>1, <2>1, <3>1
    <3>. QED  BY <2>1, <2>2, <3>1, <3>2 DEF SendRel
  <2>3. CASE t[2].handler # "send"
    BY <2>1, <2>3 DEF SendRel
  <2>. QED  BY <2>2, <2>3
<1>. QED  BY <1>2 DEF q

\* send() posts the message (p2d.hpp:357-367).
LEMMA KeepsSend ==
    ASSUME Inv, CountInv', NEW e \in Ends, NEW m \in MessagesOf[e], send(e, m)
    PROVE  Inv'
<1>. DEFINE h == [handler |-> "send", msg |-> m]
            p == Peer(e)
            s == sent[e]
            q == Append(s, m)
<1>1. m \in Messages /\ p \in Ends /\ Peer(p) = e /\ p # e /\ \A d \in Ends : d = e \/ d = p
  BY TwoEnds DEF Messages
<1>2. /\ io' = [io EXCEPT ![e] = post(@, h)] /\ h \in Handlers /\ h.handler = "send" /\ h.msg = m
      /\ sent' = [sent EXCEPT ![e] = Append(@, m)]
      /\ UNCHANGED <<link, wire, qOut, handshakeIn, tmpIn, qIn, validated, opening, breaks>>
  BY <1>1 DEF send, Handlers
<1>3. /\ CountInv /\ TypedToo /\ OpeningOk /\ ValidOk /\ SynOk
      /\ QueueOk(e) /\ WritesOk(e) /\ GreetOk(e) /\ EarlyOk(e) /\ TmpOk(e) /\ StreamOk(e) /\ Queued(e)
      /\ QueueOk(p) /\ WritesOk(p) /\ GreetOk(p) /\ EarlyOk(p) /\ TmpOk(p) /\ StreamOk(p) /\ Queued(p)
  BY <1>1, InvEnds
<1>4. sent \in [Ends -> Seq(Messages)] /\ s \in Seq(Messages) /\ qOut[e] \in Seq(Messages)
      /\ io[e].ready \in Seq(Handlers)
  BY <1>3, EndTyped DEF CountInv, Typed
<1>5. /\ sent'[e] = q /\ sent'[p] = sent[p] /\ q \in Seq(Messages)
      /\ Len(s) \in Nat /\ Len(q) = Len(s) + 1 /\ q[Len(s) + 1] = m /\ \A k \in 1 .. Len(s) : q[k] = s[k]
  BY <1>1, <1>2, <1>4
<1>. HIDE DEF h, q
<1>6. /\ PeerRests(e) /\ io'[e].socket = io[e].socket /\ io'[e].writing = io[e].writing
      /\ Reader(e)' = Reader(e) /\ Writer(e)' = Writer(e) /\ Posts(e)' = Posts(e) + 1
      /\ io'[e].ready = Append(io[e].ready, h)
  BY <1>2, <1>3, DoPost
<1>7. Posts(e) \in Nat /\ Taken(e) \in Nat /\ Taken(e) <= Len(s) /\ Taken(e)' = Taken(e)
  <2>1. Posts(e) \in Nat
    BY <1>3, EndTyped, CntNat DEF Posts
  <2>2. Taken(e)' = Len(sent'[e]) - Posts(e)' /\ Taken(e) = Len(s) - Posts(e)
    BY DEF Taken
  <2>. QED  BY <1>3, <1>5, <1>6, <2>1, <2>2 DEF Queued
<1>8. Queued(e)'
  <2>1. Chain(io[e].ready, SendRel(s), Taken(e), Len(s))
    BY <1>3 DEF Queued
  <2>2. SendRel(s) \subseteq SendRel(q)
    BY <1>1, <1>4, SendRelGrows DEF q
  <2>3. Chain(io[e].ready, SendRel(q), Taken(e), Len(s))
    BY <2>1, <2>2, ChainGrows
  <2>4. <<Len(s), h, Len(s) + 1>> \in SendRel(q)
    <3>. DEFINE t == <<Len(s), h, Len(s) + 1>>
    <3>1. t \in Nat \X Handlers \X Nat /\ t[1] = Len(s) /\ t[2] = h /\ t[3] = Len(s) + 1
      BY <1>2, <1>5
    <3>. HIDE DEF t
    <3>. QED  BY <1>2, <1>5, <3>1 DEF SendRel, t
  <2>. DEFINE R == SendRel(q)
              l == Len(s)
              n == Taken(e)
  <2>. HIDE DEF R, l, n
  <2>5. Chain(Append(io[e].ready, h), R, n, l + 1)
    BY <1>2, <1>4, <2>3, <2>4, ChainAppend DEF R, l, n
  <2>. QED  BY <1>5, <1>6, <1>7, <2>5 DEF Queued, R, l, n
<1>9. QueueOk(e)' /\ Out(e)' = Out(e)
  <2>1. Out(e)' = Out(e) /\ Out(e) \in Nat /\ Out(e) = Taken(e) - Len(qOut[e])
    BY <1>2, <1>3, <1>7 DEF Out, QueueOk
  <2>2. ASSUME NEW i \in 1 .. Len(qOut[e]) PROVE qOut[e][i] = q[Out(e) + i]
    <3>1. qOut[e][i] = s[Out(e) + i]
      BY <1>3, <2>2 DEF QueueOk
    <3>2. Len(qOut[e]) \in Nat
      BY <1>4
    <3>3. Out(e) + i \in 1 .. Len(s)
      BY <1>5, <1>7, <2>1, <2>2, <3>2
    <3>. QED  BY <1>5, <3>1, <3>3
  <2>. QED  BY <1>2, <1>5, <1>8, <2>1, <2>2 DEF QueueOk
<1>10. io'[p] = io[p] /\ Reader(p)' = Reader(p) /\ Writer(p)' = Writer(p) /\ Taken(p)' = Taken(p) /\ Queued(p)'
  BY <1>1, <1>3, <1>5, <1>6, SameEnd DEF PeerRests
<1>11. QueueOk(p)' /\ Out(p)' = Out(p)
  BY <1>1, <1>2, <1>3, <1>5, <1>10, QueueKept
<1>12. /\ Greeted(e)' = Greeted(e) /\ WritePlace(e)' = WritePlace(e) /\ ReadPlace(e)' = ReadPlace(e)
       /\ Greeted(p)' = Greeted(p) /\ WritePlace(p)' = WritePlace(p) /\ ReadPlace(p)' = ReadPlace(p)
  BY <1>1, <1>2, <1>6, <1>9, <1>10, <1>11, PlacesKept
<1>13. WritesOk(e)' /\ WritesOk(p)'
  BY <1>1, <1>2, <1>3, <1>6, <1>10, WritesKept
<1>14. SynOk' /\ InStep' = InStep
  BY <1>2, <1>3, <1>6, SocketKept
<1>15. GreetOk(e)' /\ GreetOk(p)'
  BY <1>1, <1>3, <1>6, <1>9, <1>10, <1>11, <1>12, <1>14, GreetKept
<1>16. EarlyOk(e)' /\ EarlyOk(p)'
  BY <1>1, <1>2, <1>3, <1>6, <1>10, EarlyKept
<1>17. TmpOk(e)'
  BY <1>1, <1>2, <1>3, <1>5, <1>6, TmpKept
<1>18. TmpOk(p)'
  <2>. DEFINE n == Len(qIn[p])
  <2>1. n \in Nat /\ n <= Len(s)
    BY <1>1, <1>3 DEF TmpOk, TypedToo
  <2>2. n <= Len(q) /\ (n + 1 <= Len(s) => n + 1 <= Len(q) /\ q[n + 1] = s[n + 1])
    BY <1>5, <2>1
  <2>3. BodyOf(q, n) = BodyOf(s, n)
    BY <1>1, <1>4, <1>5, <2>1, BodyGrows DEF q
  <2>4. /\ sent[Peer(p)] = s /\ sent'[Peer(p)] = q /\ Len(qIn'[p]) = n /\ tmpIn'[p] = tmpIn[p]
        /\ io'[p].socket = io[p].socket /\ ReaderOp(p)' = ReaderOp(p)
        /\ Reader(p) = <<"ok", "readBody">> => ReaderOp(p) = "readBody"
    BY <1>1, <1>2, <1>5, <1>10 DEF ReaderOp
  <2>. HIDE DEF n, s, p
  <2>. QED  BY <1>3, <1>10, <2>2, <2>3, <2>4 DEF TmpOk, n
<1>19. StreamOk(e)'
  BY <1>1, <1>2, <1>3, <1>5, <1>6, <1>12, <1>14, StreamKept
<1>20. StreamOk(p)'
  <2>1. SUFFICES ASSUME p = "server" => opening \notin Headers, io'[p].socket # "closed"
                 PROVE  \E b : Chain(wire[p], Stream(e, q), ReadPlace(p), b) /\ (InStep => b = WritePlace(e))
    BY <1>1, <1>2, <1>5, <1>12, <1>14 DEF StreamOk
  <2>2. PICK b : Chain(wire[p], Stream(e, s), ReadPlace(p), b) /\ (InStep => b = WritePlace(e))
    BY <1>1, <1>3, <1>10, <2>1 DEF StreamOk
  <2>3. Stream(e, s) \subseteq Stream(e, q)
    BY <1>1, <1>4, StreamGrows DEF q
  <2>4. Chain(wire[p], Stream(e, q), ReadPlace(p), b)
    BY <2>2, <2>3, ChainGrows
  <2>. QED  BY <2>2, <2>4
<1>21. OpeningOk' /\ ValidOk'
  <2>1. \A d \in Ends : Reader(d)' = Reader(d) /\ io'[d].socket = io[d].socket
    BY <1>1, <1>6, <1>10
  <2>2. /\ Reader("client")' = Reader("client") /\ Reader("server")' = Reader("server")
        /\ io'["server"].socket = io["server"].socket
    BY <2>1 DEF Ends
  <2>. QED  BY <1>2, <1>3, <2>2 DEF OpeningOk, ValidOk, ReaderOp
<1>22. TypedToo'
  BY <1>2, <1>3, TypesKept DEF TypedToo
<1>. QED  BY <1>1, <1>9, <1>11, <1>13, <1>14, <1>15, <1>16, <1>17, <1>18, <1>19, <1>20, <1>21, <1>22 DEF Inv, EndInv

\* The writes of an end when the oldest of them has completed
LEMMA WritesTail ==
    ASSUME CountInv, NEW p \in Ends, WritesOk(p), io[p].writing # << >>,
           io'[p].writing = Tail(io[p].writing), qOut'[p] = qOut[p],
           Writer(p)' = <<"writing", "writeBody">> => Writer(p)' = Writer(p)
    PROVE  /\ WritesOk(p)' /\ Head(io[p].writing).unit = Carries(p, Head(io[p].writing).op)
           /\ Head(io[p].writing).op \in WriteOps \cup {"connect"}
           /\ p = "server" => ~(io'[p].writing # << >> /\ Head(io'[p].writing).op = "writeValidation")
<1>. DEFINE v == io[p].writing
            t == Tail(v)
<1>1. /\ v \in Seq(AnyWrites) /\ v # << >> /\ Len(v) \in Nat /\ DOMAIN t = 1 .. Len(v) - 1
      /\ \A i \in DOMAIN t : i \in Nat /\ i # 0 /\ i + 1 \in DOMAIN v /\ t[i] = v[i + 1]
      /\ t # << >> => 1 \in DOMAIN t /\ Head(t) = t[1]
      /\ 1 \in DOMAIN v /\ Head(v) = v[1]
  <2>1. v \in Seq(AnyWrites) /\ v # << >>
    BY EndTyped
  <2>. HIDE DEF v
  <2>2. /\ Len(v) \in Nat /\ Len(v) # 0 /\ Len(t) = Len(v) - 1 /\ t \in Seq(AnyWrites)
        /\ DOMAIN v = 1 .. Len(v) /\ Head(v) = v[1]
        /\ \A i \in 1 .. Len(v) - 1 : t[i] = v[i + 1]
    BY <2>1
  <2>. HIDE DEF t
  <2>. QED  BY <2>1, <2>2
<1>2. \A i \in DOMAIN v : v[i].unit = Carries(p, v[i].op)
  BY DEF WritesOk
<1>3. \A op : Carries(p, op)' = Carries(p, op)
  BY DEF Carries
<1>4. ASSUME NEW i \in DOMAIN t
      PROVE  /\ t[i].unit = Carries(p, t[i].op)
             /\ p = "server" => t[i].op # "writeValidation"
  <2>1. i \in Nat /\ i # 0 /\ i + 1 \in DOMAIN v /\ t[i] = v[i + 1] /\ i + 1 # 1
    BY <1>1
  <2>. HIDE DEF t
  <2>2. p = "server" => (v[i + 1].op = "writeValidation" => i + 1 = 1)
    BY <2>1 DEF WritesOk
  <2>. QED  BY <1>2, <2>1, <2>2
<1>5. io'[p].writing = t
  OBVIOUS
<1>6. WritesOk(p)'
  <2>. HIDE DEF t
  <2>1. Writer(p)' = <<"writing", "writeBody">> => Head(qOut'[p]).body # << >>
    BY DEF WritesOk
  <2>. QED  BY <1>3, <1>4, <1>5, <2>1 DEF WritesOk
<1>7. Head(v).op \in WriteOps \cup {"connect"}
  BY <1>1, WriterIs
<1>. HIDE DEF t
<1>. QED  BY <1>1, <1>2, <1>4, <1>5, <1>6, <1>7

\* What becomes of an end whose oldest write, not its connect, has completed
LEMMA WroteEnd ==
    ASSUME Inv, CountInv', NEW e \in Ends, io[e].writing # << >>, Head(io[e].writing).op # "connect",
           NEW s \in BOOLEAN, CompleteWrite(e, s),
           UNCHANGED <<link, qOut, handshakeIn, tmpIn, qIn, validated, sent, breaks>>
    PROVE  LET w  == Head(io[e].writing)
               st == IF s THEN "ok" ELSE "failed"
           IN  /\ PeerRests(e) /\ io[e].socket = "open" /\ io'[e].socket = "open"
               /\ io'[e].writing = Tail(io[e].writing) /\ w.op \in WriteOps /\ w.unit = Carries(e, w.op)
               /\ w.op \in ReadChain(e) => Reader(e) = <<"writing", w.op>>
               /\ w.op \in DataOps => Writer(e) = <<"writing", w.op>>
               /\ Reader(e)' = IF w.op \in ReadChain(e) THEN <<st, w.op>> ELSE Reader(e)
               /\ Writer(e)' = IF w.op \in DataOps THEN <<st, w.op>> ELSE Writer(e)
               /\ ReaderOp(e)' = ReaderOp(e) /\ ReadPlace(e)' = ReadPlace(e) /\ Out(e)' = Out(e)
               /\ QueueOk(e)' /\ WritesOk(e)' /\ EarlyOk(e)' /\ TmpOk(e)'
               /\ e = "server" => Greeted(e)'
<1>1. /\ CountInv /\ QueueOk(e) /\ WritesOk(e) /\ EarlyOk(e) /\ TmpOk(e) /\ Queued(e)
  BY InvEnds
<1>. DEFINE w == Head(io[e].writing)
            st == IF s THEN "ok" ELSE "failed"
<1>2. /\ PeerRests(e) /\ io[e].socket = "open" /\ io'[e].socket = "open"
      /\ io'[e].writing = Tail(io[e].writing) /\ w.op \in WriteOps
      /\ w.op \in ReadChain(e) => Reader(e) = <<"writing", w.op>>
      /\ w.op \in DataOps => Writer(e) = <<"writing", w.op>>
      /\ Reader(e)' = IF w.op \in ReadChain(e) THEN <<st, w.op>> ELSE Reader(e)
      /\ Writer(e)' = IF w.op \in DataOps THEN <<st, w.op>> ELSE Writer(e)
      /\ Posts(e)' = Posts(e) /\ Queued(e)'
  BY <1>1, WriteDone
<1>. HIDE DEF w
<1>3. /\ WritesOk(e)' /\ w.unit = Carries(e, w.op)
      /\ e = "server" => ~(io'[e].writing # << >> /\ Head(io'[e].writing).op = "writeValidation")
  <2>1. Writer(e)' = <<"writing", "writeBody">> => Writer(e)' = Writer(e)
    BY <1>2
  <2>. QED  BY <1>1, <1>2, <2>1, WritesTail DEF w
<1>4. e = "server" => Greeted(e)'
  BY <1>2, <1>3 DEF Greeted
<1>5. QueueOk(e)' /\ Out(e)' = Out(e)
  <2>1. Taken(e)' = Taken(e)
    BY <1>2 DEF Taken
  <2>. QED  BY <1>1, <1>2, <2>1, QueueKept
<1>6. w.op \in ReadChain(e) => w.op = "writeValidation"
  BY <1>2 DEF WriteOps, DataOps, ReadChain, ReadOps
<1>7. /\ ReaderOp(e)' = ReaderOp(e)
      /\ \A op \in ReadOps : (Reader(e)' = <<"ok", op>> <=> Reader(e) = <<"ok", op>>)
                             /\ (Reader(e)' = <<"reading", op>> <=> Reader(e) = <<"reading", op>>)
  <2>1. "writeValidation" \notin ReadOps
    BY DEF ReadOps
  <2>2. w.op \in ReadChain(e) => \A op \in ReadOps : op # w.op
    BY <1>6, <2>1
  <2>. QED  BY <1>2, <2>2 DEF ReaderOp
<1>8. /\ Reader(e)' = <<"ok", "readHeader">> <=> Reader(e) = <<"ok", "readHeader">>
      /\ Reader(e)' = <<"ok", "readBody">> <=> Reader(e) = <<"ok", "readBody">>
      /\ Reader(e)' = <<"ok", "readValidation">> <=> Reader(e) = <<"ok", "readValidation">>
      /\ Reader(e)' = <<"reading", "readValidation">> <=> Reader(e) = <<"reading", "readValidation">>
  BY <1>7 DEF ReadOps
<1>9. ReadPlace(e)' = ReadPlace(e)
  BY <1>7, <1>8 DEF ReadPlace
<1>10. EarlyOk(e)'
  BY <1>1, <1>2, <1>7, <1>8 DEF EarlyOk
<1>11. TmpOk(e)'
  BY <1>1, <1>2, <1>7, <1>8 DEF TmpOk
<1>. QED  BY <1>2, <1>3, <1>4, <1>5, <1>7, <1>9, <1>10, <1>11 DEF w

\* The connect completes, or fails.
LEMMA KeepsConnect ==
    ASSUME Inv, CountInv', Connect
    PROVE  Inv'
<1>. DEFINE e == "client"
<1>1. /\ CountInv /\ TypedToo /\ OpeningOk /\ ValidOk /\ SynOk /\ QueueOk(e) /\ WritesOk(e) /\ GreetOk(e)
      /\ EarlyOk(e) /\ TmpOk(e) /\ Queued(e) /\ e \in Ends
  BY InvEnds DEF Ends
<1>2. /\ link = "syn" /\ io[e].writing # << >> /\ Head(io[e].writing).op = "connect"
      /\ link' \in {"up", "refused"} /\ \E s \in BOOLEAN : CompleteWrite(e, s)
      /\ UNCHANGED <<wire, qOut, handshakeIn, tmpIn, qIn, validated, sent, opening, breaks>>
  BY DEF Connect, Connecting
<1>3. PICK s \in BOOLEAN : CompleteWrite(e, s)
  BY <1>2
<1>4. "connect" \in ReadChain(e) /\ "connect" \notin DataOps
  BY <1>1, ChainOps DEF DataOps
<1>. HIDE DEF e
<1>5. /\ PeerRests(e) /\ io[e].socket = "open" /\ io'[e].socket = "open"
      /\ io'[e].writing = Tail(io[e].writing)
      /\ Reader(e) = <<"writing", "connect">>
      /\ Reader(e)' \in {<<"ok", "connect">>, <<"failed", "connect">>}
      /\ Writer(e)' = Writer(e) /\ Posts(e)' = Posts(e) /\ Queued(e)'
  <2>. DEFINE op == Head(io[e].writing).op
  <2>1. op = "connect" /\ sent'[e] = sent[e]
    BY <1>2
  <2>2. /\ PeerRests(e) /\ io[e].socket = "open" /\ io'[e].socket = "open"
        /\ io'[e].writing = Tail(io[e].writing)
        /\ op \in ReadChain(e) => Reader(e) = <<"writing", op>>
        /\ Reader(e)' = IF op \in ReadChain(e) THEN <<IF s THEN "ok" ELSE "failed", op>> ELSE Reader(e)
        /\ Writer(e)' = IF op \in DataOps THEN <<IF s THEN "ok" ELSE "failed", op>> ELSE Writer(e)
        /\ Posts(e)' = Posts(e) /\ Queued(e)'
    BY <1>1, <1>2, <1>3, <2>1, WriteDone
  <2>. HIDE DEF op
  <2>. QED  BY <1>4, <2>1, <2>2
<1>6. handshakeIn[e] = NoUnit /\ qIn[e] = << >> /\ opening = NoUnit
  BY <1>1, <1>2, <1>5 DEF EarlyOk, ReaderOp, SynOk
<1>7. QueueOk(e)' /\ Out(e)' = Out(e)
  <2>1. Taken(e)' = Taken(e)
    BY <1>2, <1>5 DEF Taken
  <2>. QED  BY <1>1, <1>2, <1>5, <2>1, QueueKept
<1>8. WritesOk(e)'
  BY <1>1, <1>2, <1>5, WritesTail
<1>9. ~Greeted(e) /\ ~Greeted(e)' /\ WritePlace(e)' = WritePlace(e)
  BY <1>2, <1>6 DEF Greeted, WritePlace, e
<1>10. InStep
  <2>1. io["server"].socket = "none" /\ io["client"].socket = "open"
    BY <1>1, <1>2, <1>5 DEF SynOk, e
  <2>. QED  BY <1>2, <2>1 DEF InStep, Ends
<1>11. GreetOk(e)'
  BY <1>1, <1>5, <1>7, <1>9, <1>10 DEF GreetOk
<1>12. EarlyOk(e)'
  BY <1>2, <1>5, <1>6 DEF EarlyOk, ReaderOp
<1>13. TmpOk(e)'
  <2>1. tmpIn[e].body = BodyOf(sent[Peer(e)], Len(qIn[e])) /\ Len(qIn[e]) <= Len(sent[Peer(e)])
    BY <1>1, <1>5 DEF TmpOk, ReaderOp
  <2>. QED  BY <1>2, <1>5, <2>1 DEF TmpOk, ReaderOp
<1>14. OpeningOk'
  <2>1. opening # Hello("client")
    BY <1>6, UnitKinds
  <2>. QED  BY <1>1, <1>2, <1>6, <2>1, OpeningKept
<1>15. ValidOk'
  BY <1>1, <1>2, <1>5, ValidOther DEF e
<1>16. SynOk'
  BY <1>2 DEF SynOk
<1>17. ReadPlace(e)' = ReadPlace(e)
  BY <1>2, <1>6 DEF ReadPlace
<1>18. TypedToo'
  BY <1>1, <1>2, TypesKept DEF TypedToo
<1>. QED  BY <1>1, <1>2, <1>5, <1>7, <1>8, <1>9, <1>10, <1>11, <1>12, <1>13, <1>14, <1>15, <1>16, <1>17, <1>18, LocalStep

\* The server accepts, or turns the client away (p2d.hpp:645-671).
LEMMA KeepsAccept ==
    ASSUME Inv, CountInv', Accept
    PROVE  Inv'
<1>. DEFINE e == "server"
<1>1. /\ CountInv /\ TypedToo /\ OpeningOk /\ ValidOk /\ SynOk /\ QueueOk(e) /\ WritesOk(e) /\ GreetOk(e)
      /\ EarlyOk(e) /\ TmpOk(e) /\ Queued(e) /\ e \in Ends
  BY InvEnds DEF Ends
<1>2. /\ UNCHANGED <<link, wire, qOut, handshakeIn, tmpIn, qIn, validated, sent, opening, breaks>>
      /\ link = "up"
  BY DEF Accept
<1>3. /\ PeerRests(e) /\ io[e].socket = "none" /\ io[e].writing = << >> /\ qOut[e] = << >>
      /\ Reader(e) = NoToken /\ Writer(e) = NoToken /\ Writer(e)' = NoToken
      /\ Posts(e)' = Posts(e) /\ Queued(e)'
      /\ \/ /\ io'[e].socket = "open" /\ Reader(e)' = <<"reading", "readValidation">>
            /\ io'[e].writing = <<[op |-> "writeValidation", unit |-> Handshake(Challenge)]>>
         \/ /\ io'[e].socket = "closed" /\ Reader(e)' = NoToken /\ io'[e].writing = << >>
  BY <1>1, AcceptDone
<1>. HIDE DEF e
<1>4. CASE io'[e].socket = "closed" /\ Reader(e)' = NoToken /\ io'[e].writing = << >>
  BY <1>1, <1>2, <1>3, <1>4, ClosedStep
<1>5. CASE /\ io'[e].socket = "open" /\ Reader(e)' = <<"reading", "readValidation">>
           /\ io'[e].writing = <<[op |-> "writeValidation", unit |-> Handshake(Challenge)]>>
  <2>1. handshakeIn[e] = NoUnit /\ qIn[e] = << >> /\ ~validated
    BY <1>1, <1>3 DEF EarlyOk, ValidOk, e
  <2>2. QueueOk(e)' /\ Out(e)' = Out(e)
    <3>1. Taken(e)' = Taken(e)
      BY <1>2, <1>3 DEF Taken
    <3>. QED  BY <1>1, <1>2, <1>3, <3>1, QueueKept
  <2>3. io'[e].writing # << >> /\ Head(io'[e].writing).op = "writeValidation"
    BY <1>5
  <2>4. ~Greeted(e) /\ ~Greeted(e)' /\ WritePlace(e)' = WritePlace(e)
    BY <1>3, <2>3 DEF Greeted, WritePlace, e
  <2>5. WritesOk(e)'
    <3>1. Writer(e)' # <<"writing", "writeBody">>
      BY <1>3 DEF NoToken
    <3>2. \A i \in DOMAIN io'[e].writing : i = 1 /\ io'[e].writing[i].op = "writeValidation"
                                           /\ io'[e].writing[i].unit = Hello("server")
      BY <1>5 DEF Hello
    <3>. QED  BY <3>1, <3>2 DEF WritesOk, Carries, e
  <2>6. InStep' => InStep
    <3>1. io'["client"] = io["client"]
      BY <1>3 DEF PeerRests, Peer, e
    <3>. QED  BY <1>2, <1>3, <3>1 DEF InStep, Ends, e
  <2>7. GreetOk(e)'
    BY <1>1, <1>3, <2>2, <2>4, <2>6 DEF GreetOk
  <2>8. EarlyOk(e)'
    BY <1>2, <1>5, <2>1 DEF EarlyOk, ReaderOp
  <2>9. TmpOk(e)'
    <3>1. tmpIn[e].body = BodyOf(sent[Peer(e)], Len(qIn[e])) /\ Len(qIn[e]) <= Len(sent[Peer(e)])
      BY <1>1, <1>3 DEF TmpOk
    <3>. QED  BY <1>2, <1>5, <3>1 DEF TmpOk, ReaderOp
  <2>10. OpeningOk'
    <3>1. "client" \in Ends /\ io'["client"] = io["client"]
      BY <1>3 DEF PeerRests, Peer, e, Ends
    <3>2. Reader("client")' = Reader("client") /\ ReaderOp("client")' = ReaderOp("client")
      BY <3>1, SameEnd DEF ReaderOp
    <3>. QED  BY <1>1, <1>2, <3>2, OpeningKept DEF OpeningOk
  <2>11. ValidOk'
    <3>1. ReaderOp("server")' = "readValidation"
      BY <1>5 DEF ReaderOp, e
    <3>. QED  BY <1>1, <1>2, <1>5, <2>1, <3>1, ValidKept DEF e
  <2>12. SynOk'
    BY <1>2 DEF SynOk
  <2>13. ReadPlace(e)' = ReadPlace(e)
    BY <1>2, <2>1 DEF ReadPlace
  <2>14. TypedToo'
    BY <1>1, <1>2, TypesKept DEF TypedToo
  <2>. QED  BY <1>1, <1>2, <1>3, <1>5, <2>2, <2>4, <2>5, <2>6, <2>7, <2>8, <2>9, <2>10, <2>11, <2>12, <2>13, <2>14, LocalStep
<1>. QED  BY <1>3, <1>4, <1>5

\* A read comes to the end of the stream, or the connection is reset.
LEMMA KeepsReceiveFails ==
    ASSUME Inv, CountInv', NEW e \in Ends, ReceiveFails(e)
    PROVE  Inv'
<1>1. /\ CountInv /\ TypedToo /\ OpeningOk /\ ValidOk /\ EarlyOk(e) /\ TmpOk(e) /\ Queued(e)
  BY InvEnds
<1>2. /\ UNCHANGED <<link, wire, qOut, handshakeIn, tmpIn, qIn, validated, sent, opening, breaks>>
      /\ CompleteRead(e, FALSE) /\ io[e].reading # << >> /\ FALSE \in BOOLEAN
  BY DEF ReceiveFails
<1>. DEFINE op == Head(io[e].reading)
<1>3. /\ PeerRests(e) /\ io[e].socket = "open" /\ io'[e].socket = "open"
      /\ io'[e].writing = io[e].writing /\ op \in ReadOps
      /\ Reader(e) = <<"reading", op>> /\ Reader(e)' = <<"failed", op>>
      /\ Writer(e)' = Writer(e) /\ Posts(e)' = Posts(e) /\ Queued(e)'
  BY <1>1, <1>2, ReadDone
<1>. HIDE DEF op
<1>4. ReaderOp(e) = op /\ ReaderOp(e)' = op
  BY <1>3 DEF ReaderOp
<1>5. ReadPlace(e)' = ReadPlace(e)
  BY <1>2, <1>3, <1>4 DEF ReadPlace
<1>6. EarlyOk(e)'
  BY <1>1, <1>2, <1>3, <1>4 DEF EarlyOk, ReadOps
<1>7. TmpOk(e)'
  BY <1>1, <1>2, <1>3, <1>4 DEF TmpOk
<1>8. ValidOk'
  <2>1. CASE e = "client"
    BY <1>1, <1>2, <1>3, <2>1, ValidOther
  <2>2. CASE e = "server"
    BY <1>1, <1>2, <1>3, <1>4, <2>2 DEF ValidOk
  <2>. QED  BY <2>1, <2>2 DEF Ends
<1>9. e = "client" /\ opening = Hello("client") =>
          ReaderOp(e)' \in {"none", "writeValidation", "readHeader", "readBody"}
  BY <1>1, <1>3, <1>4 DEF OpeningOk, ReadOps
<1>10. TypedToo'
  BY <1>1, <1>2, TypesKept DEF TypedToo
<1>11. Reader(e)' # <<"writing", "writeValidation">>
  BY <1>3
<1>. QED  BY <1>2, <1>3, <1>5, <1>6, <1>7, <1>8, <1>9, <1>10, <1>11, ReaderStep

\* The connection breaks, and what was in flight is lost from some point on.
LEMMA KeepsReset ==
    ASSUME Inv, CountInv', Reset
    PROVE  Inv'
<1>1. /\ CountInv /\ TypedToo /\ OpeningOk /\ ValidOk /\ SynOk
      /\ \A d \in Ends : /\ QueueOk(d) /\ WritesOk(d) /\ EarlyOk(d) /\ TmpOk(d)
                         /\ StreamOk(d) /\ Queued(d)
  BY InvEnds DEF Inv, EndInv, QueueOk
<1>2. /\ link' = "reset" /\ breaks < MaxBreaks /\ breaks' = breaks + 1
      /\ UNCHANGED <<io, qOut, handshakeIn, tmpIn, qIn, validated, sent, opening>>
  BY DEF Reset
<1>3. wire \in [Ends -> Seq(Units)]
  BY <1>1 DEF TypedToo
<1>4. /\ wire' \in [Ends -> Seq(Units)]
      /\ \A d \in Ends : \E n \in 0 .. Len(wire[d]) : wire'[d] = SubSeq(wire[d], 1, n)
  <2>1. PICK c \in 0 .. Len(wire["client"]), s \in 0 .. Len(wire["server"]) :
             wire' = [e \in Ends |-> SubSeq(wire[e], 1, IF e = "client" THEN c ELSE s)]
    BY DEF Reset
  <2>2. ASSUME NEW d \in Ends
        PROVE  \E n \in 0 .. Len(wire[d]) : wire'[d] = SubSeq(wire[d], 1, n)
    <3>. DEFINE n == IF d = "client" THEN c ELSE s
    <3>1. n \in 0 .. Len(wire[d]) /\ wire'[d] = SubSeq(wire[d], 1, n)
      BY <2>1 DEF Ends
    <3>. HIDE DEF n
    <3>. QED  BY <3>1
  <2>3. ASSUME NEW d \in Ends PROVE wire'[d] \in Seq(Units)
    <3>1. PICK n \in 0 .. Len(wire[d]) : wire'[d] = SubSeq(wire[d], 1, n)
      BY <2>2
    <3>2. wire[d] \in Seq(Units)
      BY <1>3
    <3>. DEFINE v == wire[d]
    <3>. HIDE DEF v
    <3>3. SubSeq(v, 1, n) \in Seq(Units)
      BY <3>1, <3>2 DEF v
    <3>. QED  BY <3>1, <3>3 DEF v
  <2>. QED  BY <2>1, <2>2, <2>3
<1>5. ~InStep'
  BY <1>2 DEF InStep
<1>6. ASSUME NEW d \in Ends PROVE EndInv(d)'
  <2>1. /\ QueueOk(d) /\ WritesOk(d) /\ EarlyOk(d) /\ TmpOk(d) /\ StreamOk(d) /\ Queued(d)
        /\ Peer(d) \in Ends
    BY <1>1, TwoEnds
  <2>2. io'[d] = io[d] /\ Reader(d)' = Reader(d) /\ Writer(d)' = Writer(d) /\ Taken(d)' = Taken(d) /\ Queued(d)'
    BY <1>2, <2>1, SameEnd
  <2>3. QueueOk(d)'
    BY <1>2, <2>1, <2>2, QueueKept
  <2>4. WritesOk(d)'
    BY <1>2, <2>1, <2>2, WritesKept
  <2>5. GreetOk(d)'
    BY <1>5 DEF GreetOk
  <2>6. EarlyOk(d)'
    BY <1>2, <2>1, <2>2, EarlyKept
  <2>7. TmpOk(d)'
    BY <1>2, <2>1, <2>2, TmpKept
  <2>8. ReadPlace(d)' = ReadPlace(d)
    BY <1>2, <2>2, PlacesKept
  <2>9. StreamOk(d)'
    <3>1. SUFFICES ASSUME d = "server" => opening \notin Headers, io[d].socket # "closed"
                   PROVE  \E b : Chain(wire'[d], Stream(Peer(d), sent[Peer(d)]), ReadPlace(d), b)
      BY <1>2, <1>5, <2>8 DEF StreamOk
    <3>2. PICK b : Chain(wire[d], Stream(Peer(d), sent[Peer(d)]), ReadPlace(d), b)
      BY <2>1, <3>1 DEF StreamOk
    <3>3. PICK n \in 0 .. Len(wire[d]) : wire'[d] = SubSeq(wire[d], 1, n)
      BY <1>4
    <3>4. wire[d] \in Seq(Units)
      BY <1>3
    <3>. DEFINE R == Stream(Peer(d), sent[Peer(d)])
                a == ReadPlace(d)
                v == wire[d]
    <3>. HIDE DEF R, a, v
    <3>5. \E c : Chain(SubSeq(v, 1, n), R, a, c)
      BY <3>2, <3>4, <3>3, ChainPrefix DEF v, R, a
    <3>. QED  BY <3>3, <3>5 DEF R, a, v
  <2>. QED  BY <2>3, <2>4, <2>5, <2>6, <2>7, <2>9 DEF EndInv
<1>7. OpeningOk'
  <2>1. /\ wire["server"] = << >> => wire'["server"] = << >>
        /\ wire'["server"] # << >> => wire["server"] # << >> /\ Head(wire'["server"]) = Head(wire["server"])
    <3>. DEFINE v == wire["server"]
    <3>1. v \in Seq(Units)
      BY <1>3 DEF Ends
    <3>2. PICK n \in 0 .. Len(v) : wire'["server"] = SubSeq(v, 1, n)
      BY <1>4 DEF Ends
    <3>. HIDE DEF v
    <3>3. Len(SubSeq(v, 1, n)) = n /\ \A i \in 1 .. n : SubSeq(v, 1, n)[i] = v[i]
      BY <3>1
    <3>4. SubSeq(v, 1, n) \in Seq(Units) /\ Len(v) \in Nat
      BY <3>1
    <3>. DEFINE u == SubSeq(v, 1, n)
    <3>5. u \in Seq(Units) /\ Len(u) = n /\ (\A i \in 1 .. n : u[i] = v[i])
      BY <3>3, <3>4
    <3>. HIDE DEF u
    <3>6. v = << >> => u = << >>
      BY <3>1, <3>4, <3>5
    <3>7. u # << >> => v # << >> /\ Head(u) = Head(v)
      <4>1. SUFFICES ASSUME u # << >> PROVE v # << >> /\ Head(u) = Head(v)
        OBVIOUS
      <4>2. 1 \in 1 .. n /\ Head(u) = u[1] /\ v # << >>
        BY <3>1, <3>4, <3>5, <4>1
      <4>3. Head(v) = v[1]
        BY <3>1, <4>2
      <4>. QED  BY <3>5, <4>2, <4>3
    <3>. QED  BY <3>2, <3>6, <3>7 DEF u, v
  <2>2. Reader("client")' = Reader("client") /\ ReaderOp("client")' = ReaderOp("client")
    BY <1>2, SameEnd DEF Ends, ReaderOp
  <2>. QED  BY <1>1, <1>2, <2>1, <2>2 DEF OpeningOk
<1>8. ValidOk'
  <2>1. ReaderOp("server")' = ReaderOp("server")
    BY <1>2, SameEnd DEF Ends, ReaderOp
  <2>. QED  BY <1>1, <1>2, <2>1 DEF ValidOk
<1>9. SynOk'
  BY <1>2 DEF SynOk
<1>10. TypedToo'
  <2>1. breaks' \in 0 .. MaxBreaks
    BY <1>1, <1>2, MessagesAssumption DEF TypedToo
  <2>. QED  BY <1>1, <1>2, <1>4, <2>1 DEF TypedToo
<1>. QED  BY <1>6, <1>7, <1>8, <1>9, <1>10 DEF Inv

\* The names of an end and of its peer
LEMMA EndNames ==
    ASSUME NEW e \in Ends
    PROVE  (e = "client" /\ Peer(e) = "server") \/ (e = "server" /\ Peer(e) = "client")
BY DEF Ends, Peer

\* The message at the head of m_qMessagesOut, in the sequence of those that were sent
LEMMA HeadSent ==
    ASSUME CountInv, NEW e \in Ends, QueueOk(e), qOut[e] # << >>
    PROVE  LET k == Out(e) + 1
           IN  /\ k \in 1 .. Len(sent[e]) /\ k \in Nat /\ Head(qOut[e]) = sent[e][k]
               /\ Head(qOut[e]) \in Messages /\ sent[e] \in Seq(Messages)
<1>. DEFINE q == qOut[e]
            l == Len(sent[e])
<1>1. q \in Seq(Messages) /\ sent[e] \in Seq(Messages) /\ q # << >> /\ l \in Nat
  BY EndTyped
<1>2. Len(q) \in Nat /\ Len(q) >= 1 /\ Head(q) = q[1] /\ Head(q) \in Messages
  <2>. HIDE DEF q
  <2>. QED  BY <1>1
<1>3. Posts(e) \in Nat /\ Taken(e) = l - Posts(e) /\ Taken(e) \in Nat
  BY EndTyped, CntNat DEF Posts, Taken, QueueOk, Queued
<1>4. Out(e) \in Nat /\ Out(e) = Taken(e) - Len(q)
  BY DEF Out, QueueOk
<1>5. Out(e) + 1 \in 1 .. l
  <2>. HIDE DEF q, l
  <2>. QED  BY <1>1, <1>2, <1>3, <1>4
<1>6. q[1] = sent[e][Out(e) + 1]
  <2>1. 1 \in 1 .. Len(q)
    BY <1>2
  <2>. QED  BY <2>1 DEF QueueOk
<1>. QED  BY <1>1, <1>2, <1>4, <1>5, <1>6

\* A write that is put on the wire stands at the place of the next unit.
LEMMA WritesUnit ==
    ASSUME Inv, CountInv', NEW e \in Ends, io[e].writing # << >>, Head(io[e].writing).op # "connect",
           CompleteWrite(e, TRUE), InStep,
           opening' = IF e = "client" /\ opening = NoUnit THEN Head(io[e].writing).unit ELSE opening,
           UNCHANGED <<link, qOut, handshakeIn, tmpIn, qIn, validated, sent, breaks>>
    PROVE  LET u == Head(io[e].writing).unit
           IN  /\ u \in Units /\ Greeted(e)'
               /\ e = "client" /\ opening = NoUnit => u \in {Hello("client")} \cup Headers
               /\ (e = "client" => opening' \notin Headers) =>
                     <<WritePlace(e), u, WritePlace(e)'>> \in Stream(e, sent[e])
<1>1. /\ CountInv /\ QueueOk(e) /\ WritesOk(e) /\ GreetOk(e) /\ OpeningOk
  BY InvEnds
<1>. DEFINE w == Head(io[e].writing)
            u == w.unit
            k == Out(e) + 1
            s == sent[e]
<1>2. /\ io[e].socket = "open" /\ io'[e].socket = "open"
      /\ w.op \in WriteOps /\ u = Carries(e, w.op)
      /\ w.op \in ReadChain(e) => Reader(e) = <<"writing", w.op>>
      /\ w.op \in DataOps => Writer(e) = <<"writing", w.op>>
      /\ Writer(e)' = IF w.op \in DataOps THEN <<"ok", w.op>> ELSE Writer(e)
      /\ Out(e)' = Out(e) /\ (e = "server" => Greeted(e)') /\ qOut'[e] = qOut[e]
  BY WroteEnd
<1>3. Out(e) \in Nat /\ e \in {"client", "server"} /\ s \in Seq(Messages)
  BY <1>1, EndTyped DEF QueueOk, Ends
<1>4. e = "client" => opening' = IF opening = NoUnit THEN u ELSE opening
  BY DEF u, w
<1>5. e = "server" => (Greeted(e) <=> w.op # "writeValidation")
  BY <1>2 DEF Greeted
<1>. HIDE DEF w, u
<1>6. CASE w.op = "writeValidation"
  <2>1. u = Hello(e) /\ Hello(e) \in Units /\ Hello(e) # NoUnit /\ Hello(e) \notin Headers
    BY <1>2, <1>6, UnitKinds DEF Carries
  <2>2. Greeted(e)'
    BY <1>1, <1>2, <1>3, <1>4, <2>1, UnitKinds DEF Greeted
  <2>3. ASSUME e = "client" => opening' \notin Headers
        PROVE  <<WritePlace(e), u, WritePlace(e)'>> \in Stream(e, sent[e])
    <3>1. ~Greeted(e)
      <4>1. CASE e = "server"
        BY <1>5, <1>6, <4>1
      <4>2. CASE e = "client"
        <5>1. Reader(e) = <<"writing", "writeValidation">>
          BY <1>2, <1>6, <4>2, ChainOps
        <5>2. opening # Hello("client")
          BY <1>1, <4>2, <5>1 DEF OpeningOk
        <5>3. opening = NoUnit
          BY <1>1, <1>4, <2>3, <4>2, <5>2 DEF OpeningOk
        <5>. QED  BY <4>2, <5>3 DEF Greeted
      <4>. QED  BY <1>3, <4>1, <4>2
    <3>2. Out(e) = 0 /\ Writer(e) \in {NoToken, <<"writing", "writeHeader">>}
      BY <1>1, <3>1 DEF GreetOk
    <3>3. Writer(e)' = Writer(e) /\ Out(e)' = 0
      BY <1>2, <1>6, <3>2 DEF DataOps
    <3>4. WritePlace(e) = <<0, "hello">> /\ WritePlace(e)' = <<0 + 1, "header">>
      BY <2>2, <3>1, <3>2, <3>3 DEF WritePlace, NoToken
    <3>. QED  BY <1>3, <2>1, <3>4, StreamHello
  <2>4. e = "client" /\ opening = NoUnit => u \in {Hello("client")} \cup Headers
    BY <2>1
  <2>. QED  BY <2>1, <2>2, <2>3, <2>4 DEF u, w
<1>7. CASE w.op \in DataOps
  <2>1. Writer(e) = <<"writing", w.op>> /\ Writer(e)' = <<"ok", w.op>> /\ qOut[e] # << >>
        /\ w.op # "writeValidation"
    <3>1. qOut[e] # << >>
      BY <1>1, <1>2, <1>7, WriterIs, AbortKinds
    <3>. QED  BY <1>2, <1>7, <3>1 DEF DataOps
  <2>2. k \in 1 .. Len(s) /\ k \in Nat /\ Head(qOut[e]) = s[k] /\ s[k] \in Messages
    BY <1>1, <2>1, HeadSent
  <2>3. Header(s[k]) \in Headers /\ Header(s[k]) \in Units /\ Body(s[k]) \in Units
        /\ Header(s[k]) # NoUnit
    BY <2>2, UnitKinds
  <2>. HIDE DEF s
  <2>4. CASE w.op = "writeHeader"
    <3>1. u = Header(s[k])
      BY <1>2, <2>2, <2>4 DEF Carries
    <3>2. Greeted(e)'
      BY <1>2, <1>3, <1>4, <2>3, <3>1 DEF Greeted
    <3>3. ASSUME e = "client" => opening' \notin Headers
          PROVE  <<WritePlace(e), u, WritePlace(e)'>> \in Stream(e, s)
      <4>1. Greeted(e)
        <5>1. CASE e = "server"
          BY <1>5, <2>1, <5>1
        <5>2. CASE e = "client"
          BY <1>4, <2>3, <3>1, <3>3, <5>2 DEF Greeted
        <5>. QED  BY <1>3, <5>1, <5>2
      <4>2. WritePlace(e) = <<k, "header">>
        BY <2>1, <2>4, <4>1 DEF WritePlace
      <4>3. WritePlace(e)' = IF s[k].body = << >> THEN <<Out(e) + 2, "header">> ELSE <<k, "body">>
        BY <1>2, <2>1, <2>2, <2>4, <3>2 DEF WritePlace
      <4>4. Out(e) + 2 = k + 1
        BY <1>3
      <4>. HIDE DEF k
      <4>5. s \in Seq(Messages)
        BY <1>3
      <4>. QED  BY <2>2, <3>1, <4>2, <4>3, <4>4, <4>5, StreamHeader
    <3>. QED  BY <2>3, <3>1, <3>2, <3>3 DEF u, w, s
  <2>5. CASE w.op = "writeBody"
    <3>1. u = Body(s[k]) /\ s[k].body # << >>
      BY <1>1, <1>2, <2>1, <2>2, <2>5 DEF Carries, WritesOk
    <3>2. Greeted(e)
      BY <1>1, <2>1, <2>5 DEF GreetOk, NoToken
    <3>3. Greeted(e)'
      <4>1. e = "client" => opening # NoUnit /\ opening' = opening
        BY <1>4, <3>2 DEF Greeted
      <4>. QED  BY <1>2, <1>3, <4>1 DEF Greeted
    <3>4. <<WritePlace(e), u, WritePlace(e)'>> \in Stream(e, s)
      <4>1. WritePlace(e) = <<k, "body">>
        BY <2>1, <2>5, <3>2 DEF WritePlace
      <4>2. WritePlace(e)' = <<Out(e) + 2, "header">>
        BY <1>2, <2>1, <2>5, <3>3 DEF WritePlace
      <4>3. Out(e) + 2 = k + 1
        BY <1>3
      <4>. HIDE DEF k
      <4>4. s \in Seq(Messages)
        BY <1>3
      <4>. QED  BY <2>2, <3>1, <4>1, <4>2, <4>3, <4>4, StreamBody
    <3>5. e = "client" => opening # NoUnit
      BY <3>2 DEF Greeted
    <3>. QED  BY <2>3, <3>1, <3>3, <3>4, <3>5 DEF u, w, s
  <2>. QED  BY <1>7, <2>4, <2>5 DEF DataOps
<1>. QED  BY <1>2, <1>6, <1>7 DEF WriteOps

\* A write that does not reach the wire
LEMMA KeepsLostWrite ==
    ASSUME Inv, CountInv', NEW e \in Ends, io[e].writing # << >>, Head(io[e].writing).op # "connect",
           NEW s \in BOOLEAN, CompleteWrite(e, s), link # "up" \/ io[Peer(e)].socket = "closed",
           UNCHANGED <<link, wire, qOut, handshakeIn, tmpIn, qIn, validated, sent, opening, breaks>>
    PROVE  Inv'
<1>1. /\ CountInv /\ TypedToo /\ OpeningOk /\ ValidOk /\ SynOk
  BY InvEnds
<1>. DEFINE w == Head(io[e].writing)
<1>2. /\ PeerRests(e) /\ io[e].socket = "open" /\ io'[e].socket = "open" /\ w.op \in WriteOps
      /\ w.op \in ReadChain(e) => Reader(e) = <<"writing", w.op>>
      /\ Reader(e)' = IF w.op \in ReadChain(e) THEN <<IF s THEN "ok" ELSE "failed", w.op>> ELSE Reader(e)
      /\ ReaderOp(e)' = ReaderOp(e) /\ ReadPlace(e)' = ReadPlace(e)
      /\ QueueOk(e)' /\ WritesOk(e)' /\ EarlyOk(e)' /\ TmpOk(e)'
  BY WroteEnd
<1>3. link # "syn"
  <2>1. CASE e = "client"
    BY <1>1, <1>2, <2>1 DEF SynOk
  <2>2. CASE e = "server"
    BY <1>1, <1>2, <2>2 DEF SynOk
  <2>. QED  BY <2>1, <2>2 DEF Ends
<1>4. ~InStep'
  BY <1>2, <1>3, TwoEnds DEF InStep, PeerRests
<1>. HIDE DEF w
<1>5. GreetOk(e)'
  BY <1>4 DEF GreetOk
<1>6. \A d \in Ends : ReaderOp(d)' = ReaderOp(d)
                      /\ (Reader(d)' = <<"writing", "writeValidation">> => Reader(d)' = Reader(d))
  <2>1. Reader(Peer(e))' = Reader(Peer(e))
    BY <1>2, TwoEnds, SameEnd DEF PeerRests
  <2>2. Reader(e)' = <<"writing", "writeValidation">> => Reader(e)' = Reader(e)
    BY <1>2
  <2>. QED  BY <1>2, <2>1, <2>2, TwoEnds DEF ReaderOp
<1>7. "client" \in Ends /\ "server" \in Ends
  BY DEF Ends
<1>8. OpeningOk'
  <2>1. opening = Hello("client") => /\ ReaderOp("client")' \notin {"connect", "readValidation"}
                                     /\ Reader("client")' # <<"writing", "writeValidation">>
    BY <1>1, <1>6, <1>7 DEF OpeningOk
  <2>. QED  BY <1>1, <2>1, OpeningKept
<1>9. ValidOk'
  <2>1. io["server"].socket # "none" => io'["server"].socket # "none"
    BY <1>2, <1>7, TwoEnds DEF PeerRests
  <2>2. ReaderOp("server")' = ReaderOp("server")
    BY <1>6, <1>7
  <2>. QED  BY <1>1, <2>1, <2>2, ValidKept DEF ValidOk
<1>10. SynOk'
  BY <1>3 DEF SynOk
<1>11. TypedToo'
  BY <1>1, TypesKept DEF TypedToo
<1>. QED  BY <1>2, <1>4, <1>5, <1>8, <1>9, <1>10, <1>11, LocalStep

\* A write that reaches the wire
LEMMA KeepsWrite ==
    ASSUME Inv, CountInv', NEW e \in Ends, io[e].writing # << >>, Head(io[e].writing).op # "connect",
           CompleteWrite(e, TRUE), link = "up", io[Peer(e)].socket # "closed",
           wire' = [wire EXCEPT ![Peer(e)] = Append(@, Head(io[e].writing).unit)],
           opening' = IF e = "client" /\ opening = NoUnit THEN Head(io[e].writing).unit ELSE opening,
           UNCHANGED <<link, qOut, handshakeIn, tmpIn, qIn, validated, sent, breaks>>
    PROVE  Inv'
<1>. DEFINE p == Peer(e)
            w == Head(io[e].writing)
            u == w.unit
<1>1. p \in Ends /\ Peer(p) = e /\ p # e /\ (\A d \in Ends : d = e \/ d = p)
  BY TwoEnds
<1>2. /\ CountInv /\ TypedToo /\ OpeningOk /\ ValidOk /\ StreamOk(e)
      /\ QueueOk(p) /\ WritesOk(p) /\ GreetOk(p) /\ EarlyOk(p) /\ TmpOk(p) /\ StreamOk(p) /\ Queued(p)
  BY <1>1, InvEnds
<1>3. /\ PeerRests(e) /\ io[e].socket = "open" /\ io'[e].socket = "open" /\ w.op \in WriteOps
      /\ u = Carries(e, w.op)
      /\ w.op \in ReadChain(e) => Reader(e) = <<"writing", w.op>>
      /\ Reader(e)' = IF w.op \in ReadChain(e) THEN <<"ok", w.op>> ELSE Reader(e)
      /\ ReaderOp(e)' = ReaderOp(e) /\ ReadPlace(e)' = ReadPlace(e)
      /\ QueueOk(e)' /\ WritesOk(e)' /\ EarlyOk(e)' /\ TmpOk(e)'
  BY WroteEnd
<1>4. io'[p] = io[p] /\ InStep /\ InStep'
  <2>1. io'[p] = io[p]
    BY <1>3 DEF PeerRests
  <2>. QED  BY <1>1, <1>3, <2>1 DEF InStep
<1>5. /\ u \in Units /\ Greeted(e)'
      /\ e = "client" /\ opening = NoUnit => u \in {Hello("client")} \cup Headers
      /\ (e = "client" => opening' \notin Headers) =>
            <<WritePlace(e), u, WritePlace(e)'>> \in Stream(e, sent[e])
  BY <1>4, WritesUnit
<1>6. /\ wire \in [Ends -> Seq(Units)] /\ wire' \in [Ends -> Seq(Units)]
      /\ wire'[p] = Append(wire[p], u) /\ wire'[e] = wire[e]
  <2>1. wire \in [Ends -> Seq(Units)] /\ wire' = [wire EXCEPT ![p] = Append(@, u)]
    BY <1>2 DEF TypedToo
  <2>. HIDE DEF u, p
  <2>. QED  BY <1>1, <1>5, <2>1
<1>7. /\ e = "client" => opening' = IF opening = NoUnit THEN u ELSE opening
      /\ e = "server" => opening' = opening
      /\ opening # NoUnit => opening' = opening
  OBVIOUS
<1>8. (e = "client" /\ p = "server") \/ (e = "server" /\ p = "client")
  BY EndNames
<1>. HIDE DEF p, w, u
<1>9. /\ Reader(p)' = Reader(p) /\ Writer(p)' = Writer(p) /\ Taken(p)' = Taken(p) /\ Queued(p)'
  BY <1>1, <1>2, <1>4, SameEnd
<1>10. QueueOk(p)' /\ Out(p)' = Out(p)
  BY <1>1, <1>2, <1>9, QueueKept
<1>11. Greeted(p)' = Greeted(p) /\ WritePlace(p)' = WritePlace(p) /\ ReadPlace(p)' = ReadPlace(p)
  <2>1. Greeted(p)' = Greeted(p)
    BY <1>4, <1>7, <1>8 DEF Greeted
  <2>. QED  BY <1>1, <1>9, <1>10, <2>1, PlacesKept
<1>12. WritesOk(p)' /\ EarlyOk(p)' /\ TmpOk(p)'
  BY <1>1, <1>2, <1>4, <1>9, WritesKept, EarlyKept, TmpKept
<1>13. GreetOk(p)'
  BY <1>1, <1>2, <1>4, <1>9, <1>10, <1>11, GreetKept
<1>14. GreetOk(e)'
  BY <1>5 DEF GreetOk
<1>15. StreamOk(e)'
  <2>1. Peer(e) = p
    BY DEF p
  <2>. QED  BY <1>2, <1>3, <1>4, <1>6, <1>7, <1>11, <2>1, StreamKept
<1>16. StreamOk(p)'
  <2>1. SUFFICES ASSUME p = "server" => opening' \notin Headers, io[p].socket # "closed"
                 PROVE  Chain(wire'[p], Stream(e, sent[e]), ReadPlace(p), WritePlace(e)')
    BY <1>1, <1>4, <1>11 DEF StreamOk
  <2>2. p = "server" => opening \notin Headers
    BY <1>7, <2>1, UnitKinds
  <2>3. Chain(wire[p], Stream(e, sent[e]), ReadPlace(p), WritePlace(e))
    BY <1>1, <1>2, <1>4, <2>1, <2>2 DEF StreamOk
  <2>4. <<WritePlace(e), u, WritePlace(e)'>> \in Stream(e, sent[e])
    BY <1>5, <1>8, <2>1
  <2>5. wire[p] \in Seq(Units)
    BY <1>1, <1>6
  <2>. DEFINE R == Stream(e, sent[e])
              a == ReadPlace(p)
              b == WritePlace(e)
              c == WritePlace(e)'
              v == wire[p]
  <2>. HIDE DEF R, a, b, c, v
  <2>6. Chain(Append(v, u), R, a, c)
    BY <1>5, <2>3, <2>4, <2>5, ChainAppend DEF R, a, b, c, v
  <2>. QED  BY <1>6, <2>6 DEF R, a, c, v
<1>17. OpeningOk'
  <2>1. opening' \in {NoUnit, Hello("client")} \cup Headers
    BY <1>2, <1>5, <1>7, <1>8 DEF OpeningOk
  <2>2. opening' = Hello("client") => /\ ReaderOp("client")' \notin {"connect", "readValidation"}
                                      /\ Reader("client")' # <<"writing", "writeValidation">>
    <3>1. CASE e = "server"
      BY <1>2, <1>7, <1>8, <1>9, <3>1 DEF OpeningOk, ReaderOp
    <3>2. CASE e = "client" /\ opening # NoUnit
      BY <1>2, <1>3, <1>7, <3>2 DEF OpeningOk
    <3>3. CASE e = "client" /\ opening = NoUnit
      <4>1. SUFFICES ASSUME u = Hello("client")
                     PROVE  /\ ReaderOp("client")' \notin {"connect", "readValidation"}
                            /\ Reader("client")' # <<"writing", "writeValidation">>
        BY <1>7, <3>3
      <4>2. w.op = "writeValidation"
        <5>1. u = Carries(e, w.op) /\ w.op \in WriteOps /\ u.unit = "handshake"
          BY <1>3, <4>1, UnitKinds
        <5>2. Carries(e, "writeHeader").unit = "header" /\ Carries(e, "writeBody").unit = "body"
          BY UnitKinds DEF Carries
        <5>. QED  BY <5>1, <5>2 DEF WriteOps, DataOps
      <4>3. Reader("client")' = <<"ok", "writeValidation">>
        BY <1>3, <3>3, <4>2, ChainOps
      <4>. QED  BY <4>3 DEF ReaderOp
    <3>. QED  BY <1>8, <3>1, <3>2, <3>3
  <2>3. opening' = NoUnit => wire'["server"] = << >>
    <3>1. CASE e = "server"
      BY <1>2, <1>6, <1>7, <3>1 DEF OpeningOk
    <3>2. CASE e = "client"
      BY <1>5, <1>7, <3>2, UnitKinds
    <3>. QED  BY <1>8, <3>1, <3>2
  <2>4. (handshakeIn["server"] = NoUnit /\ (wire'["server"] # << >> \/ (opening' # NoUnit /\ link = "up"))) =>
            wire'["server"] # << >> /\ Head(wire'["server"]) = opening'
    <3>1. CASE e = "server"
      BY <1>2, <1>6, <1>7, <3>1 DEF OpeningOk
    <3>2. CASE e = "client"
      <4>. DEFINE v == wire["server"]
      <4>1. v \in Seq(Units) /\ wire'["server"] = Append(v, u)
        BY <1>1, <1>6, <1>8, <3>2
      <4>2. /\ Append(v, u) # << >>
            /\ v # << >> => Head(Append(v, u)) = Head(v)
            /\ v = << >> => Head(Append(v, u)) = u
        <5>. DEFINE x == Append(v, u)
        <5>1. v \in Seq(Units) /\ u \in Units
          BY <1>5, <4>1
        <5>. HIDE DEF v
        <5>2. x \in Seq(Units) /\ Len(x) = Len(v) + 1 /\ Len(v) \in Nat /\ x[Len(v) + 1] = u
              /\ \A i \in 1 .. Len(v) : x[i] = v[i]
          BY <5>1
        <5>. HIDE DEF x
        <5>3. x # << >> /\ Head(x) = x[1]
          BY <5>2
        <5>4. v = << >> => Head(x) = u
          <6>1. v = << >> => Len(v) = 0
            OBVIOUS
          <6>. QED  BY <5>2, <5>3, <6>1
        <5>5. v # << >> => Head(x) = Head(v)
          <6>1. v # << >> => 1 \in 1 .. Len(v) /\ Head(v) = v[1]
            BY <5>1
          <6>. QED  BY <5>2, <5>3, <6>1
        <5>. QED  BY <5>3, <5>4, <5>5 DEF x
      <4>3. handshakeIn["server"] = NoUnit /\ opening # NoUnit => v # << >> /\ Head(v) = opening
        BY <1>2 DEF OpeningOk
      <4>4. opening = NoUnit => v = << >>
        BY <1>2 DEF OpeningOk
      <4>. HIDE DEF v
      <4>. QED  BY <1>7, <3>2, <4>1, <4>2, <4>3, <4>4
    <3>. QED  BY <1>8, <3>1, <3>2
  <2>5. handshakeIn["client"] \in {NoUnit, Hello("server")} /\ handshakeIn["server"] \in {NoUnit, opening'}
    BY <1>2, <1>7 DEF OpeningOk
  <2>. QED  BY <2>1, <2>2, <2>3, <2>4, <2>5 DEF OpeningOk
<1>18. ValidOk'
  <2>1. ReaderOp("server")' = ReaderOp("server") /\ io'["server"].socket = io["server"].socket
    BY <1>3, <1>4, <1>8, <1>9 DEF ReaderOp
  <2>2. validated => opening' = opening
    BY <1>2, <1>7, UnitKinds DEF ValidOk
  <2>. QED  BY <1>2, <2>1, <2>2 DEF ValidOk
<1>19. SynOk'
  BY DEF SynOk
<1>20. TypedToo'
  BY <1>2, <1>6 DEF TypedToo
<1>. QED  BY <1>1, <1>3, <1>10, <1>12, <1>13, <1>14, <1>15, <1>16, <1>17, <1>18, <1>19, <1>20 DEF Inv, EndInv

\* The network takes the oldest write of e.
LEMMA KeepsTransmit ==
    ASSUME Inv, CountInv', NEW e \in Ends, Transmit(e)
    PROVE  Inv'
<1>1. /\ io[e].writing # << >> /\ Head(io[e].writing).op # "connect" /\ TRUE \in BOOLEAN /\ FALSE \in BOOLEAN
      /\ UNCHANGED <<link, qOut, handshakeIn, tmpIn, qIn, validated, sent, breaks>>
  BY DEF Transmit
<1>2. CASE /\ link = "up" /\ io[Peer(e)].socket # "closed"
           /\ wire' = [wire EXCEPT ![Peer(e)] = Append(@, Head(io[e].writing).unit)]
           /\ opening' = IF e = "client" /\ opening = NoUnit THEN Head(io[e].writing).unit ELSE opening
           /\ CompleteWrite(e, TRUE)
  BY <1>1, <1>2, KeepsWrite
<1>3. CASE link = "up" /\ io[Peer(e)].socket = "closed" /\ CompleteWrite(e, TRUE) /\ UNCHANGED <<wire, opening>>
  BY <1>1, <1>3, KeepsLostWrite
<1>4. CASE /\ link # "up" \/ io[Peer(e)].socket = "closed"
           /\ CompleteWrite(e, FALSE) /\ UNCHANGED <<wire, opening>>
  BY <1>1, <1>4, KeepsLostWrite
<1>. QED  BY <1>2, <1>3, <1>4 DEF Transmit

-----------------------------------------------------------------------------
(* The network delivers                                                        *)

\* What is on its way, and the place where the reader is
LEMMA NextUnit ==
    ASSUME Inv, NEW e \in Ends, wire[e] # << >>, io[e].socket # "closed",
           e = "server" => opening \notin Headers
    PROVE  \E b, c : /\ <<ReadPlace(e), Head(wire[e]), c>> \in Stream(Peer(e), sent[Peer(e)])
                     /\ Chain(Tail(wire[e]), Stream(Peer(e), sent[Peer(e)]), c, b)
                     /\ InStep => b = WritePlace(Peer(e))
<1>1. StreamOk(e) /\ wire[e] \in Seq(Units)
  BY InvEnds DEF TypedToo
<1>2. PICK b : /\ Chain(wire[e], Stream(Peer(e), sent[Peer(e)]), ReadPlace(e), b)
               /\ InStep => b = WritePlace(Peer(e))
  BY <1>1 DEF StreamOk
<1>. DEFINE R == Stream(Peer(e), sent[Peer(e)])
            a == ReadPlace(e)
            v == wire[e]
<1>. HIDE DEF R, a, v
<1>3. \E c : <<a, Head(v), c>> \in R /\ Chain(Tail(v), R, c, b)
  BY <1>1, <1>2, ChainTail DEF R, a, v
<1>. QED  BY <1>2, <1>3 DEF R, a, v

\* What an end has read before its messages, and that the server is not misled about it
LEMMA HasGreeting ==
    ASSUME Inv, NEW e \in Ends, ReaderOp(e) \in {"readHeader", "readBody"}
    PROVE  /\ handshakeIn[e] # NoUnit /\ (e = "server" => opening \notin Headers)
           /\ e = "server" => handshakeIn[e] = opening
           /\ e = "client" => handshakeIn[e] = Hello("server")
<1>1. OpeningOk /\ ValidOk /\ EarlyOk(e)
  BY InvEnds
<1>2. handshakeIn[e] # NoUnit
  BY <1>1 DEF EarlyOk
<1>3. e = "server" => opening \notin Headers
  BY <1>1, UnitKinds DEF ValidOk
<1>. QED  BY <1>1, <1>2, <1>3 DEF OpeningOk

\* readValidation meets the handshake of the peer, unless the server's client has sent
\* a message first.
LEMMA GreetingComes ==
    ASSUME Inv, NEW e \in Ends, wire[e] # << >>, io[e].socket # "closed",
           Reader(e) = <<"reading", "readValidation">>, e = "server" => opening \notin Headers
    PROVE  Head(wire[e]) = Hello(Peer(e))
<1>. DEFINE u == Head(wire[e])
            s == sent[Peer(e)]
<1>1. handshakeIn[e] = NoUnit
  BY InvEnds DEF EarlyOk
<1>2. PICK c : <<ReadPlace(e), u, c>> \in Stream(Peer(e), s)
  BY NextUnit
<1>3. ReadPlace(e) = <<0, "hello">>
  BY <1>1 DEF ReadPlace
<1>4. Peer(e) \in Ends /\ s \in Seq(Messages)
  BY TwoEnds, InvEnds, EndTyped
<1>. HIDE DEF u, s
<1>5. u = Hello(Peer(e))
  BY <1>2, <1>3, <1>4, StreamHello
<1>. QED  BY <1>5 DEF u

\* readHeader meets the header of the next message.
LEMMA HeaderComes ==
    ASSUME Inv, NEW e \in Ends, wire[e] # << >>, io[e].socket # "closed",
           Reader(e) = <<"reading", "readHeader">>
    PROVE  LET s == sent[Peer(e)]
               n == Len(qIn[e])
               m == s[n + 1]
               y == IF m.body = << >> THEN <<n + 2, "header">> ELSE <<n + 1, "body">>
           IN  /\ n + 1 \in 1 .. Len(s) /\ Head(wire[e]) = Header(m) /\ m \in Messages
               /\ \A c : <<ReadPlace(e), Head(wire[e]), c>> \in Stream(Peer(e), s) => c = y
<1>. DEFINE u == Head(wire[e])
            s == sent[Peer(e)]
            n == Len(qIn[e])
            m == s[n + 1]
            y == IF m.body = << >> THEN <<n + 2, "header">> ELSE <<n + 1, "body">>
            k == n + 1
            z == IF m.body = << >> THEN <<k + 1, "header">> ELSE <<k, "body">>
<1>1. ReaderOp(e) = "readHeader"
  BY DEF ReaderOp
<1>2. handshakeIn[e] # NoUnit /\ (e = "server" => opening \notin Headers)
  BY <1>1, HasGreeting
<1>3. Peer(e) \in Ends /\ s \in Seq(Messages) /\ n \in Nat
  BY TwoEnds, InvEnds, EndTyped DEF TypedToo
<1>4. PICK b, c : <<ReadPlace(e), u, c>> \in Stream(Peer(e), s)
  BY <1>2, NextUnit
<1>5. k \in Nat /\ ReadPlace(e) = <<k, "header">>
  BY <1>1, <1>2, <1>3 DEF ReadPlace
<1>6. s[k] = m /\ z = y
  BY <1>3
<1>. HIDE DEF u, s, k, m, z
<1>7. \A x, c2 : <<<<k, "header">>, x, c2>> \in Stream(Peer(e), s) =>
          /\ k \in 1 .. Len(s) /\ x = Header(s[k])
          /\ c2 = IF s[k].body = << >> THEN <<k + 1, "header">> ELSE <<k, "body">>
  <2>1. Peer(e) \in Ends /\ s \in Seq(Messages) /\ k \in Nat
    BY <1>3, <1>5
  <2>. QED  BY <2>1, StreamHeader
<1>8. \A x, c2 : <<ReadPlace(e), x, c2>> \in Stream(Peer(e), s) =>
          k \in 1 .. Len(s) /\ x = Header(m) /\ c2 = z
  BY <1>5, <1>7, <1>6 DEF z
<1>9. /\ k \in 1 .. Len(s) /\ u = Header(m)
      /\ \A c2 : <<ReadPlace(e), u, c2>> \in Stream(Peer(e), s) => c2 = z
  BY <1>4, <1>8
<1>10. m \in Messages /\ k = n + 1
  BY <1>3, <1>9, <1>6 DEF k
<1>. HIDE DEF n, y
<1>11. n + 1 \in 1 .. Len(s) /\ u = Header(m) /\ m \in Messages
       /\ \A c2 : <<ReadPlace(e), u, c2>> \in Stream(Peer(e), s) => c2 = y
  BY <1>9, <1>10, <1>6
<1>. QED  BY <1>11 DEF u, s, n, m, y

\* readBody meets the body that the header in m_msgTemporaryIn announced.
LEMMA BodyComes ==
    ASSUME Inv, NEW e \in Ends, wire[e] # << >>, io[e].socket # "closed",
           Reader(e) = <<"reading", "readBody">>
    PROVE  LET s == sent[Peer(e)]
               n == Len(qIn[e])
               m == s[n + 1]
           IN  /\ n + 1 \in 1 .. Len(s) /\ Head(wire[e]) = Body(m) /\ m \in Messages
               /\ \A c : <<ReadPlace(e), Head(wire[e]), c>> \in Stream(Peer(e), s) => c = <<n + 2, "header">>
               /\ tmpIn[e].header = Header(m) /\ m.size > 0
<1>. DEFINE u == Head(wire[e])
            s == sent[Peer(e)]
            n == Len(qIn[e])
            m == s[n + 1]
            k == n + 1
<1>1. ReaderOp(e) = "readBody"
  BY DEF ReaderOp
<1>2. handshakeIn[e] # NoUnit /\ (e = "server" => opening \notin Headers)
  BY <1>1, HasGreeting
<1>3. Peer(e) \in Ends /\ s \in Seq(Messages) /\ n \in Nat
  BY TwoEnds, InvEnds, EndTyped DEF TypedToo
<1>4. PICK b, c : <<ReadPlace(e), u, c>> \in Stream(Peer(e), s)
  BY <1>2, NextUnit
<1>5. k \in Nat /\ ReadPlace(e) = <<k, "body">> /\ s[k] = m /\ k + 1 = n + 2
  BY <1>1, <1>2, <1>3 DEF ReadPlace
<1>6. tmpIn[e].header = Header(m) /\ m.size > 0
  BY <1>1, InvEnds DEF TmpOk
<1>. HIDE DEF u, s, k, m
<1>7. \A x, c2 : <<<<k, "body">>, x, c2>> \in Stream(Peer(e), s) =>
          /\ k \in 1 .. Len(s) /\ x = Body(s[k]) /\ c2 = <<k + 1, "header">>
          /\ s[k].body # << >>
  BY <1>3, <1>5, StreamBody
<1>8. /\ k \in 1 .. Len(s) /\ u = Body(m)
      /\ \A c2 : <<ReadPlace(e), u, c2>> \in Stream(Peer(e), s) => c2 = <<k + 1, "header">>
  BY <1>4, <1>5, <1>7
<1>9. m \in Messages /\ k = n + 1
  BY <1>3, <1>5, <1>8 DEF k
<1>. HIDE DEF n
<1>10. n + 1 \in 1 .. Len(s) /\ u = Body(m) /\ m \in Messages
       /\ \A c2 : <<ReadPlace(e), u, c2>> \in Stream(Peer(e), s) => c2 = <<n + 2, "header">>
  BY <1>5, <1>8, <1>9
<1>. QED  BY <1>6, <1>10 DEF u, s, n, m

\* A step in which the oldest read of e takes the next unit u into its buffer and moves
\* the reader to the place c in the stream.
LEMMA ReceiveStep ==
    ASSUME Inv, CountInv', NEW e \in Ends, wire[e] # << >>, PeerRests(e),
           io[e].socket = "open", io'[e].socket = "open", io'[e].writing = io[e].writing,
           Writer(e)' = Writer(e), Posts(e)' = Posts(e), Queued(e)',
           Reader(e)' # <<"writing", "writeValidation">>,
           ReaderOp(e)' = ReaderOp(e), ReaderOp(e) \in ReadOps,
           wire' = [wire EXCEPT ![e] = Tail(@)],
           TypedToo', UNCHANGED <<link, qOut, qIn, validated, sent, opening, breaks>>,
           handshakeIn'[Peer(e)] = handshakeIn[Peer(e)], tmpIn'[Peer(e)] = tmpIn[Peer(e)],
           \A b, c : (/\ e = "server" => opening \notin Headers
                      /\ <<ReadPlace(e), Head(wire[e]), c>> \in Stream(Peer(e), sent[Peer(e)]))
                     => ReadPlace(e)' = c,
           EarlyOk(e)', TmpOk(e)',
           e = "server" => handshakeIn'[e] = opening /\ handshakeIn'[e] # NoUnit,
           e = "client" => handshakeIn'[e] = Hello("server")
    PROVE  Inv'
<1>. DEFINE p == Peer(e)
<1>1. p \in Ends /\ Peer(p) = e /\ p # e /\ (\A d \in Ends : d = e \/ d = p)
  BY TwoEnds
<1>2. /\ CountInv /\ TypedToo /\ OpeningOk /\ ValidOk /\ SynOk
      /\ QueueOk(e) /\ WritesOk(e) /\ GreetOk(e) /\ StreamOk(e)
      /\ QueueOk(p) /\ WritesOk(p) /\ GreetOk(p) /\ EarlyOk(p) /\ TmpOk(p) /\ StreamOk(p) /\ Queued(p)
  BY <1>1, InvEnds
<1>3. (e = "client" /\ p = "server") \/ (e = "server" /\ p = "client")
  BY EndNames
<1>4. SynOk' /\ InStep' = InStep
  BY <1>2, SocketKept
<1>5. Taken(e)' = Taken(e)
  BY DEF Taken
<1>6. QueueOk(e)' /\ Out(e)' = Out(e)
  BY <1>2, <1>5, QueueKept
<1>7. Greeted(e)' = Greeted(e) /\ WritePlace(e)' = WritePlace(e)
  BY <1>6, PlacesKept
<1>8. WritesOk(e)' /\ GreetOk(e)'
  BY <1>2, <1>4, <1>6, <1>7, WritesKept, GreetKept
<1>9. /\ wire'[p] = wire[p] /\ wire'[e] = Tail(wire[e])
  BY <1>1, <1>2 DEF TypedToo
<1>. HIDE DEF p
<1>10. io'[p] = io[p] /\ Reader(p)' = Reader(p) /\ Writer(p)' = Writer(p) /\ Taken(p)' = Taken(p) /\ Queued(p)'
  BY <1>1, <1>2, SameEnd DEF PeerRests, p
<1>11. QueueOk(p)' /\ Out(p)' = Out(p)
  BY <1>1, <1>2, <1>10, QueueKept
<1>12. handshakeIn'[p] = handshakeIn[p] /\ tmpIn'[p] = tmpIn[p]
  BY DEF p
<1>13. Greeted(p)' = Greeted(p) /\ WritePlace(p)' = WritePlace(p) /\ ReadPlace(p)' = ReadPlace(p)
  BY <1>1, <1>10, <1>11, <1>12, PlacesKept
<1>14. WritesOk(p)' /\ EarlyOk(p)' /\ TmpOk(p)'
  BY <1>1, <1>2, <1>10, <1>12, WritesKept, EarlyKept, TmpKept
<1>15. GreetOk(p)'
  BY <1>1, <1>2, <1>4, <1>10, <1>11, <1>13, GreetKept
<1>16. StreamOk(p)'
  BY <1>1, <1>2, <1>4, <1>7, <1>9, <1>10, <1>13, StreamKept
<1>17. StreamOk(e)'
  <2>1. SUFFICES ASSUME e = "server" => opening \notin Headers
                 PROVE  \E b : /\ Chain(wire'[e], Stream(p, sent[p]), ReadPlace(e)', b)
                               /\ InStep => b = WritePlace(p)
    BY <1>4, <1>13 DEF StreamOk, p
  <2>2. PICK b, c : /\ <<ReadPlace(e), Head(wire[e]), c>> \in Stream(p, sent[p])
                    /\ Chain(Tail(wire[e]), Stream(p, sent[p]), c, b)
                    /\ InStep => b = WritePlace(p)
    BY <2>1, NextUnit DEF p
  <2>3. ReadPlace(e)' = c
    BY <2>1, <2>2 DEF p
  <2>. QED  BY <1>9, <2>2, <2>3
<1>18. OpeningOk'
  <2>1. wire["server"] = << >> => wire'["server"] = << >>
    BY <1>3, <1>9
  <2>2. handshakeIn'["server"] = NoUnit => handshakeIn["server"] = NoUnit /\ wire'["server"] = wire["server"]
    BY <1>3, <1>9, <1>12
  <2>3. handshakeIn'["client"] \in {NoUnit, Hello("server")} /\ handshakeIn'["server"] \in {NoUnit, opening}
    BY <1>2, <1>3, <1>12 DEF OpeningOk
  <2>4. ReaderOp("client")' = ReaderOp("client")
    BY <1>3, <1>10 DEF ReaderOp
  <2>5. Reader("client")' = <<"writing", "writeValidation">> => Reader("client")' = Reader("client")
    BY <1>3, <1>10
  <2>. QED  BY <1>2, <2>1, <2>2, <2>3, <2>4, <2>5 DEF OpeningOk
<1>19. ValidOk'
  <2>1. ReaderOp("server")' = ReaderOp("server") /\ (io["server"].socket # "none" => io'["server"].socket # "none")
    BY <1>3, <1>10 DEF ReaderOp
  <2>. QED  BY <1>2, <2>1, ValidKept DEF ValidOk
<1>. QED  BY <1>1, <1>4, <1>6, <1>8, <1>11, <1>14, <1>15, <1>16, <1>17, <1>18, <1>19 DEF Inv, EndInv

\* What is known of the oldest read before and after it completes with a unit
LEMMA ReadEnd ==
    ASSUME Inv, CountInv', NEW e \in Ends, Receive(e)
    PROVE  LET op == Head(io[e].reading)
           IN  /\ PeerRests(e) /\ io[e].socket = "open" /\ io'[e].socket = "open"
               /\ io'[e].writing = io[e].writing /\ op \in ReadOps
               /\ Reader(e) = <<"reading", op>> /\ Reader(e)' = <<"ok", op>>
               /\ ReaderOp(e) = op /\ ReaderOp(e)' = op
               /\ Writer(e)' = Writer(e) /\ Posts(e)' = Posts(e) /\ Queued(e)'
               /\ wire[e] # << >> /\ wire' = [wire EXCEPT ![e] = Tail(@)]
               /\ wire \in [Ends -> Seq(Units)] /\ wire' \in [Ends -> Seq(Units)] /\ Head(wire[e]) \in Units
               /\ UNCHANGED <<link, qOut, qIn, validated, sent, opening, breaks>>
               /\ sent[Peer(e)] \in Seq(Messages) /\ Len(qIn[e]) \in Nat
<1>1. CountInv /\ TypedToo /\ Queued(e) /\ io[e].reading # << >> /\ CompleteRead(e, TRUE) /\ TRUE \in BOOLEAN
      /\ sent'[e] = sent[e] /\ wire[e] # << >> /\ wire' = [wire EXCEPT ![e] = Tail(@)]
      /\ UNCHANGED <<link, qOut, qIn, validated, sent, opening, breaks>>
  BY InvEnds DEF Receive
<1>2. wire \in [Ends -> Seq(Units)] /\ wire' \in [Ends -> Seq(Units)] /\ Head(wire[e]) \in Units
  BY <1>1 DEF TypedToo
<1>3. sent[Peer(e)] \in Seq(Messages) /\ Len(qIn[e]) \in Nat
  BY <1>1, EndTyped, TwoEnds DEF TypedToo
<1>. DEFINE op == Head(io[e].reading)
<1>4. /\ PeerRests(e) /\ io[e].socket = "open" /\ io'[e].socket = "open"
      /\ io'[e].writing = io[e].writing /\ op \in ReadOps
      /\ Reader(e) = <<"reading", op>> /\ Reader(e)' = <<"ok", op>>
      /\ Writer(e)' = Writer(e) /\ Posts(e)' = Posts(e) /\ Queued(e)'
  BY <1>1, ReadDone
<1>. HIDE DEF op
<1>5. ReaderOp(e) = op /\ ReaderOp(e)' = op
  BY <1>4 DEF ReaderOp
<1>. QED  BY <1>1, <1>2, <1>3, <1>4, <1>5 DEF op

\* readValidation takes what comes first.
LEMMA KeepsReceiveValidation ==
    ASSUME Inv, CountInv', NEW e \in Ends, Receive(e), Head(io[e].reading) = "readValidation",
           handshakeIn' = [handshakeIn EXCEPT ![e] = Head(wire[e])], UNCHANGED tmpIn
    PROVE  Inv'
<1>. DEFINE u == Head(wire[e])
            s == sent[Peer(e)]
<1>1. /\ CountInv /\ TypedToo /\ OpeningOk /\ ValidOk /\ EarlyOk(e) /\ TmpOk(e)
  BY InvEnds
<1>2. /\ PeerRests(e) /\ io[e].socket = "open" /\ io'[e].socket = "open"
      /\ io'[e].writing = io[e].writing
      /\ Reader(e) = <<"reading", "readValidation">> /\ Reader(e)' = <<"ok", "readValidation">>
      /\ ReaderOp(e) = "readValidation" /\ ReaderOp(e)' = "readValidation"
      /\ Writer(e)' = Writer(e) /\ Posts(e)' = Posts(e) /\ Queued(e)'
      /\ wire[e] # << >> /\ wire' = [wire EXCEPT ![e] = Tail(@)]
      /\ wire' \in [Ends -> Seq(Units)] /\ u \in Units
      /\ UNCHANGED <<link, qOut, qIn, validated, sent, opening, breaks>>
      /\ s \in Seq(Messages)
  BY ReadEnd
<1>3. /\ handshakeIn'[e] = u /\ handshakeIn'[Peer(e)] = handshakeIn[Peer(e)]
      /\ handshakeIn' \in [Ends -> Units \cup {NoUnit}]
  BY <1>1, <1>2, TwoEnds DEF TypedToo
<1>4. TypedToo'
  BY <1>1, <1>2, <1>3 DEF TypedToo
<1>5. handshakeIn[e] = NoUnit /\ qIn[e] = << >>
  BY <1>1, <1>2 DEF EarlyOk
<1>6. ASSUME e = "server" => opening \notin Headers
      PROVE  u = Hello(Peer(e))
  BY <1>2, <1>6, GreetingComes
<1>7. e = "server" => u = opening /\ u # NoUnit
  BY <1>1, <1>2, <1>5 DEF OpeningOk
<1>8. e = "client" => u = Hello("server")
  BY <1>6 DEF Peer
<1>9. u # NoUnit
  BY <1>7, <1>8, UnitKinds DEF Ends
<1>. HIDE DEF u, s
<1>10. ASSUME NEW b, NEW c, <<ReadPlace(e), u, c>> \in Stream(Peer(e), s)
       PROVE  ReadPlace(e)' = c
  <2>1. ReadPlace(e) = <<0, "hello">>
    BY <1>5 DEF ReadPlace
  <2>2. c = <<1, "header">>
    BY <1>2, <1>10, <2>1, StreamHello, TwoEnds
  <2>3. Len(qIn'[e]) = 0
    BY <1>2, <1>5
  <2>. QED  BY <1>2, <1>3, <1>9, <2>2, <2>3 DEF ReadPlace
<1>11. EarlyOk(e)'
  BY <1>2, <1>3, <1>9 DEF EarlyOk
<1>12. TmpOk(e)'
  BY <1>1, <1>2 DEF TmpOk
<1>13. Reader(e)' # <<"writing", "writeValidation">> /\ ReaderOp(e) \in ReadOps /\ tmpIn'[Peer(e)] = tmpIn[Peer(e)]
  BY <1>2 DEF ReadOps
<1>14. /\ e = "server" => handshakeIn'[e] = opening /\ handshakeIn'[e] # NoUnit
       /\ e = "client" => handshakeIn'[e] = Hello("server")
  BY <1>3, <1>7, <1>8
<1>. QED  BY <1>2, <1>3, <1>4, <1>10, <1>11, <1>12, <1>13, <1>14, ReceiveStep DEF u, s

\* readHeader takes a header.
LEMMA KeepsReceiveHeader ==
    ASSUME Inv, CountInv', NEW e \in Ends, Receive(e), Head(io[e].reading) = "readHeader",
           tmpIn' = [tmpIn EXCEPT ![e].header = Head(wire[e])], UNCHANGED handshakeIn
    PROVE  Inv'
<1>. DEFINE u == Head(wire[e])
            s == sent[Peer(e)]
            n == Len(qIn[e])
            m == s[n + 1]
<1>1. CountInv /\ TypedToo /\ EarlyOk(e) /\ TmpOk(e)
  BY InvEnds
<1>2. /\ PeerRests(e) /\ io[e].socket = "open" /\ io'[e].socket = "open"
      /\ io'[e].writing = io[e].writing
      /\ Reader(e) = <<"reading", "readHeader">> /\ Reader(e)' = <<"ok", "readHeader">>
      /\ ReaderOp(e) = "readHeader" /\ ReaderOp(e)' = "readHeader"
      /\ Writer(e)' = Writer(e) /\ Posts(e)' = Posts(e) /\ Queued(e)'
      /\ wire[e] # << >> /\ wire' = [wire EXCEPT ![e] = Tail(@)]
      /\ wire' \in [Ends -> Seq(Units)] /\ u \in Units
      /\ UNCHANGED <<link, qOut, qIn, validated, sent, opening, breaks>>
      /\ s \in Seq(Messages) /\ n \in Nat
  BY ReadEnd
<1>3. /\ handshakeIn[e] # NoUnit /\ (e = "server" => opening \notin Headers)
      /\ e = "server" => handshakeIn[e] = opening
      /\ e = "client" => handshakeIn[e] = Hello("server")
  BY <1>2, HasGreeting
<1>4. ReadPlace(e) = <<n + 1, "header">> /\ n + 1 \in Nat
  BY <1>2, <1>3 DEF ReadPlace
<1>. DEFINE y == IF m.body = << >> THEN <<n + 2, "header">> ELSE <<n + 1, "body">>
<1>5. /\ n + 1 \in 1 .. Len(s) /\ u = Header(m) /\ m \in Messages
      /\ \A c : <<ReadPlace(e), u, c>> \in Stream(Peer(e), s) => c = y
  BY <1>2, HeaderComes
<1>6. /\ tmpIn'[e].header = u /\ tmpIn'[e].body = tmpIn[e].body
      /\ tmpIn'[Peer(e)] = tmpIn[Peer(e)] /\ TypedToo'
  <2>. DEFINE T == [header : Headers \cup {NoUnit}, body : Seq(Byte)]
  <2>1. tmpIn \in [Ends -> T] /\ tmpIn[e] \in T
    BY <1>1 DEF TypedToo
  <2>2. u \in Headers
    BY <1>5, UnitKinds
  <2>. HIDE DEF u, m, n, s
  <2>3. tmpIn' = [tmpIn EXCEPT ![e].header = u]
    BY DEF u
  <2>4. tmpIn'[e] = [header |-> u, body |-> tmpIn[e].body]
    BY <2>1, <2>3
  <2>5. tmpIn'[e] \in T
    BY <2>1, <2>2, <2>4
  <2>6. tmpIn'[Peer(e)] = tmpIn[Peer(e)] /\ tmpIn' \in [Ends -> T]
    <3>1. tmpIn' = [tmpIn EXCEPT ![e] = tmpIn'[e]]
      BY <2>1, <2>3
    <3>. HIDE DEF T
    <3>. QED  BY <2>1, <2>5, <3>1, TwoEnds
  <2>7. TypedToo'
    BY <1>1, <1>2, <2>6 DEF TypedToo
  <2>. QED  BY <2>4, <2>6, <2>7
<1>7. tmpIn'[e].header.size <= HeaderSize <=> m.body = << >>
  BY <1>5, <1>6, UnitKinds, MessageSize
<1>8. tmpIn[e].body = BodyOf(s, n) /\ n <= Len(s)
  BY <1>1, <1>2 DEF TmpOk
<1>9. Len(qIn'[e]) = n /\ sent'[Peer(e)] = s /\ n + 1 <= Len(s)
  BY <1>2, <1>5
<1>10. handshakeIn'[e] = handshakeIn[e] /\ handshakeIn'[Peer(e)] = handshakeIn[Peer(e)]
  OBVIOUS
<1>. HIDE DEF u, n, m
<1>11. ReadPlace(e)' = y
  BY <1>2, <1>3, <1>7, <1>9, <1>10 DEF ReadPlace
<1>12. EarlyOk(e)'
  BY <1>2, <1>3, <1>10 DEF EarlyOk
<1>13. TmpOk(e)'
  <2>1. m = s[n + 1]
    BY DEF m
  <2>. HIDE DEF s
  <2>. QED  BY <1>2, <1>5, <1>6, <1>8, <1>9, <2>1 DEF TmpOk
<1>14. Reader(e)' # <<"writing", "writeValidation">> /\ ReaderOp(e) \in ReadOps
  BY <1>2 DEF ReadOps
<1>. HIDE DEF y
<1>15. \A b, c : <<ReadPlace(e), u, c>> \in Stream(Peer(e), s) => ReadPlace(e)' = c
  BY <1>5, <1>11
<1>. QED  BY <1>2, <1>3, <1>6, <1>10, <1>12, <1>13, <1>14, <1>15, ReceiveStep DEF u

\* readBody takes the body that the header announced.
LEMMA KeepsReceiveBody ==
    ASSUME Inv, CountInv', NEW e \in Ends, Receive(e), Head(io[e].reading) = "readBody",
           tmpIn' = [tmpIn EXCEPT ![e].body = Bytes(Head(wire[e]))], UNCHANGED handshakeIn
    PROVE  Inv'
<1>. DEFINE u == Head(wire[e])
            s == sent[Peer(e)]
            n == Len(qIn[e])
            m == s[n + 1]
<1>1. CountInv /\ TypedToo /\ EarlyOk(e) /\ TmpOk(e)
  BY InvEnds
<1>2. /\ PeerRests(e) /\ io[e].socket = "open" /\ io'[e].socket = "open"
      /\ io'[e].writing = io[e].writing
      /\ Reader(e) = <<"reading", "readBody">> /\ Reader(e)' = <<"ok", "readBody">>
      /\ ReaderOp(e) = "readBody" /\ ReaderOp(e)' = "readBody"
      /\ Writer(e)' = Writer(e) /\ Posts(e)' = Posts(e) /\ Queued(e)'
      /\ wire[e] # << >> /\ wire' = [wire EXCEPT ![e] = Tail(@)]
      /\ wire' \in [Ends -> Seq(Units)] /\ u \in Units
      /\ UNCHANGED <<link, qOut, qIn, validated, sent, opening, breaks>>
      /\ s \in Seq(Messages) /\ n \in Nat
  BY ReadEnd
<1>3. /\ handshakeIn[e] # NoUnit /\ (e = "server" => opening \notin Headers)
      /\ e = "server" => handshakeIn[e] = opening
      /\ e = "client" => handshakeIn[e] = Hello("server")
  BY <1>2, HasGreeting
<1>4. ReadPlace(e) = <<n + 1, "body">> /\ n + 1 \in Nat
  BY <1>2, <1>3 DEF ReadPlace
<1>5. /\ n + 1 \in 1 .. Len(s) /\ u = Body(m) /\ m \in Messages
      /\ \A c : <<ReadPlace(e), u, c>> \in Stream(Peer(e), s) => c = <<n + 2, "header">>
  BY <1>2, BodyComes
<1>6. Bytes(u) = m.body /\ m.body \in Seq(Byte)
  BY <1>5, UnitKinds, MessageSize DEF Bytes
<1>7. /\ tmpIn'[e].header = tmpIn[e].header /\ tmpIn'[e].body = m.body
      /\ tmpIn'[Peer(e)] = tmpIn[Peer(e)] /\ TypedToo'
  <2>. DEFINE T == [header : Headers \cup {NoUnit}, body : Seq(Byte)]
  <2>1. tmpIn \in [Ends -> T] /\ tmpIn[e] \in T
    BY <1>1 DEF TypedToo
  <2>. DEFINE b == m.body
  <2>2. b \in Seq(Byte) /\ tmpIn' = [tmpIn EXCEPT ![e].body = b]
    BY <1>6
  <2>. HIDE DEF b
  <2>3. tmpIn'[e] = [header |-> tmpIn[e].header, body |-> b]
    BY <2>1, <2>2
  <2>4. tmpIn'[e] \in T
    BY <2>1, <2>2, <2>3
  <2>5. tmpIn'[Peer(e)] = tmpIn[Peer(e)] /\ tmpIn' \in [Ends -> T]
    <3>1. tmpIn' = [tmpIn EXCEPT ![e] = tmpIn'[e]]
      BY <2>1, <2>2
    <3>. HIDE DEF T
    <3>. QED  BY <2>1, <2>4, <3>1, TwoEnds
  <2>6. TypedToo'
    BY <1>1, <1>2, <2>5 DEF TypedToo
  <2>. QED  BY <2>3, <2>5, <2>6 DEF b
<1>8. n <= Len(s) /\ n + 1 <= Len(s) /\ tmpIn[e].header = Header(m) /\ m.size > 0
  BY <1>1, <1>2 DEF TmpOk
<1>9. Len(qIn'[e]) = n /\ sent'[Peer(e)] = s
  BY <1>2
<1>10. handshakeIn'[e] = handshakeIn[e] /\ handshakeIn'[Peer(e)] = handshakeIn[Peer(e)]
  OBVIOUS
<1>. HIDE DEF u, n, m
<1>11. ReadPlace(e)' = <<n + 2, "header">>
  BY <1>2, <1>3, <1>9, <1>10 DEF ReadPlace
<1>12. EarlyOk(e)'
  BY <1>2, <1>3, <1>10 DEF EarlyOk
<1>13. TmpOk(e)'
  <2>1. m = s[n + 1]
    BY DEF m
  <2>. HIDE DEF s
  <2>. QED  BY <1>2, <1>5, <1>7, <1>8, <1>9, <2>1 DEF TmpOk
<1>14. Reader(e)' # <<"writing", "writeValidation">> /\ ReaderOp(e) \in ReadOps
  BY <1>2 DEF ReadOps
<1>15. \A b, c : <<ReadPlace(e), u, c>> \in Stream(Peer(e), s) => ReadPlace(e)' = c
  BY <1>5, <1>11
<1>. QED  BY <1>2, <1>3, <1>7, <1>10, <1>12, <1>13, <1>14, <1>15, ReceiveStep DEF u

\* A read completes with the next unit.
LEMMA KeepsReceive ==
    ASSUME Inv, CountInv', NEW e \in Ends, Receive(e)
    PROVE  Inv'
<1>1. CASE /\ Head(io[e].reading) = "readValidation"
           /\ handshakeIn' = [handshakeIn EXCEPT ![e] = Head(wire[e])] /\ UNCHANGED tmpIn
  BY <1>1, KeepsReceiveValidation
<1>2. CASE /\ Head(io[e].reading) = "readHeader"
           /\ tmpIn' = [tmpIn EXCEPT ![e].header = Head(wire[e])] /\ UNCHANGED handshakeIn
  BY <1>2, KeepsReceiveHeader
<1>3. CASE /\ Head(io[e].reading) = "readBody"
           /\ tmpIn' = [tmpIn EXCEPT ![e].body = Bytes(Head(wire[e]))] /\ UNCHANGED handshakeIn
  BY <1>3, KeepsReceiveBody
<1>. QED  BY <1>1, <1>2, <1>3 DEF Receive

-----------------------------------------------------------------------------
(* The invariant holds                                                         *)

\* The reader of the client is at its connect, and the others have nothing outstanding.
LEMMA FirstTokens ==
    ASSUME Init, CountInv
    PROVE  /\ Reader("client") = <<"writing", "connect">> /\ Reader("server") = NoToken
           /\ \A e \in Ends : /\ Writer(e) = NoToken /\ Posts(e) = 0 /\ io[e].ready = << >>
                              /\ io[e].reading = << >>
           /\ io["server"].writing = << >> /\ io["server"].socket = "none" /\ io["client"].socket = "open"
           /\ io["client"].writing = <<[op |-> "connect", unit |-> NoUnit]>>
<1>. DEFINE c == io["client"]
            s == io["server"]
            w == [op |-> "connect", unit |-> NoUnit]
<1>1. /\ c = [socket |-> "open", reading |-> << >>, writing |-> <<w>>, ready |-> << >>, running |-> TRUE]
      /\ s = [socket |-> "none", reading |-> << >>, writing |-> << >>, ready |-> << >>, running |-> TRUE]
  BY DEF Init, Ends
<1>2. qOut["client"] = << >> /\ qOut["server"] = << >>
  BY DEF Init, Ends
<1>3. /\ c \in IoRecord /\ s \in IoRecord /\ Cnt(c, Of(ReadChain("client"))) <= 1
      /\ c.writing \in Seq(AnyWrites)
  BY EndTyped DEF Ends
<1>4. Writer("client") = NoToken /\ Writer("server") = NoToken
  BY <1>2, WriterIs DEF Ends
<1>5. Reader("client") = <<"writing", "connect">>
  <2>. DEFINE t == <<"writing", "connect">>
  <2>1. 1 \in DOMAIN c.writing /\ c.writing[1].op = "connect"
    BY <1>1
  <2>2. Has(c, t)
    <3>1. Has(c, <<"writing", c.writing[1].op>>)
      <4>. HIDE DEF c
      <4>. QED  BY <1>3, <2>1, HasTokens
    <3>. QED  BY <2>1, <3>1
  <2>3. t \in Of(ReadChain("client")) /\ Of(ReadChain("client")) \subseteq Tokens
    BY ChainOps, OfTokens DEF Of, Stages, Ends
  <2>4. Only(c, Of(ReadChain("client"))) = t
    <3>. HIDE DEF c, t
    <3>. QED  BY <1>3, <2>2, <2>3, OnlyIs
  <2>. QED  BY <2>4 DEF Reader
<1>6. \A P : Cnt(s, P) = 0
  <2>1. s.reading = << >> /\ s.writing = << >> /\ s.ready = << >>
    BY <1>1
  <2>. HIDE DEF s
  <2>. QED  BY <1>3, <2>1, CntZero
<1>7. Reader("server") = NoToken /\ Posts("server") = 0
  BY <1>6 DEF Reader, Only, Posts
<1>8. Posts("client") = 0
  <2>1. /\ \A i \in DOMAIN c.reading : <<"reading", c.reading[i]>> \notin {SendToken}
        /\ \A i \in DOMAIN c.writing : <<"writing", c.writing[i].op>> \notin {SendToken}
        /\ \A i \in DOMAIN c.ready : Token(c.ready[i]) \notin {SendToken}
    BY <1>1 DEF SendToken
  <2>2. Cnt(c, {SendToken}) = 0
    <3>. HIDE DEF c
    <3>. QED  BY <1>3, <2>1, CntZero
  <2>. QED  BY <2>2 DEF Posts
<1>. QED  BY <1>1, <1>4, <1>5, <1>7, <1>8 DEF Ends

\* The initial state satisfies the invariant.
LEMMA InvInit ==
    ASSUME Init
    PROVE  Inv
<1>1. CountInv
  BY CountInit
<1>2. /\ wire = [e \in Ends |-> << >>] /\ qOut = [e \in Ends |-> << >>]
      /\ handshakeIn = [e \in Ends |-> NoUnit] /\ tmpIn = [e \in Ends |-> [header |-> NoUnit, body |-> << >>]]
      /\ qIn = [e \in Ends |-> << >>] /\ sent = [e \in Ends |-> << >>]
      /\ validated = FALSE /\ opening = NoUnit /\ breaks = 0 /\ link = "syn"
  BY DEF Init
<1>3. /\ Reader("client") = <<"writing", "connect">> /\ Reader("server") = NoToken
      /\ \A e \in Ends : Writer(e) = NoToken /\ Posts(e) = 0 /\ io[e].ready = << >>
      /\ io["server"].writing = << >> /\ io["server"].socket = "none" /\ io["client"].socket = "open"
      /\ io["client"].writing = <<[op |-> "connect", unit |-> NoUnit]>>
  BY <1>1, FirstTokens
<1>4. TypedToo
  <2>1. 0 \in 0 .. MaxBreaks
    BY MessagesAssumption
  <2>. DEFINE A == Arrivals
              B == Seq(Byte)
  <2>2. << >> \in Seq(Units) /\ << >> \in Seq(A) /\ << >> \in B
    OBVIOUS
  <2>. HIDE DEF A, B
  <2>3. wire \in [Ends -> Seq(Units)] /\ qIn \in [Ends -> Seq(A)]
        /\ tmpIn \in [Ends -> [header : Headers \cup {NoUnit}, body : B]]
    BY <1>2, <2>2
  <2>. QED  BY <1>2, <2>1, <2>3 DEF TypedToo, A, B
<1>5. /\ ReaderOp("client") = "connect" /\ ReaderOp("server") = "none"
      /\ \A e \in Ends : ~Greeted(e) /\ WritePlace(e) = <<0, "hello">> /\ ReadPlace(e) = <<0, "hello">>
  BY <1>2, <1>3 DEF ReaderOp, Greeted, WritePlace, ReadPlace, NoToken, Ends
<1>6. ASSUME NEW e \in Ends PROVE EndInv(e)
  <2>1. /\ wire[e] = << >> /\ qOut[e] = << >> /\ handshakeIn[e] = NoUnit /\ tmpIn[e].body = << >>
        /\ qIn[e] = << >> /\ sent[e] = << >> /\ sent[Peer(e)] = << >> /\ Writer(e) = NoToken
        /\ Posts(e) = 0 /\ io[e].ready = << >>
    BY <1>2, <1>3, TwoEnds
  <2>2. Taken(e) = 0 /\ Out(e) = 0
    BY <2>1 DEF Taken, Out
  <2>3. QueueOk(e)
    <3>1. Queued(e)
      BY <2>1, <2>2, ChainEmpty DEF Queued
    <3>. QED  BY <2>1, <2>2, <3>1 DEF QueueOk
  <2>4. WritesOk(e)
    BY <1>3, <2>1 DEF WritesOk, Carries, NoToken, Ends
  <2>5. GreetOk(e)
    BY <2>1, <2>2 DEF GreetOk
  <2>6. EarlyOk(e)
    BY <1>3, <1>5, <2>1 DEF EarlyOk, Ends, NoToken
  <2>7. TmpOk(e)
    <3>1. << >> \in Seq(Messages)
      OBVIOUS
    <3>2. BodyOf(<< >>, 0) = << >>
      BY <3>1, BodySteps
    <3>. QED  BY <1>3, <1>5, <2>1, <3>2 DEF TmpOk, Ends, NoToken
  <2>8. StreamOk(e)
    <3>1. ReadPlace(e) = WritePlace(Peer(e)) /\ WritePlace(Peer(e)) = <<0, "hello">>
      BY <1>5, TwoEnds
    <3>2. Chain(wire[e], Stream(Peer(e), sent[Peer(e)]), ReadPlace(e), WritePlace(Peer(e)))
      BY <2>1, <3>1, ChainEmpty
    <3>. QED  BY <3>2 DEF StreamOk
  <2>. QED  BY <2>3, <2>4, <2>5, <2>6, <2>7, <2>8 DEF EndInv
<1>7. OpeningOk
  BY <1>2, UnitKinds DEF OpeningOk, Ends
<1>8. ValidOk
  BY <1>2, <1>5 DEF ValidOk, Ends
<1>9. SynOk
  BY <1>2, <1>3 DEF SynOk
<1>. QED  BY <1>1, <1>4, <1>6, <1>7, <1>8, <1>9 DEF Inv

\* Every step keeps the invariant.
LEMMA InvNext ==
    ASSUME Inv, [Next]_vars
    PROVE  Inv'
<1>1. CountInv'
  BY CountNext DEF Inv
<1>2. CASE UNCHANGED vars
  BY <1>1, <1>2, KeepsStutter
<1>3. ASSUME NEW e \in Ends, Run(e) PROVE Inv'
  BY <1>1, <1>3, KeepsRun
<1>4. ASSUME NEW e \in Ends, disconnect(e) PROVE Inv'
  BY <1>1, <1>4, KeepsDisconnect
<1>5. ASSUME NEW e \in Ends, NEW m \in MessagesOf[e], send(e, m) PROVE Inv'
  BY <1>1, <1>5, KeepsSend
<1>6. ASSUME NEW e \in Ends, Transmit(e) PROVE Inv'
  BY <1>1, <1>6, KeepsTransmit
<1>7. ASSUME NEW e \in Ends, Receive(e) PROVE Inv'
  BY <1>1, <1>7, KeepsReceive
<1>8. ASSUME NEW e \in Ends, ReceiveFails(e) PROVE Inv'
  BY <1>1, <1>8, KeepsReceiveFails
<1>9. CASE Connect \/ Accept \/ Reset
  BY <1>1, <1>9, KeepsConnect, KeepsAccept, KeepsReset
<1>10. ASSUME NEW e \in Ends, stop(e) PROVE Inv'
  BY <1>1, <1>10, KeepsStop
<1>. QED  BY <1>2, <1>3, <1>4, <1>5, <1>6, <1>7, <1>8, <1>9, <1>10 DEF Next, Network

\* The queues, the buffers and the streams of a connection stay in step.
THEOREM StreamInvariant == Spec => []Inv
<1>1. Init => Inv
  BY InvInit
<1>2. Inv /\ [Next]_vars => Inv'
  BY InvNext
<1>. QED  BY <1>1, <1>2, PTL DEF Spec

-----------------------------------------------------------------------------
(* What is on its way is what the reads ask for                                *)

\* The oldest read of an end is the token of its reader.
LEMMA ReadingReader ==
    ASSUME CountInv, NEW e \in Ends, io[e].reading # << >>
    PROVE  /\ Reader(e) = <<"reading", Head(io[e].reading)>> /\ Head(io[e].reading) \in ReadOps
           /\ io[e].socket = "open"
<1>. DEFINE op == Head(io[e].reading)
            t == <<"reading", op>>
<1>1. /\ IoTyped /\ io[e] \in IoRecord /\ io[e].reading \in Seq(ReadOps) /\ SocketOk(e)
      /\ Cnt(io[e], Of(ReadChain(e))) <= 1
  BY EndTyped DEF EndOk
<1>2. io[e].socket = "open"
  BY <1>1, OpenSocket
<1>3. op = io[e].reading[1] /\ 1 \in DOMAIN io[e].reading /\ op \in ReadOps
  BY <1>1
<1>4. Has(io[e], t)
  BY <1>1, <1>3, HasTokens
<1>5. t \in Of(ReadChain(e))
  BY <1>3, ChainOps DEF Of, Stages
<1>. HIDE DEF t
<1>6. Reader(e) = t
  BY <1>1, <1>4, <1>5, OnlyIs DEF Reader
<1>. QED  BY <1>2, <1>3, <1>6 DEF t

\* The next unit on the wire is the one that the oldest read is for.
LEMMA InStepWithPeer ==
    ASSUME Inv
    PROVE  FramingInSync
<1>1. opening \in Headers => ~validated
  BY UnitKinds DEF Inv, ValidOk
<1>2. ASSUME NEW e \in Ends, io[e].reading # << >>, wire[e] # << >>
      PROVE  \/ /\ Head(io[e].reading) = "readValidation"
                /\ Head(wire[e]).unit = "handshake" \/ e = "server"
             \/ Head(io[e].reading) = "readHeader" /\ Head(wire[e]).unit = "header"
             \/ /\ Head(io[e].reading) = "readBody" /\ Head(wire[e]).unit = "body"
                /\ Len(Head(wire[e]).body) = tmpIn[e].header.size - HeaderSize
  <2>. DEFINE op == Head(io[e].reading)
              m == sent[Peer(e)][Len(qIn[e]) + 1]
  <2>1. Reader(e) = <<"reading", op>> /\ op \in ReadOps /\ io[e].socket # "closed"
    BY <1>2, InvEnds, ReadingReader
  <2>2. CASE op = "readValidation"
    <3>1. e # "server" => Head(wire[e]) = Hello(Peer(e))
      BY <1>2, <2>1, <2>2, GreetingComes
    <3>2. e # "server" => Head(wire[e]).unit = "handshake"
      BY <3>1, UnitKinds
    <3>. QED  BY <2>2, <3>2
  <2>3. CASE op = "readHeader"
    <3>1. Head(wire[e]) = Header(m)
      BY <1>2, <2>1, <2>3, HeaderComes
    <3>2. Head(wire[e]).unit = "header"
      BY <3>1, UnitKinds
    <3>. QED  BY <2>3, <3>2
  <2>4. CASE op = "readBody"
    <3>1. Head(wire[e]) = Body(m) /\ m \in Messages /\ tmpIn[e].header = Header(m) /\ m.size > 0
      BY <1>2, <2>1, <2>4, BodyComes
    <3>2. Head(wire[e]).unit = "body" /\ Head(wire[e]).body = m.body /\ tmpIn[e].header.size = m.size
      BY <3>1, UnitKinds
    <3>3. Len(m.body) \in Nat /\ m.size = HeaderSize + Len(m.body) /\ HeaderSize \in Nat
      BY <3>1, MessageSize DEF HeaderSize
    <3>4. Len(m.body) = m.size - HeaderSize
      BY <3>3
    <3>. QED  BY <2>4, <3>2, <3>4
  <2>. QED  BY <2>1, <2>2, <2>3, <2>4 DEF ReadOps
<1>. QED  BY <1>1, <1>2 DEF FramingInSync

\* A read gets what it asks for.
THEOREM FramingInSyncHolds == Spec => []FramingInSync
BY StreamInvariant, InStepWithPeer, PTL

\* What a write carries is of its kind.
LEMMA CarriedUnits ==
    ASSUME Inv, NEW e \in Ends
    PROVE  io[e].writing \in Seq(Writes)
<1>1. io[e].writing \in Seq(AnyWrites) /\ WritesOk(e) /\ CountInv /\ qOut[e] \in Seq(Messages)
  BY InvEnds, EndTyped
<1>2. ASSUME NEW i \in DOMAIN io[e].writing PROVE io[e].writing[i] \in Writes
  <2>. DEFINE w == io[e].writing[i]
  <2>1. w \in AnyWrites /\ w.unit = Carries(e, w.op) /\ w.op \in WriteOps \cup {"connect"}
        /\ (w.op \in DataOps => Writer(e) = <<"writing", w.op>>)
    BY <1>1, WriterIs DEF WritesOk
  <2>2. w = [op |-> w.op, unit |-> w.unit]
    BY <2>1 DEF AnyWrites
  <2>. HIDE DEF w
  <2>3. CASE w.op = "connect"
    <3>1. w.unit = NoUnit
      BY <2>1, <2>3 DEF Carries
    <3>. QED  BY <2>2, <2>3, <3>1 DEF Writes, w
  <2>4. CASE w.op = "writeValidation"
    <3>1. w.unit \in Units
      BY <2>1, <2>4, UnitKinds DEF Carries
    <3>. QED  BY <2>2, <2>4, <3>1 DEF Writes, WriteOps, w
  <2>5. CASE w.op \in DataOps
    <3>1. qOut[e] # << >>
      BY <1>1, <2>1, <2>5, WriterIs, AbortKinds
    <3>2. Head(qOut[e]) \in Messages
      BY <1>1, <3>1
    <3>3. w.unit \in Units
      BY <2>1, <2>5, <3>2, UnitKinds DEF Carries, DataOps
    <3>. QED  BY <2>2, <2>5, <3>3 DEF Writes, WriteOps, w
  <2>. QED  BY <2>1, <2>3, <2>4, <2>5 DEF WriteOps
<1>. DEFINE v == io[e].writing
<1>3. v \in Seq(AnyWrites) /\ \A i \in DOMAIN v : v[i] \in Writes
  BY <1>1, <1>2
<1>. HIDE DEF v
<1>4. v = [i \in 1 .. Len(v) |-> v[i]] /\ Len(v) \in Nat /\ DOMAIN v = 1 .. Len(v)
  BY <1>3
<1>5. [i \in 1 .. Len(v) |-> v[i]] \in Seq(Writes)
  BY <1>3, <1>4
<1>. QED  BY <1>4, <1>5 DEF v

\* The types follow from the invariant.
LEMMA InvTypes ==
    ASSUME Inv
    PROVE  TypeOK
<1>1. CountInv /\ TypedToo /\ OpeningOk
  BY DEF Inv
<1>. DEFINE R == [socket : {"none", "open", "closed"}, reading : Seq(ReadOps),
                  writing : Seq(Writes), ready : Seq(Handlers), running : BOOLEAN]
<1>2. io \in [Ends -> R]
  <2>1. ASSUME NEW e \in Ends PROVE io[e] \in R
    <3>1. io[e] \in IoRecord /\ io[e].writing \in Seq(Writes)
      BY <1>1, EndTyped, CarriedUnits
    <3>. QED  BY <3>1 DEF IoRecord, Sockets
  <2>2. io = [e \in Ends |-> io[e]]
    BY <1>1 DEF CountInv, Typed, IoTyped
  <2>. HIDE DEF R
  <2>. QED  BY <2>1, <2>2
<1>3. handshakeIn \in [Ends -> Words \cup Headers \cup {NoUnit}]
  <2>1. opening \in Words \cup Headers \cup {NoUnit}
    BY <1>1, UnitKinds DEF OpeningOk, Ends
  <2>2. handshakeIn["client"] \in Words \cup Headers \cup {NoUnit}
        /\ handshakeIn["server"] \in Words \cup Headers \cup {NoUnit}
    BY <1>1, <2>1, UnitKinds DEF OpeningOk, Ends
  <2>3. handshakeIn = [e \in Ends |-> handshakeIn[e]]
    BY <1>1 DEF TypedToo
  <2>. QED  BY <2>2, <2>3 DEF Ends
<1>4. opening \in Words \cup Headers \cup {NoUnit}
  BY <1>1, UnitKinds DEF OpeningOk, Ends
<1>. QED  BY <1>1, <1>2, <1>3, <1>4 DEF TypeOK, TypedToo, CountInv, Typed, Links, Arrivals

\* Types, and one reader and one writer at each end
THEOREM OneOfEachHolds == Spec => []OneOfEach
<1>1. Inv => OneOfEach
  BY InvTypes, OneReaderOneWriter DEF OneOfEach, Inv
<1>. QED  BY <1>1, StreamInvariant, PTL

-----------------------------------------------------------------------------
(* The connection implements the channel                                       *)

\* A message has been read at e, and its handler is still to run.
Arriving(e) == Reader(e) \in {<<"ok", "readHeader">>, <<"ok", "readBody">>}

\* What the channel sees of an end
State(e) == IF io[e].socket # "closed" THEN "open" ELSE IF Arriving(e) THEN "closing" ELSE "closed"

\* The handler of a read that has succeeded waits in a record just when the token of its
\* reader says so.
LEMMA ReadyToken ==
    ASSUME NEW e \in Ends, NEW r \in IoRecord, Cnt(r, Of(ReadChain(e))) <= 1
    PROVE  (\E i \in DOMAIN r.ready : r.ready[i].handler \in {"readHeader", "readBody"} /\ r.ready[i].ok)
               <=> Only(r, Of(ReadChain(e))) \in {<<"ok", "readHeader">>, <<"ok", "readBody">>}
<1>. DEFINE R == Of(ReadChain(e))
            T == {<<"ok", "readHeader">>, <<"ok", "readBody">>}
<1>1. r.ready \in Seq(Handlers) /\ Cnt(r, R) <= 1
  BY DEF IoRecord
<1>2. T \subseteq R
  BY ChainOps DEF Of, Stages, ReadOps
<1>3. ASSUME NEW i \in DOMAIN r.ready, r.ready[i].handler \in {"readHeader", "readBody"}, r.ready[i].ok
      PROVE  Only(r, R) \in T
  <2>. DEFINE t == Token(r.ready[i])
  <2>1. t \in T
    BY <1>3 DEF Token, Stage
  <2>2. Has(r, t)
    BY HasTokens
  <2>. HIDE DEF R, T, t
  <2>3. Only(r, R) = t
    BY <1>1, <1>2, <2>1, <2>2, OnlyIs
  <2>. QED  BY <2>1, <2>3
<1>4. ASSUME Only(r, R) \in T
      PROVE  \E i \in DOMAIN r.ready : r.ready[i].handler \in {"readHeader", "readBody"} /\ r.ready[i].ok
  <2>. DEFINE t == Only(r, R)
  <2>1. t # NoToken
    BY <1>4 DEF NoToken
  <2>2. Has(r, t)
    <3>1. Cnt(r, R) # 0
      BY <2>1 DEF Only
    <3>. HIDE DEF R
    <3>. QED  BY <3>1, OnlyHas
  <2>3. t \in T
    BY <1>4
  <2>. HIDE DEF t
  <2>4. \/ \E i \in DOMAIN r.reading : <<"reading", r.reading[i]>> \in {t}
        \/ \E i \in DOMAIN r.writing : <<"writing", r.writing[i].op>> \in {t}
        \/ \E i \in DOMAIN r.ready : Token(r.ready[i]) \in {t}
    BY <2>2, CntZero DEF Has
  <2>5. PICK i \in DOMAIN r.ready : Token(r.ready[i]) = t
    BY <2>3, <2>4
  <2>. QED  BY <2>3, <2>5 DEF Token, Stage
<1>. QED  BY <1>3, <1>4

\* The variables of the channel, as the connection gives them
Pushed == [e \in Ends |-> sent[Peer(e)]]
States == [e \in Ends |-> State(e)]

\* A step of the connection as the channel sees it
Closes(e) == /\ \/ States[e] = "open" /\ States' = [States EXCEPT ![e] = "closing"]
                \/ States[e] # "closed" /\ States' = [States EXCEPT ![e] = "closed"]
             /\ Pushed' = Pushed /\ qIn' = qIn /\ validated' = validated

Sends(e) == /\ qIn' = qIn /\ States' = States /\ validated' = validated
            /\ \E m \in Messages : Pushed' = [Pushed EXCEPT ![e] = Append(@, m)]

Admits == ~validated /\ validated' = TRUE /\ Pushed' = Pushed /\ qIn' = qIn /\ States' = States

Delivers(e) ==
    /\ States[e] # "closed" /\ (e = "server" => validated)
    /\ Len(qIn[e]) < Len(Pushed[e])
    /\ qIn' = [qIn EXCEPT ![e] = Append(@, Delivered(Pushed[e])[Len(@) + 1])]
    /\ States' = [States EXCEPT ![e] = IF @ = "open" THEN "open" ELSE "closed"]
    /\ Pushed' = Pushed /\ validated' = validated

Rests == Pushed' = Pushed /\ qIn' = qIn /\ States' = States /\ validated' = validated

ChannelStep == Rests \/ Admits \/ \E e \in Ends : Closes(e) \/ Sends(e) \/ Delivers(e)

\* The mapping of the states
LEMMA StatesAre ==
    ASSUME CountInv, CountInv'
    PROVE  /\ States = [e \in Ends |->
                          IF io[e].socket # "closed" THEN "open"
                          ELSE IF \E i \in Ready(e, {"readHeader", "readBody"}) : io[e].ready[i].ok
                               THEN "closing" ELSE "closed"]
           /\ States' = [e \in Ends |->
                          IF io'[e].socket # "closed" THEN "open"
                          ELSE IF \E i \in Ready(e, {"readHeader", "readBody"})' : io'[e].ready[i].ok
                               THEN "closing" ELSE "closed"]
<1>1. ASSUME NEW e \in Ends
      PROVE  /\ (\E i \in Ready(e, {"readHeader", "readBody"}) : io[e].ready[i].ok) <=> Arriving(e)
             /\ (\E i \in Ready(e, {"readHeader", "readBody"})' : io'[e].ready[i].ok) <=> Arriving(e)'
  <2>1. CountInv' => io'[e] \in IoRecord /\ Cnt(io'[e], Of(ReadChain(e))) <= 1
    BY DEF CountInv, Typed, EndOk, ReaderOk, WriterOk, IoTyped
  <2>2. (\E i \in Ready(e, {"readHeader", "readBody"}) : io[e].ready[i].ok) <=> Arriving(e)
    BY EndTyped, ReadyToken DEF Ready, Arriving, Reader
  <2>3. (\E i \in Ready(e, {"readHeader", "readBody"})' : io'[e].ready[i].ok) <=> Arriving(e)'
    BY <2>1, ReadyToken DEF Ready, Arriving, Reader
  <2>. QED  BY <2>2, <2>3
<1>. QED  BY <1>1 DEF States, State

\* The mapping of the steps
LEMMA ChannelSteps ==
    ASSUME CountInv, CountInv', ChannelStep
    PROVE  [C!Next]_C!vars
<1>1. /\ Pushed = [e \in Ends |-> sent[Peer(e)]] /\ Pushed' = [e \in Ends |-> sent'[Peer(e)]]
      /\ States = [e \in Ends |->
                     IF io[e].socket # "closed" THEN "open"
                     ELSE IF \E i \in Ready(e, {"readHeader", "readBody"}) : io[e].ready[i].ok
                          THEN "closing" ELSE "closed"]
      /\ States' = [e \in Ends |->
                     IF io'[e].socket # "closed" THEN "open"
                     ELSE IF \E i \in Ready(e, {"readHeader", "readBody"})' : io'[e].ready[i].ok
                          THEN "closing" ELSE "closed"]
  BY StatesAre DEF Pushed
<1>2. CASE Rests
  BY <1>1, <1>2 DEF Rests, C!vars
<1>3. CASE Admits
  BY <1>1, <1>3 DEF Admits, C!Next, C!Admit
<1>4. ASSUME NEW e \in Ends, Closes(e) PROVE C!Next
  BY <1>1, <1>4 DEF Closes, C!Next, C!Close
<1>5. ASSUME NEW e \in Ends, Sends(e) PROVE C!Next
  BY <1>1, <1>5 DEF Sends, C!Next, C!Send
<1>6. ASSUME NEW e \in Ends, Delivers(e) PROVE C!Next
  BY <1>1, <1>6 DEF Delivers, C!Next, C!Deliver
<1>. QED  BY <1>2, <1>3, <1>4, <1>5, <1>6 DEF ChannelStep

\* A step at one end changes no other.
LEMMA OneState ==
    ASSUME NEW e \in Ends, PeerRests(e)
    PROVE  /\ States' = [States EXCEPT ![e] = State(e)'] /\ States[e] = State(e)
           /\ State(e)' = State(e) => States' = States
<1>1. \A d \in Ends : d = e \/ State(d)' = State(d)
  <2>1. State(Peer(e))' = State(Peer(e))
    BY TwoEnds, SameEnd DEF PeerRests, State, Arriving
  <2>. QED  BY <2>1, TwoEnds
<1>. QED  BY <1>1 DEF States

\* A step that sends nothing, delivers nothing and admits nobody: the channel rests, or
\* an end closes.
LEMMA CalmStep ==
    ASSUME NEW e \in Ends, PeerRests(e), sent' = sent, qIn' = qIn, validated' = validated,
           io[e].socket = "closed" => io'[e].socket = "closed" /\ (Arriving(e)' => Arriving(e))
    PROVE  ChannelStep
<1>1. States' = [States EXCEPT ![e] = State(e)'] /\ States[e] = State(e)
      /\ (State(e)' = State(e) => States' = States)
  BY OneState
<1>2. Pushed' = Pushed
  BY DEF Pushed
<1>3. CASE State(e)' = State(e)
  BY <1>1, <1>2, <1>3 DEF ChannelStep, Rests
<1>4. CASE State(e)' # State(e)
  <2>1. \/ State(e) = "open" /\ State(e)' = "closing"
        \/ State(e) # "closed" /\ State(e)' = "closed"
    BY <1>4 DEF State
  <2>. QED  BY <1>1, <1>2, <2>1 DEF ChannelStep, Closes
<1>. QED  BY <1>3, <1>4

\* The tokens that are not those of a message that has been read
LEMMA NotArriving ==
    ASSUME NEW e \in Ends
    PROVE  /\ Reader(e)' = NoToken => ~Arriving(e)'
           /\ \A op : Reader(e)' = <<"failed", op>> => ~Arriving(e)'
           /\ Reader(e)' = Reader(e) => (Arriving(e)' <=> Arriving(e))
           /\ Reader(e)' = Aborted(Reader(e)) => (Arriving(e)' => Arriving(e))
           /\ \A st, op : io[e].socket = "closed" /\ Reader(e)' = <<Begun(e, st), op>> => ~Arriving(e)'
BY DEF Arriving, NoToken, Begun, Aborted

\* A handler that closes the socket
LEMMA ClosesCalm ==
    ASSUME Inv, CountInv', NEW e \in Ends, NEW h \in AllOps \cup {"close"}, Due(e, h),
           Continue(e, close(rest(e))), sent' = sent, qIn' = qIn, validated' = validated
    PROVE  ChannelStep
<1>1. PeerRests(e) /\ io'[e].socket = "closed" /\ Reader(e)' \in {NoToken, Aborted(Reader(e))}
  BY InvEnds, DoClose
<1>2. Arriving(e)' => Arriving(e)
  BY <1>1, NotArriving
<1>. QED  BY <1>1, <1>2, CalmStep

\* A handler that starts nothing
LEMMA NothingCalm ==
    ASSUME Inv, CountInv', NEW e \in Ends, NEW h \in AllOps, Due(e, h),
           Continue(e, rest(e)), sent' = sent, qIn' = qIn, validated' = validated
    PROVE  ChannelStep
<1>1. PeerRests(e) /\ io'[e].socket = io[e].socket /\ Reader(e)' \in {NoToken, Reader(e)}
  BY InvEnds, DoNothing
<1>2. Arriving(e)' => Arriving(e)
  BY <1>1, NotArriving
<1>. QED  BY <1>1, <1>2, CalmStep

\* A handler that goes on reading
LEMMA ReadCalm ==
    ASSUME Inv, CountInv', NEW e \in Ends, NEW h \in ReadChain(e), Due(e, h), NEW op \in ReadOps,
           Continue(e, async_read(rest(e), op)), sent' = sent, qIn' = qIn, validated' = validated
    PROVE  ChannelStep
<1>1. PeerRests(e) /\ io'[e].socket = io[e].socket /\ Reader(e)' = <<Begun(e, "reading"), op>>
  BY InvEnds, DoRead
<1>2. io[e].socket = "closed" => ~Arriving(e)'
  BY <1>1, NotArriving
<1>. QED  BY <1>1, <1>2, CalmStep

\* A handler that starts a write
LEMMA WriteCalm ==
    ASSUME Inv, CountInv', NEW e \in Ends, NEW h \in AllOps, Due(e, h), NEW op \in WriteOps,
           NEW u \in AnyUnit, Continue(e, async_write(rest(e), op, u)),
           sent' = sent, qIn' = qIn, validated' = validated
    PROVE  ChannelStep
<1>1. /\ PeerRests(e) /\ io'[e].socket = io[e].socket
      /\ Reader(e)' \in {<<Begun(e, "writing"), op>>, NoToken, Reader(e)}
  BY InvEnds, DoWrite
<1>2. io[e].socket = "closed" => (Arriving(e)' => Arriving(e))
  BY <1>1, NotArriving
<1>. QED  BY <1>1, <1>2, CalmStep

\* The push of a message is its delivery.
LEMMA PushDelivers ==
    ASSUME Inv, CountInv', NEW e \in Ends, NEW h \in {"readHeader", "readBody"}, Due(e, h), ok(e),
           addToIncoming(e), h = "readHeader" => tmpIn[e].header.size = 0,
           UNCHANGED <<validated, sent, tmpIn>>
    PROVE  Delivers(e)
<1>. DEFINE s == sent[Peer(e)]
            n == Len(qIn[e])
            m == s[n + 1]
            a == [id |-> m.id, size |-> m.size, body |-> BodyOf(s, n + 1)]
<1>1. CountInv /\ h \in ReadChain(e) /\ "readHeader" \in ReadOps
  BY InvEnds, ChainOps DEF ReadOps
<1>2. /\ PeerRests(e) /\ io'[e].socket = io[e].socket
      /\ Reader(e) = <<"ok", h>> /\ Reader(e)' = <<Begun(e, "reading"), "readHeader">>
  BY <1>1, DoRead DEF DueStage, addToIncoming
<1>3. /\ n \in Nat /\ n + 1 <= Len(s) /\ tmpIn[e].header = Header(m) /\ s \in Seq(Messages)
      /\ n + 1 \in 1 .. Len(s) /\ Len(s) \in Nat /\ tmpIn[e].body = BodyOf(s, n + 1)
  BY <1>2, NextArrival
<1>4. a = [id |-> tmpIn[e].header.id, size |-> tmpIn[e].header.size, body |-> tmpIn[e].body]
  BY <1>3, UnitKinds
<1>5. Delivered(s)[n + 1] = a
  BY <1>3, DeliveredBody
<1>6. qIn' = [qIn EXCEPT ![e] = Append(@, a)] /\ Pushed[e] = s
  BY <1>4 DEF addToIncoming, Pushed
<1>7. n < Len(s)
  <2>. HIDE DEF n, s
  <2>. QED  BY <1>3
<1>8. qIn' = [qIn EXCEPT ![e] = Append(@, Delivered(Pushed[e])[Len(@) + 1])]
  BY <1>5, <1>6
<1>9. States' = [States EXCEPT ![e] = State(e)'] /\ States[e] = State(e)
  BY <1>2, OneState
<1>10. State(e) # "closed" /\ State(e)' = IF State(e) = "open" THEN "open" ELSE "closed"
  BY <1>2 DEF State, Arriving, Begun
<1>11. e = "server" => validated
  BY <1>2, InvEnds DEF ValidOk, ReaderOp
<1>12. Pushed' = Pushed /\ validated' = validated
  BY DEF Pushed
<1>. HIDE DEF a, s, n, m
<1>13. States' = [States EXCEPT ![e] = IF @ = "open" THEN "open" ELSE "closed"] /\ States[e] # "closed"
  BY <1>9, <1>10
<1>14. Len(qIn[e]) < Len(Pushed[e])
  BY <1>6, <1>7 DEF n
<1>. QED  BY <1>8, <1>11, <1>12, <1>13, <1>14 DEF Delivers

\* The server's verdict is the admission.
LEMMA VerdictAdmits ==
    ASSUME Inv, CountInv', NEW e \in Ends, Due(e, "readValidation"), ok(e), e = "server",
           validated' = TRUE, Continue(e, async_read(rest(e), "readHeader")), sent' = sent, qIn' = qIn
    PROVE  Admits
<1>1. CountInv /\ "readValidation" \in ReadChain(e) /\ "readHeader" \in ReadOps
  BY InvEnds, ChainOps DEF ReadOps
<1>2. /\ PeerRests(e) /\ io'[e].socket = io[e].socket
      /\ Reader(e) = <<"ok", "readValidation">> /\ Reader(e)' = <<Begun(e, "reading"), "readHeader">>
  BY <1>1, DoRead DEF DueStage
<1>3. ~validated
  BY <1>2, InvEnds DEF ValidOk, ReaderOp
<1>4. State(e)' = State(e)
  BY <1>2 DEF State, Arriving, Begun
<1>5. States' = States
  BY <1>2, <1>4, OneState
<1>. QED  BY <1>3, <1>5 DEF Admits, Pushed

\* The handler of a write of a message that is due is the one the writer stands at.
LEMMA DueWriter ==
    ASSUME CountInv, NEW e \in Ends, NEW h \in DataOps, Due(e, h)
    PROVE  Writer(e) = <<DueStage(e), h>>
<1>. DEFINE t == <<DueStage(e), h>>
            D == Of(DataOps)
<1>1. Has(io[e], t) /\ DueStage(e) \in Stages
  BY ChainOps, DueToken
<1>2. t \in D
  BY <1>1 DEF Of
<1>3. io[e] \in IoRecord /\ Cnt(io[e], D) <= 1
  BY EndTyped
<1>4. Writer(e) = Only(io[e], D)
  BY DEF Writer
<1>. HIDE DEF t, D
<1>5. Writer(e) = t
  BY <1>1, <1>2, <1>3, <1>4, OnlyIs
<1>. QED  BY <1>5 DEF t

\* Every handler is a step of the channel.
LEMMA HandlersStep ==
    ASSUME Inv, CountInv', NEW e \in Ends, Run(e)
    PROVE  ChannelStep
<1>1. CASE RunSend(e)
  <2>1. PeerRests(e) /\ io'[e].socket = io[e].socket /\ Reader(e)' = Reader(e)
    BY <1>1, InvEnds, DoSend
  <2>2. sent' = sent /\ qIn' = qIn /\ validated' = validated
    BY <1>1 DEF RunSend
  <2>. QED  BY <2>1, <2>2, CalmStep, NotArriving
<1>2. CASE RunClose(e)
  BY <1>2, ClosesCalm DEF RunClose
<1>3. CASE Connected(e)
  <2>1. Due(e, "connect") /\ "connect" \in AllOps /\ "readValidation" \in ReadOps
        /\ sent' = sent /\ qIn' = qIn /\ validated' = validated
    BY <1>3 DEF Connected, AllOps, ReadOps
  <2>2. "connect" \in ReadChain(e)
    BY <2>1, InvEnds, ConnectClient, ChainOps
  <2>3. CASE ok(e)
    <3>1. Continue(e, async_read(rest(e), "readValidation"))
      BY <1>3, <2>3 DEF Connected
    <3>. QED  BY <2>1, <2>2, <3>1, ReadCalm
  <2>4. CASE ~ok(e)
    <3>1. Continue(e, rest(e))
      BY <1>3, <2>4 DEF Connected
    <3>. QED  BY <2>1, <3>1, NothingCalm
  <2>. QED  BY <2>3, <2>4
<1>4. CASE ValidationRead(e)
  <2>1. Due(e, "readValidation") /\ "readValidation" \in AllOps \cup {"close"} /\ "readValidation" \in AllOps
        /\ sent' = sent /\ qIn' = qIn
    BY <1>4 DEF ValidationRead, AllOps, ReadOps
  <2>2. CASE ok(e) /\ e = "server" /\ validated' = TRUE /\ Continue(e, async_read(rest(e), "readHeader"))
    BY <2>1, <2>2, VerdictAdmits DEF ChannelStep
  <2>3. CASE /\ Continue(e, async_write(rest(e), "writeValidation", Handshake(scramble(handshakeIn[e].word))))
             /\ UNCHANGED validated
    <3>. DEFINE u == Handshake(scramble(handshakeIn[e].word))
    <3>1. u \in AnyUnit /\ "writeValidation" \in WriteOps
      BY DEF AnyUnit, Units, Words, scramble, Handshake, WriteOps
    <3>. HIDE DEF u
    <3>2. Continue(e, async_write(rest(e), "writeValidation", u)) /\ validated' = validated
      BY <2>3 DEF u
    <3>. QED  BY <2>1, <3>1, <3>2, WriteCalm
  <2>4. CASE Failed(e) /\ UNCHANGED validated
    BY <2>1, <2>4, ClosesCalm DEF Failed
  <2>. QED  BY <1>4, <2>2, <2>3, <2>4 DEF ValidationRead
<1>5. CASE ValidationWritten(e)
  <2>1. Due(e, "writeValidation") /\ "writeValidation" \in AllOps \cup {"close"} /\ "writeValidation" \in AllOps
        /\ sent' = sent /\ qIn' = qIn /\ validated' = validated /\ "readHeader" \in ReadOps
    BY <1>5 DEF ValidationWritten, AllOps, WriteOps, ReadOps
  <2>2. CASE e = "client" /\ Continue(e, async_read(rest(e), "readHeader"))
    <3>1. "writeValidation" \in ReadChain(e)
      BY <2>2, ChainOps
    <3>. QED  BY <2>1, <2>2, <3>1, ReadCalm
  <2>3. CASE Continue(e, rest(e))
    BY <2>1, <2>3, NothingCalm
  <2>4. CASE Failed(e)
    BY <2>1, <2>4, ClosesCalm DEF Failed
  <2>. QED  BY <1>5, <2>2, <2>3, <2>4 DEF ValidationWritten, Ends
<1>6. CASE HeaderRead(e)
  <2>1. Due(e, "readHeader") /\ "readHeader" \in AllOps \cup {"close"} /\ "readHeader" \in ReadChain(e)
        /\ sent' = sent /\ validated' = validated /\ "readBody" \in ReadOps
    BY <1>6, ChainOps DEF HeaderRead, AllOps, ReadOps
  <2>2. CASE ok(e) /\ tmpIn[e].header.size = 0 /\ addToIncoming(e) /\ UNCHANGED tmpIn
    BY <2>1, <2>2, PushDelivers DEF ChannelStep
  <2>3. CASE ok(e) /\ qIn' = qIn /\ Continue(e, async_read(rest(e), "readBody"))
    BY <2>1, <2>3, ReadCalm
  <2>4. CASE ok(e) /\ qIn' = qIn /\ Continue(e, post(rest(e), Done("readBody", TRUE)))
    <3>1. /\ PeerRests(e) /\ io'[e].socket = io[e].socket
          /\ Reader(e) = <<"ok", "readHeader">> /\ Reader(e)' = <<"ok", "readBody">>
      BY <2>1, <2>4, InvEnds, DoNoBody DEF DueStage
    <3>2. Arriving(e)
      BY <3>1 DEF Arriving
    <3>. QED  BY <2>1, <2>4, <3>1, <3>2, CalmStep
  <2>5. CASE Failed(e) /\ UNCHANGED qIn
    BY <2>1, <2>5, ClosesCalm DEF Failed
  <2>. QED  BY <1>6, <2>2, <2>3, <2>4, <2>5 DEF HeaderRead
<1>7. CASE BodyRead(e)
  <2>1. Due(e, "readBody") /\ "readBody" \in AllOps \cup {"close"}
        /\ sent' = sent /\ validated' = validated /\ tmpIn' = tmpIn
    BY <1>7 DEF BodyRead, AllOps, ReadOps
  <2>2. CASE ok(e) /\ addToIncoming(e)
    BY <2>1, <2>2, PushDelivers DEF ChannelStep
  <2>3. CASE Failed(e) /\ UNCHANGED qIn
    BY <2>1, <2>3, ClosesCalm DEF Failed
  <2>. QED  BY <1>7, <2>2, <2>3 DEF BodyRead
<1>8. CASE HeaderWritten(e) \/ BodyWritten(e)
  <2>1. PICK h \in DataOps : Due(e, h) /\ \/ NextMessage(e)
                                          \/ qOut[e] # << >> /\ Continue(e, async_write(rest(e), "writeBody", Body(Head(qOut[e]))))
                                          \/ Failed(e)
    <3>1. \A h \in DataOps : Due(e, h) /\ ok(e) => qOut[e] # << >>
      <4>1. SUFFICES ASSUME NEW h \in DataOps, Due(e, h) PROVE qOut[e] # << >>
        OBVIOUS
      <4>2. h \in AllOps
        BY ChainOps
      <4>3. Has(io[e], <<DueStage(e), h>>) /\ DueStage(e) \in Stages /\ CountInv
        BY <4>1, <4>2, InvEnds, DueToken
      <4>4. Writer(e) = <<DueStage(e), h>>
        BY <4>1, <4>3, DueWriter
      <4>. QED  BY <4>3, <4>4, WriterIs DEF NoToken, Stages
    <3>2. "writeHeader" \in DataOps /\ "writeBody" \in DataOps
      BY DEF DataOps
    <3>. QED  BY <1>8, <3>1, <3>2 DEF HeaderWritten, BodyWritten
  <2>2. sent' = sent /\ qIn' = qIn /\ validated' = validated
    BY <1>8 DEF HeaderWritten, BodyWritten
  <2>3. h \in AllOps /\ h \in AllOps \cup {"close"} /\ "writeHeader" \in WriteOps /\ "writeBody" \in WriteOps
        /\ qOut[e] \in Seq(Messages)
    BY <2>1, InvEnds, EndTyped DEF AllOps, DataOps, WriteOps
  <2>4. CASE Failed(e)
    BY <2>1, <2>2, <2>3, <2>4, ClosesCalm DEF Failed
  <2>5. CASE qOut[e] # << >> /\ Continue(e, async_write(rest(e), "writeBody", Body(Head(qOut[e]))))
    <3>. DEFINE u == Body(Head(qOut[e]))
    <3>1. u \in AnyUnit
      <4>1. Head(qOut[e]) \in Messages
        BY <2>3, <2>5
      <4>. QED  BY <4>1, UnitKinds
    <3>. HIDE DEF u
    <3>2. Continue(e, async_write(rest(e), "writeBody", u))
      BY <2>5 DEF u
    <3>. QED  BY <2>1, <2>2, <2>3, <3>1, <3>2, WriteCalm
  <2>6. CASE NextMessage(e)
    <3>1. CASE Len(qOut[e]) > 1
      <4>. DEFINE u == Header(qOut[e][2])
      <4>1. u \in AnyUnit
        <5>1. qOut[e][2] \in Messages
          BY <2>3, <3>1
        <5>. QED  BY <5>1, UnitKinds
      <4>. HIDE DEF u
      <4>2. Continue(e, async_write(rest(e), "writeHeader", u))
        BY <2>6, <3>1 DEF NextMessage, u
      <4>. QED  BY <2>1, <2>2, <2>3, <4>1, <4>2, WriteCalm
    <3>2. CASE ~(Len(qOut[e]) > 1)
      <4>1. Continue(e, rest(e))
        BY <2>6, <3>2 DEF NextMessage
      <4>. QED  BY <2>1, <2>2, <2>3, <4>1, NothingCalm
    <3>. QED  BY <3>1, <3>2
  <2>. QED  BY <2>1, <2>4, <2>5, <2>6
<1>. QED  BY <1>1, <1>2, <1>3, <1>4, <1>5, <1>6, <1>7, <1>8 DEF Run

\* A call of disconnect() changes nothing at first.
LEMMA DisconnectStep ==
    ASSUME Inv, CountInv', NEW e \in Ends, disconnect(e)
    PROVE  ChannelStep
<1>. DEFINE h == [handler |-> "close"]
<1>1. /\ io' = [io EXCEPT ![e] = post(@, h)] /\ h \in Handlers /\ h.handler = "close"
      /\ sent' = sent /\ qIn' = qIn /\ validated' = validated
  BY DEF disconnect, Handlers
<1>. HIDE DEF h
<1>2. PeerRests(e) /\ io'[e].socket = io[e].socket /\ Reader(e)' = Reader(e)
  BY <1>1, InvEnds, DoPost
<1>. QED  BY <1>1, <1>2, CalmStep, NotArriving

\* stop() is nothing to the channel.
LEMMA StopStep ==
    ASSUME Inv, CountInv', NEW e \in Ends, stop(e)
    PROVE  ChannelStep
<1>1. sent' = sent /\ qIn' = qIn /\ validated' = validated /\ CountInv /\ IoTyped
  BY InvEnds DEF stop, CountInv, Typed
<1>2. PeerRests(e) /\ io'[e].socket = io[e].socket /\ Reader(e)' = Reader(e)
  BY <1>1, Halts, HaltsTokens DEF PeerRests
<1>. QED  BY <1>1, <1>2, CalmStep, NotArriving

\* A call of send() is the channel's, towards the peer.
LEMMA SendStep ==
    ASSUME Inv, CountInv', NEW e \in Ends, NEW m \in MessagesOf[e], send(e, m)
    PROVE  ChannelStep
<1>. DEFINE h == [handler |-> "send", msg |-> m]
            p == Peer(e)
<1>1. m \in Messages /\ p \in Ends /\ Peer(p) = e /\ p # e /\ \A d \in Ends : d = e \/ d = p
  BY TwoEnds DEF Messages
<1>2. /\ io' = [io EXCEPT ![e] = post(@, h)] /\ h \in Handlers /\ h.handler = "send"
      /\ sent' = [sent EXCEPT ![e] = Append(@, m)] /\ qIn' = qIn /\ validated' = validated
  BY <1>1 DEF send, Handlers
<1>. HIDE DEF h
<1>3. PeerRests(e) /\ io'[e].socket = io[e].socket /\ Reader(e)' = Reader(e)
  BY <1>2, InvEnds, DoPost
<1>4. State(e)' = State(e)
  BY <1>3 DEF State, Arriving
<1>5. States' = States
  BY <1>3, <1>4, OneState
<1>6. sent \in [Ends -> Seq(Messages)]
  BY InvEnds DEF CountInv, Typed
<1>7. Pushed' = [Pushed EXCEPT ![p] = Append(@, m)]
  <2>1. sent'[e] = Append(sent[e], m) /\ sent'[p] = sent[p]
    BY <1>1, <1>2, <1>6
  <2>2. Peer(e) = p
    OBVIOUS
  <2>. HIDE DEF p
  <2>. QED  BY <1>1, <2>1, <2>2 DEF Pushed
<1>. QED  BY <1>1, <1>2, <1>5, <1>7 DEF ChannelStep, Sends

\* What the network does to an open socket is nothing to the channel.
LEMMA NetworkStep ==
    ASSUME Inv, CountInv', Network
    PROVE  ChannelStep
<1>. USE DEF Ends
<1>1. sent' = sent /\ qIn' = qIn /\ validated' = validated
  BY DEF Network, Connect, Accept, Transmit, Receive, ReceiveFails
<1>2. CASE Accept
  <2>1. PeerRests("server") /\ io["server"].socket = "none"
    BY <1>2, InvEnds, AcceptDone
  <2>. QED  BY <1>1, <2>1, CalmStep
<1>3. ASSUME NEW e \in Ends, NEW s \in BOOLEAN, io[e].writing # << >>, CompleteWrite(e, s)
      PROVE  ChannelStep
  <2>1. PeerRests(e) /\ io[e].socket = "open"
    BY <1>1, <1>3, InvEnds, WriteDone
  <2>. QED  BY <1>1, <2>1, CalmStep
<1>4. ASSUME NEW e \in Ends, NEW s \in BOOLEAN, io[e].reading # << >>, CompleteRead(e, s)
      PROVE  ChannelStep
  <2>1. PeerRests(e) /\ io[e].socket = "open"
    BY <1>1, <1>4, InvEnds, ReadDone
  <2>. QED  BY <1>1, <2>1, CalmStep
<1>5. CASE Connect
  BY <1>3, <1>5 DEF Connect, Connecting
<1>6. ASSUME NEW e \in Ends, Transmit(e) PROVE ChannelStep
  BY <1>3, <1>6 DEF Transmit
<1>7. ASSUME NEW e \in Ends, Receive(e) \/ ReceiveFails(e) PROVE ChannelStep
  BY <1>4, <1>7 DEF Receive, ReceiveFails
<1>. QED  BY <1>2, <1>5, <1>6, <1>7 DEF Network

\* What changes none of the channel's variables
LEMMA NoStep ==
    ASSUME UNCHANGED <<io, sent, qIn, validated>>
    PROVE  ChannelStep
BY DEF ChannelStep, Rests, Pushed, States, State, Arriving, Reader

\* Every step of the connection is one of the channel, or none.
LEMMA ChannelNext ==
    ASSUME Inv, Inv', [Next]_vars
    PROVE  [C!Next]_C!vars
<1>1. CountInv /\ CountInv'
  BY DEF Inv
<1>2. ASSUME UNCHANGED vars PROVE ChannelStep
  <2>1. UNCHANGED <<io, sent, qIn, validated>>
    BY <1>2 DEF vars
  <2>. QED  BY <2>1, NoStep
<1>3. ASSUME Reset PROVE ChannelStep
  <2>1. UNCHANGED <<io, sent, qIn, validated>>
    BY <1>3 DEF Reset
  <2>. QED  BY <2>1, NoStep
<1>4. ASSUME NEW e \in Ends, Run(e) PROVE ChannelStep
  BY <1>1, <1>4, HandlersStep
<1>5. ASSUME NEW e \in Ends, disconnect(e) PROVE ChannelStep
  BY <1>1, <1>5, DisconnectStep
<1>6. ASSUME NEW e \in Ends, NEW m \in MessagesOf[e], send(e, m) PROVE ChannelStep
  BY <1>1, <1>6, SendStep
<1>7. ASSUME Network PROVE ChannelStep
  BY <1>1, <1>7, NetworkStep
<1>8. ASSUME NEW e \in Ends, stop(e) PROVE ChannelStep
  BY <1>1, <1>8, StopStep
<1>9. ChannelStep
  BY <1>2, <1>3, <1>4, <1>5, <1>6, <1>7, <1>8 DEF Next
<1>. QED  BY <1>1, <1>9, ChannelSteps

\* A connection starts as a channel does.
LEMMA ChannelInit ==
    ASSUME Init
    PROVE  C!Init
<1>1. \A e \in Ends : io[e].socket # "closed"
  BY DEF Init, Ends
<1>2. \A e \in Ends : sent[Peer(e)] = << >>
  BY TwoEnds DEF Init
<1>3. qIn = [e \in Ends |-> << >>] /\ validated = FALSE
  BY DEF Init
<1>. QED  BY <1>1, <1>2, <1>3 DEF C!Init

\* A connection is a channel: to each end the other's messages come in the order of
\* the send() calls, each once and as the buffer makes it, up to where the connection
\* ends, and to the server only from a client it has validated (p2d.hpp:285-536).
THEOREM ImplementsChannelHolds == Spec => ImplementsChannel
<1>1. Init => C!Init
  BY ChannelInit
<1>2. Inv /\ Inv' /\ [Next]_vars => [C!Next]_C!vars
  BY ChannelNext
<1>. QED  BY <1>1, <1>2, StreamInvariant, PTL DEF Spec, ImplementsChannel, C!Spec
=============================================================================
