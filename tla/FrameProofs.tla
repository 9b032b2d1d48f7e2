------------------------------ MODULE FrameProofs ------------------------------
(***************************************************************************)
(* What holds of the frame loop, and of Application, Input and a Toggle    *)
(* together, for any objects, any intervals, any changes the scripts make  *)
(* and any number of frames.                                               *)
(*                                                                         *)
(* Of the loop by itself: a root's _timer and deltaTime together are the   *)
(* time since its last update, and no time is added to the _timer of one   *)
(* below; refreshTimer and collisionTimer, equal at the top of the loop,   *)
(* part in a frame that refreshes and meet again at its end.  A root that  *)
(* is owed a turn has a place in the list ahead of emulatedIT, and what it *)
(* was owed for and the turns up to that place are no more than a round    *)
(* and what emulatedTimer holds.                                           *)
(*                                                                         *)
(* Of the whole: until buttonsReleased has its entries no list has been    *)
(* filled; and in a frame that began with input._update() the timer had a  *)
(* round to give, and after k turns the last k places of the list, round   *)
(* its end, have had one.                                                  *)
(***************************************************************************)
EXTENDS Frame, FiniteSetTheorems, SequenceTheorems, TLAPS

LOCAL INSTANCE SequencesExt  \* ToSet, SetToSeqs

-----------------------------------------------------------------------------
(* The operators that make the lists *)

\* As many places as members, and no member in two places: each has one.
LEMMA InjectionFills ==
  ASSUME NEW D, IsFiniteSet(D), NEW S, IsFiniteSet(S), Cardinality(D) = Cardinality(S),
         NEW f \in [D -> S], \A i, j \in D : i # j => f[i] # f[j]
  PROVE  \A y \in S : \E i \in D : f[i] = y
<1>. SUFFICES ASSUME NEW y \in S, \A i \in D : f[i] # y PROVE FALSE
  OBVIOUS
<1>1. /\ IsFiniteSet(S \ {y}) /\ Cardinality(S \ {y}) = Cardinality(S) - 1
      /\ Cardinality(S) \in Nat
  BY FS_RemoveElement, FS_CardinalityType
<1>2. f \in [D -> S \ {y}]
  OBVIOUS
<1>3. Cardinality(S \ {y}) < Cardinality(D)
  BY <1>1
<1>4. \E i, j \in D : i # j /\ f[i] = f[j]
  BY <1>1, <1>2, <1>3, FS_PigeonHole
<1>. QED  BY <1>4

\* n places for the n members of a set, each in its own: none is left free.
LEMMA PlacesFilled ==
  ASSUME NEW S, IsFiniteSet(S), NEW n \in Nat, Cardinality(S) = n,
         NEW r \in [S -> 1 .. n], \A o, p \in S : r[o] = r[p] => o = p
  PROVE  \A i \in 1 .. n : \E o \in S : r[o] = i
<1>. DEFINE D == 1 .. n
<1>1. IsFiniteSet(D) /\ Cardinality(D) = n
  BY FS_Interval
<1>2. r \in [S -> D] /\ \A o, p \in S : o # p => r[o] # r[p]
  OBVIOUS
<1>3. \A i \in D : \E o \in S : r[o] = i
  <2>. HIDE DEF D
  <2>. QED  BY <1>1, <1>2, InjectionFills
<1>. QED  BY <1>3

\* A sequence that SetToSeqs() makes of a set has each of its members once.
LEMMA SeqOfSet ==
  ASSUME NEW S, IsFiniteSet(S), NEW s \in SetToSeqs(S)
  PROVE  /\ s \in Seq(S) /\ Len(s) = Cardinality(S)
         /\ ToSet(s) = S
         /\ \A i, j \in 1 .. Len(s) : s[i] = s[j] => i = j
<1>. DEFINE n == Cardinality(S)
<1>1. n \in Nat
  BY FS_CardinalityType
<1>2. s \in [1 .. n -> S] /\ \A i, j \in 1 .. n : i # j => s[i] # s[j]
  BY DEF SetToSeqs
<1>a. Cardinality(S) = n
  OBVIOUS
<1>. HIDE DEF n
<1>3. s \in Seq(S) /\ Len(s) = n
  BY <1>1, <1>2, SeqDef
<1>5. IsFiniteSet(1 .. n) /\ Cardinality(1 .. n) = n
  BY <1>1, FS_Interval
<1>6. \A y \in S : \E i \in 1 .. n : s[i] = y
  <2>. DEFINE D == 1 .. n
  <2>1. /\ IsFiniteSet(D) /\ Cardinality(D) = Cardinality(S)
        /\ s \in [D -> S] /\ \A i, j \in D : i # j => s[i] # s[j]
    BY <1>2, <1>5, <1>a
  <2>2. \A y \in S : \E i \in D : s[i] = y
    <3>. HIDE DEF D
    <3>. QED  BY <2>1, InjectionFills
  <2>. QED  BY <2>2
<1>7. ToSet(s) = S
  <2>1. DOMAIN s = 1 .. n
    BY <1>2
  <2>. QED  BY <1>2, <1>6, <2>1 DEF ToSet
<1>. QED  BY <1>2, <1>3, <1>7 DEF n

\* The objects of a finite set in the order of their ids: there is one for each place,
\* and a place for each.
LEMMA ByIdIsSeq ==
  ASSUME NEW S, S \subseteq Nat, IsFiniteSet(S)
  PROVE  /\ ById(S) \in Seq(S)
         /\ \A o \in S : \E i \in 1 .. Len(ById(S)) : ById(S)[i] = o
<1>. DEFINE n == Cardinality(S)
            Lower(o) == {p \in S : p < o}
            rank == [o \in S |-> Cardinality(Lower(o)) + 1]
<1>1. n \in Nat
  BY FS_CardinalityType
<1>2. ASSUME NEW o \in S
      PROVE  /\ IsFiniteSet(Lower(o)) /\ Cardinality(Lower(o)) \in Nat
             /\ Cardinality(Lower(o)) < n
  <2>1. o \notin Lower(o) /\ Lower(o) \in SUBSET (S \ {o})
    OBVIOUS
  <2>2. IsFiniteSet(S \ {o}) /\ Cardinality(S \ {o}) = n - 1
    BY FS_RemoveElement
  <2>3. IsFiniteSet(Lower(o)) /\ Cardinality(Lower(o)) <= n - 1
    BY <2>1, <2>2, FS_Subset
  <2>4. Cardinality(Lower(o)) \in Nat
    BY <2>3, FS_CardinalityType
  <2>. QED  BY <1>1, <2>3, <2>4
<1>3. ASSUME NEW o \in S, NEW p \in S, p < o
      PROVE  Cardinality(Lower(p)) < Cardinality(Lower(o))
  <2>1. p \in Lower(o) /\ Lower(p) \in SUBSET (Lower(o) \ {p})
    <3>1. p < o /\ p \in Nat /\ o \in Nat /\ \A q \in S : q \in Nat
      BY <1>3
    <3>2. \A q \in S : q < p => q < o /\ q # p
      BY <3>1
    <3>. QED  BY <3>1, <3>2
  <2>2. /\ IsFiniteSet(Lower(o) \ {p})
        /\ Cardinality(Lower(o) \ {p}) = Cardinality(Lower(o)) - 1
    BY <1>2, <2>1, FS_RemoveElement
  <2>3. Cardinality(Lower(p)) <= Cardinality(Lower(o)) - 1
    BY <2>1, <2>2, FS_Subset
  <2>. QED  BY <1>2, <2>3
<1>a. Cardinality(S) = n
  OBVIOUS
<1>. HIDE DEF n, Lower
<1>4. rank \in [S -> 1 .. n]
  BY <1>1, <1>2
<1>5. \A o, p \in S : rank[o] = rank[p] => o = p
  <2>. SUFFICES ASSUME NEW o \in S, NEW p \in S, rank[o] = rank[p] PROVE o = p
    OBVIOUS
  <2>1. Cardinality(Lower(o)) = Cardinality(Lower(p))
    BY <1>2
  <2>2. ~(o < p) /\ ~(p < o)
    BY <1>2, <1>3, <2>1
  <2>. QED  BY <2>2
<1>7. \E r \in [S -> 1 .. n] : /\ \A o, p \in S : r[o] = r[p] => o = p
                               /\ \A o \in S : r[o] = Cardinality(Lower(o)) + 1
  BY <1>4, <1>5
<1>. HIDE DEF rank
<1>8. \A i \in 1 .. n : \E o \in S : Cardinality(Lower(o)) + 1 = i
  <2>1. PICK r \in [S -> 1 .. n] : /\ \A o, p \in S : r[o] = r[p] => o = p
                                  /\ \A o \in S : r[o] = Cardinality(Lower(o)) + 1
    BY <1>7
  <2>2. \A i \in 1 .. n : \E o \in S : r[o] = i
    BY ONLY IsFiniteSet(S), <1>1, <2>1, <1>a, PlacesFilled
  <2>. QED  BY <2>1, <2>2
<1>9. ASSUME NEW i \in 1 .. n
      PROVE  ById(S)[i] \in S
  <2>1. PICK o \in S : Cardinality(Lower(o)) + 1 = i
    BY <1>8
  <2>2. Cardinality(Lower(o)) = i - 1
    BY <1>1, <1>2, <2>1
  <2>3. \E q \in S : Cardinality({p \in S : p < q}) = i - 1
    BY <2>2 DEF Lower
  <2>4. ById(S)[i] = CHOOSE q \in S : Cardinality({p \in S : p < q}) = i - 1
    BY DEF ById, n
  <2>. QED  BY <2>3, <2>4
<1>10. ById(S) = [i \in 1 .. n |-> ById(S)[i]]
  BY DEF ById, n
<1>11. ById(S) \in [1 .. n -> S]
  BY <1>9, <1>10
<1>12. ById(S) \in Seq(S) /\ Len(ById(S)) = n
  BY <1>1, <1>11, SeqDef
<1>13. ASSUME NEW o \in S
       PROVE  \E i \in 1 .. n : ById(S)[i] = o
  <2>1. PICK r \in [S -> 1 .. n] : /\ \A p, q \in S : r[p] = r[q] => p = q
                                  /\ \A p \in S : r[p] = Cardinality(Lower(p)) + 1
    BY <1>7
  <2>2. ById(S)[r[o]] = CHOOSE q \in S : Cardinality({p \in S : p < q}) = r[o] - 1
    BY DEF ById, n
  <2>3. \A q \in S : Cardinality({p \in S : p < q}) = r[o] - 1 <=> q = o
    <3>1. \A q \in S : Cardinality(Lower(q)) = r[o] - 1 <=> r[q] = r[o]
      BY <1>2, <2>1
    <3>. QED  BY <2>1, <3>1 DEF Lower
  <2>4. ById(S)[r[o]] = o
    BY <2>2, <2>3
  <2>. QED  BY <2>4
<1>. QED  BY <1>12, <1>13

\* What is in a list of objects is in some place of it, and the other way round.
LEMMA InList ==
  ASSUME NEW S, NEW s \in Seq(S), NEW o
  PROVE  o \in ToSet(s) <=> \E i \in 1 .. Len(s) : s[i] = o
  BY DEF ToSet

-----------------------------------------------------------------------------
(* Types *)

\* An interval is a number of ticks, too.
LEMMA DivNat == ASSUME NEW n \in Nat, NEW l \in Nat \ {0} PROVE n \div l \in Nat
  OBVIOUS

\* What the objects are.
LEMMA ObjectsFinite ==
  /\ Roots \subseteq Nat /\ Inner \subseteq Nat /\ Roots \cap Inner = {}
  /\ \A S : S \subseteq Objects => IsFiniteSet(S) /\ S \subseteq Nat
<1>1. Objects \subseteq Nat /\ IsFiniteSet(Objects) /\ Roots \cap Inner = {}
  BY TimeAssumption
<1>2. ASSUME NEW S, S \subseteq Objects PROVE IsFiniteSet(S)
  BY <1>1, <1>2, FS_Subset
<1>. QED  BY <1>1, <1>2 DEF Objects

\* A change that a script may make is to an object there is.
LEMMA ChangeTyped ==
  ASSUME TypeOK, NEW c \in Changes, Make(c)
  PROVE  /\ gameObjects' \subseteq Roots /\ enabled' \subseteq Objects
         /\ Flagged(c) \subseteq Objects /\ added' \subseteq gameObjects'
         /\ Is(c, "add") \subseteq Roots
<1>1. \/ c = NoChange
      \/ \E o \in Roots : c = [do |-> "add", obj |-> o]
      \/ \E o \in gameObjects : c = [do |-> "remove", obj |-> o]
      \/ \E o \in Objects : c = [do |-> "enable", obj |-> o]
      \/ \E o \in enabled : c = [do |-> "disable", obj |-> o]
  BY DEF Changes
<1>2. Is(c, "add") \subseteq Roots /\ Is(c, "enable") \subseteq Objects
  BY <1>1 DEF Is, NoChange
<1>. QED  BY <1>2 DEF Make, Registered, Enabled, Flagged, TypeOK, Objects

\* Each list is a sequence of objects after a refresh, too.
LEMMA RefreshTyped ==
  ASSUME TypeOK, Refresh, refreshTimer >= Simulated
  PROVE  /\ \E inRange \in SUBSET Inserted :
               /\ gameObjectsSimulated' \in Seq(inRange) /\ ToSet(gameObjectsSimulated') = inRange
               /\ \A i, j \in 1 .. Len(gameObjectsSimulated') :
                     gameObjectsSimulated'[i] = gameObjectsSimulated'[j] => i = j
               /\ simulated' = Marked(inRange)
         /\ gameObjectsEmulated' \in Seq(Roots)
         /\ owed' \in [Roots -> Nat \cup {Never}]
         /\ refreshTimer' = refreshTimer - Simulated /\ added' = {}
<1>. DEFINE out == (gameObjects \cap enabled) \ simulated'
<1>1. /\ \E inRange \in SUBSET Inserted :
             gameObjectsSimulated' \in SetToSeqs(inRange) /\ simulated' = Marked(inRange)
      /\ gameObjectsEmulated' = gameObjectsEmulated \o ById(out)
      /\ refreshTimer' = refreshTimer - Simulated /\ added' = {}
      /\ owed' = [o \in Roots |-> IF o \in out /\ owed[o] = Never THEN 0 ELSE owed[o]]
  <2>1. ~(refreshTimer < Simulated)
    BY TimeAssumption DEF TypeOK
  <2>2. \E inRange \in SUBSET Inserted :
             gameObjectsSimulated' \in SetToSeqs(inRange) /\ simulated' = Marked(inRange)
    BY <2>1 DEF Refresh
  <2>3. /\ gameObjectsEmulated' = gameObjectsEmulated \o ById(out)
        /\ owed' = [o \in Roots |-> IF o \in out /\ owed[o] = Never THEN 0 ELSE owed[o]]
    BY <2>1 DEF Refresh
  <2>4. refreshTimer' = refreshTimer - Simulated /\ added' = {}
    BY <2>1 DEF Refresh
  <2>. QED  BY <2>2, <2>3, <2>4
<1>2. Inserted \subseteq Objects
  BY DEF Inserted, Objects
<1>3. ASSUME NEW inRange \in SUBSET Inserted, gameObjectsSimulated' \in SetToSeqs(inRange)
      PROVE  /\ gameObjectsSimulated' \in Seq(inRange) /\ ToSet(gameObjectsSimulated') = inRange
             /\ \A i, j \in 1 .. Len(gameObjectsSimulated') :
                   gameObjectsSimulated'[i] = gameObjectsSimulated'[j] => i = j
  <2>1. IsFiniteSet(inRange)
    BY <1>2, ObjectsFinite
  <2>. QED  BY <1>3, <2>1, SeqOfSet
<1>4. out \subseteq Roots
  BY DEF TypeOK
<1>5. IsFiniteSet(out) /\ out \subseteq Nat
  BY <1>4, ObjectsFinite DEF Objects
<1>. HIDE DEF out
<1>6. ById(out) \in Seq(out)
  BY <1>5, ByIdIsSeq
<1>7. ById(out) \in Seq(Roots)
  BY <1>4, <1>6
<1>8. gameObjectsEmulated' \in Seq(Roots) /\ owed' \in [Roots -> Nat \cup {Never}]
  BY <1>1, <1>7 DEF TypeOK
<1>. QED  BY <1>1, <1>3, <1>8

\* What the update of an object writes has the types.
LEMMA UpdateTyped ==
  ASSUME TypeOK, NEW o \in Objects, UpdateObject(o)
  PROVE  /\ gameObjects' \subseteq Roots /\ enabled' \subseteq Objects /\ simulated' \subseteq Objects
         /\ timer' \in [Objects -> Nat \cup {Unset}]
         /\ since' \in [Roots -> Nat \cup {Never}] /\ owed' \in [Roots -> Nat \cup {Never}]
         /\ steady' \subseteq Roots /\ added' \subseteq gameObjects'
<1>1. timer' \in [Objects -> Nat \cup {Unset}] /\ owed' \in [Roots -> Nat \cup {Never}]
  BY DEF UpdateObject, TimerReset, TypeOK
<1>2. CASE o \in enabled
  <2>1. PICK c \in Changes : Make(c) /\ simulated' = IF o \in Flagged(c) THEN Flagged(c) \cup Below(o)
                                                                       ELSE Flagged(c) \ Below(o)
    BY <1>2 DEF UpdateObject
  <2>2. /\ gameObjects' \subseteq Roots /\ enabled' \subseteq Objects
        /\ Flagged(c) \subseteq Objects /\ added' \subseteq gameObjects'
    BY <2>1, ChangeTyped
  <2>3. Below(o) \subseteq Objects
    BY DEF Below, Objects
  <2>4. simulated' \subseteq Objects
    BY <2>1, <2>2, <2>3
  <2>5. since' \in [Roots -> Nat \cup {Never}] /\ steady' \subseteq Roots
    BY <1>2 DEF UpdateObject, TypeOK
  <2>. QED  BY <1>1, <2>2, <2>4, <2>5
<1>3. CASE o \notin enabled
  <2>1. /\ UNCHANGED <<gameObjects, enabled, simulated, since, added>>
        /\ steady' = steady \ {o}
    BY <1>3 DEF UpdateObject, objects
  <2>. QED  BY <1>1, <2>1 DEF TypeOK
<1>. QED  BY <1>2, <1>3

\* The types hold at first.
LEMMA TypeInit == Init => TypeOK
<1>. SUFFICES ASSUME Init PROVE TypeOK
  OBVIOUS
<1>1. /\ gameObjects \subseteq Roots /\ enabled \subseteq Objects /\ simulated \subseteq Objects
      /\ steady \subseteq Roots /\ added \subseteq gameObjects
      /\ gameObjectsSimulated \in Seq(Objects) /\ gameObjectsEmulated \in Seq(Roots)
  BY DEF Init, Objects
<1>2. /\ timer \in [Objects -> Nat \cup {Unset}]
      /\ since \in [Roots -> Nat \cup {Never}] /\ owed \in [Roots -> Nat \cup {Never}]
  BY DEF Init
<1>3. /\ simulatedIT \in Nat /\ emulatedIT \in Nat
      /\ simulatedTimer \in Nat /\ emulatedTimer \in Nat
      /\ refreshTimer \in Nat /\ collisionTimer \in Nat
      /\ actualFrameTimer \in Int /\ actualFrameTimer >= -FrameTime
  BY TimeAssumption DEF Init
<1>4. /\ deltaTime \in Deltas \cup {Second} /\ vsync \in BOOLEAN /\ refreshed \in BOOLEAN
      /\ at = "top"
  BY DEF Init
<1>. QED  BY <1>1, <1>2, <1>3, <1>4 DEF TypeOK

\* The interval of a turn.
LEMMA IntervalsNat ==
  ASSUME TypeOK
  PROVE  /\ gameObjectsSimulated # << >> => SimulatedInterval \in Nat
         /\ gameObjectsEmulated # << >> => EmulatedInterval \in Nat
<1>1. ASSUME gameObjectsSimulated # << >> PROVE Len(gameObjectsSimulated) \in Nat \ {0}
  BY <1>1 DEF TypeOK
<1>2. ASSUME gameObjectsEmulated # << >> PROVE Len(gameObjectsEmulated) \in Nat \ {0}
  BY <1>2 DEF TypeOK
<1>3. Simulated \in Nat /\ Emulated \in Nat
  BY TimeAssumption
<1>. QED  BY <1>1, <1>2, <1>3, DivNat DEF SimulatedInterval, EmulatedInterval

\* The place of the next turn is one of the list's.
LEMMA PlaceInList ==
  ASSUME NEW S, NEW list \in Seq(S), list # << >>, NEW it \in Nat
  PROVE  /\ Wrapped(it, list) \in Nat /\ Wrapped(it, list) + 1 \in 1 .. Len(list)
         /\ list[Wrapped(it, list) + 1] \in S
<1>1. Len(list) \in Nat \ {0}
  OBVIOUS
<1>2. Wrapped(it, list) \in Nat /\ Wrapped(it, list) + 1 \in 1 .. Len(list)
  BY <1>1 DEF Wrapped
<1>. QED  BY <1>2

\* Each step of the loop keeps the types: no timer that is taken from goes below 0.
LEMMA TypeNext == TypeOK /\ [Next]_vars => TypeOK'
<1>. SUFFICES ASSUME TypeOK, [Next]_vars PROVE TypeOK'
  OBVIOUS
<1>0. /\ Simulated \in Nat /\ Emulated \in Nat /\ FrameTime \in Nat /\ Second \in Nat
      /\ Deltas \subseteq Nat
  BY TimeAssumption
<1>1. CASE Iterate
  <2>1. UNCHANGED <<objects, timer, lists, turns, simulatedTimer, emulatedTimer, refreshTimer,
                    collisionTimer, deltaTime, vsync, since, owed, steady, added>>
    BY <1>1 DEF Iterate
  <2>2. at' \in {"refresh", "time"} /\ refreshed' = FALSE
    BY <1>1 DEF Iterate
  <2>3. actualFrameTimer' \in Int /\ actualFrameTimer' >= -FrameTime
    <3>1. actualFrameTimer \in Int /\ actualFrameTimer >= -FrameTime
      BY DEF TypeOK
    <3>2. CASE vsync
      <4>1. actualFrameTimer' = 0 - FrameTime
        BY <1>1, <3>2 DEF Iterate
      <4>. QED  BY <1>0, <4>1
    <3>3. CASE ~vsync
      <4>1. \/ actualFrameTimer >= FrameTime /\ actualFrameTimer' = actualFrameTimer - FrameTime
            \/ UNCHANGED actualFrameTimer
        BY <1>1, <3>3 DEF Iterate
      <4>. QED  BY <1>0, <3>1, <4>1
    <3>. QED  BY <3>2, <3>3
  <2>. QED  BY <2>1, <2>2, <2>3 DEF TypeOK, objects, lists, turns
<1>2. CASE Refresh
  <2>1. UNCHANGED <<gameObjects, enabled, timer, turns, simulatedTimer, emulatedTimer,
                    collisionTimer, actualFrameTimer, deltaTime, vsync, since, steady>>
        /\ at' = "events"
    BY <1>2 DEF Refresh
  <2>2. CASE refreshTimer >= Simulated
    <3>1. PICK inRange \in SUBSET Inserted :
             gameObjectsSimulated' \in Seq(inRange) /\ simulated' = Marked(inRange)
      BY <1>2, <2>2, RefreshTyped
    <3>2. inRange \subseteq Objects
      BY DEF Inserted, Objects
    <3>3. gameObjectsSimulated' \in Seq(Objects) /\ simulated' \subseteq Objects
      BY <3>1, <3>2 DEF Marked, TypeOK
    <3>4. /\ gameObjectsEmulated' \in Seq(Roots) /\ owed' \in [Roots -> Nat \cup {Never}]
          /\ refreshTimer' = refreshTimer - Simulated /\ added' = {}
      BY <1>2, <2>2, RefreshTyped
    <3>5. refreshTimer' \in Nat
      BY <1>0, <2>2, <3>4 DEF TypeOK
    <3>6. refreshed' \in BOOLEAN
      BY <1>2 DEF Refresh, TypeOK
    <3>. QED  BY <2>1, <3>3, <3>4, <3>5, <3>6 DEF TypeOK, turns
  <2>3. CASE ~(refreshTimer >= Simulated)
    <3>1. UNCHANGED <<simulated, lists, refreshTimer, owed, added, refreshed>>
      BY <1>2, <2>3 DEF Refresh
    <3>. QED  BY <2>1, <3>1 DEF TypeOK, turns, lists
  <2>. QED  BY <2>2, <2>3
<1>3. CASE Events
  BY <1>3 DEF Events, TypeOK, objects, lists, turns, timers, past
<1>4. CASE Begin
  <2>1. PICK c \in Changes : Make(c) /\ simulated' = Flagged(c)
    BY <1>4 DEF Begin
  <2>2. /\ gameObjects' \subseteq Roots /\ enabled' \subseteq Objects /\ simulated' \subseteq Objects
        /\ added' \subseteq gameObjects'
    BY <2>1, ChangeTyped
  <2>3. deltaTime \in Nat
    BY <1>0 DEF TypeOK
  <2>4. timer' \in [Objects -> Nat \cup {Unset}] /\ steady' \subseteq Roots
    BY <1>4, <2>3 DEF Begin, TypeOK, Unset
  <2>5. UNCHANGED <<lists, turns, timers, vsync, since, owed, refreshed>> /\ at' = "simulated"
    BY <1>4 DEF Begin
  <2>. QED  BY <2>2, <2>4, <2>5 DEF TypeOK, lists, turns, timers
<1>5. CASE UpdateSimulated
  <2>. DEFINE it == Wrapped(simulatedIT, gameObjectsSimulated)
              o == gameObjectsSimulated[it + 1]
  <2>1. /\ gameObjectsSimulated # << >> /\ simulatedTimer >= SimulatedInterval
        /\ UpdateObject(o) /\ simulatedIT' = it + 1
        /\ simulatedTimer' = simulatedTimer - SimulatedInterval
    BY <1>5 DEF UpdateSimulated, SimulatedDue
  <2>2. it \in Nat /\ o \in Objects
    BY <2>1, PlaceInList DEF TypeOK
  <2>. HIDE DEF it, o
  <2>3. simulatedIT' \in Nat
    BY <2>1, <2>2
  <2>4. simulatedTimer' \in Nat
    BY <2>1, IntervalsNat DEF TypeOK
  <2>5. UNCHANGED <<lists, emulatedIT, emulatedTimer, refreshTimer, collisionTimer,
                    actualFrameTimer, deltaTime, vsync, at, refreshed>>
    BY <1>5 DEF UpdateSimulated
  <2>. QED  BY <2>1, <2>2, <2>3, <2>4, <2>5, UpdateTyped DEF TypeOK, lists
<1>6. CASE EndSimulated
  BY <1>6 DEF EndSimulated, TypeOK, objects, lists, turns, timers, past
<1>7. CASE UpdateEmulated
  <2>. DEFINE it == Wrapped(emulatedIT, gameObjectsEmulated)
              o == gameObjectsEmulated[it + 1]
  <2>1. /\ gameObjectsEmulated # << >> /\ emulatedTimer > EmulatedInterval
        /\ UpdateObject(o) /\ emulatedIT' = it + 1
        /\ emulatedTimer' = emulatedTimer - EmulatedInterval
    BY <1>7 DEF UpdateEmulated, EmulatedDue
  <2>2. it \in Nat /\ o \in Objects
    BY <2>1, PlaceInList DEF TypeOK, Objects
  <2>. HIDE DEF it, o
  <2>3. emulatedIT' \in Nat
    BY <2>1, <2>2
  <2>4. emulatedTimer' \in Nat
    BY <2>1, IntervalsNat DEF TypeOK
  <2>5. UNCHANGED <<lists, simulatedIT, simulatedTimer, refreshTimer, collisionTimer,
                    actualFrameTimer, deltaTime, vsync, at, refreshed>>
    BY <1>7 DEF UpdateEmulated
  <2>. QED  BY <2>1, <2>2, <2>3, <2>4, <2>5, UpdateTyped DEF TypeOK, lists
<1>8. CASE Collide
  <2>1. collisionTimer' \in Nat
    BY <1>0, <1>8 DEF Collide, TypeOK
  <2>. QED  BY <1>8, <2>1 DEF Collide, TypeOK, objects, lists, turns, past
<1>9. CASE TimeManager
  <2>1. PICK d \in Deltas :
          /\ deltaTime' = d
          /\ refreshTimer' = refreshTimer + d
          /\ simulatedTimer' = simulatedTimer + d
          /\ emulatedTimer' = emulatedTimer + d
          /\ collisionTimer' = collisionTimer + d
          /\ actualFrameTimer' = actualFrameTimer + d
          /\ since' = [o \in Roots |-> IF since[o] = Never THEN Never ELSE since[o] + d]
          /\ owed' = [o \in Roots |-> IF owed[o] = Never THEN Never ELSE owed[o] + d]
    BY <1>9 DEF TimeManager
  <2>2. d \in Nat
    BY <1>0
  <2>3. /\ refreshTimer' \in Nat /\ simulatedTimer' \in Nat /\ emulatedTimer' \in Nat
        /\ collisionTimer' \in Nat /\ deltaTime' \in Deltas \cup {Second}
    BY <2>1, <2>2 DEF TypeOK
  <2>4. actualFrameTimer' \in Int /\ actualFrameTimer' >= -FrameTime
    BY <1>0, <2>1, <2>2 DEF TypeOK
  <2>5. since' \in [Roots -> Nat \cup {Never}] /\ owed' \in [Roots -> Nat \cup {Never}]
    BY <2>1, <2>2 DEF TypeOK, Never
  <2>6. UNCHANGED <<objects, timer, lists, turns, vsync, steady, added, refreshed>> /\ at' = "top"
    BY <1>9 DEF TimeManager
  <2>. QED  BY <2>3, <2>4, <2>5, <2>6 DEF TypeOK, objects, lists, turns
<1>10. CASE UNCHANGED vars
  BY <1>10 DEF vars, TypeOK, objects, lists, turns, timers, past
<1>. QED
  BY <1>1, <1>2, <1>3, <1>4, <1>5, <1>6, <1>7, <1>8, <1>9, <1>10 DEF Next

\* The roots in the list of those simulated are flagged as long as it stands.
RootsFlagged == Roots \cap ToSet(gameObjectsSimulated) \subseteq simulated

FlagsInv == FlagTellsList /\ RootsFlagged

\* A change of the scripts adds flags to the roots added, and takes none away.
LEMMA ChangeFlags ==
  ASSUME TypeOK, FlagsInv, NEW c \in Changes, Make(c)
  PROVE  /\ \A o \in gameObjects' \ added' :
               o \in Flagged(c) <=> o \in ToSet(gameObjectsSimulated)
         /\ simulated \subseteq Flagged(c)
<1>. SUFFICES ASSUME NEW o \in gameObjects' \ added'
              PROVE  o \in Flagged(c) <=> o \in ToSet(gameObjectsSimulated)
  BY DEF Flagged
<1>1. o \notin Is(c, "add") /\ o \in gameObjects \ added
  BY DEF Make, Registered
<1>2. o \in simulated <=> o \in ToSet(gameObjectsSimulated)
  BY <1>1 DEF FlagsInv, FlagTellsList
<1>. QED  BY <1>1, <1>2 DEF Flagged

\* A root that was there at the last refresh is told what that refresh found: only
\* roots added since, and objects below others, have their flags written otherwise;
\* and one below a root in range is told that it is, too.
LEMMA FlagsNext == TypeOK /\ FlagsInv /\ [Next]_vars => FlagsInv'
<1>. SUFFICES ASSUME TypeOK, FlagsInv, [Next]_vars PROVE FlagsInv'
  OBVIOUS
<1>1. ASSUME UNCHANGED <<gameObjects, simulated, added, gameObjectsSimulated>>
      PROVE  FlagsInv'
  BY <1>1 DEF FlagsInv, FlagTellsList, RootsFlagged
<1>3. ASSUME NEW r \in Objects, UpdateObject(r), UNCHANGED gameObjectsSimulated
      PROVE  FlagsInv'
  <2>1. CASE r \in enabled
    <3>1. PICK c \in Changes : Make(c) /\ simulated' = IF r \in Flagged(c) THEN Flagged(c) \cup Below(r)
                                                                         ELSE Flagged(c) \ Below(r)
      BY <1>3, <2>1 DEF UpdateObject
    <3>2. gameObjects' \subseteq Roots
      BY <3>1, ChangeTyped
    <3>3. Below(r) \cap Roots = {}
      BY ObjectsFinite DEF Below
    <3>4. /\ \A o \in gameObjects' \ added' :
                o \in Flagged(c) <=> o \in ToSet(gameObjectsSimulated)
          /\ simulated \subseteq Flagged(c)
      BY <3>1, ChangeFlags
    <3>5. RootsFlagged'
      BY <1>3, <3>1, <3>3, <3>4 DEF FlagsInv, RootsFlagged
    <3>6. ASSUME NEW o \in gameObjects' \ added'
          PROVE  o \in simulated' <=> o \in ToSet(gameObjectsSimulated')
      <4>1. o \in simulated' <=> o \in Flagged(c)
        BY <3>1, <3>2, <3>3
      <4>. QED  BY <1>3, <3>4, <4>1
    <3>7. ASSUME NEW d \in Inner \cap ToSet(gameObjectsSimulated'),
                 RootOf[d] \in ToSet(gameObjectsSimulated')
          PROVE  d \in simulated'
      <4>1. d \in simulated /\ RootOf[d] \in Roots /\ RootOf[d] \in simulated
        BY <1>3, <3>7, TimeAssumption DEF FlagsInv, FlagTellsList, RootsFlagged
      <4>2. d \in Flagged(c) /\ RootOf[d] \in Flagged(c)
        BY <3>4, <4>1
      <4>3. d \in Below(r) => r = RootOf[d]
        BY DEF Below
      <4>. QED  BY <3>1, <4>2, <4>3
    <3>. QED  BY <3>5, <3>6, <3>7 DEF FlagsInv, FlagTellsList
  <2>2. CASE r \notin enabled
    <3>1. UNCHANGED <<gameObjects, simulated, added>>
      BY <1>3, <2>2 DEF UpdateObject, objects
    <3>. QED  BY <1>1, <1>3, <3>1
  <2>. QED  BY <2>1, <2>2
<1>4. CASE Iterate
  BY <1>1, <1>4 DEF Iterate, objects, lists
<1>5. CASE Refresh
  <2>1. CASE refreshTimer >= Simulated
    <3>1. PICK inRange \in SUBSET Inserted :
             ToSet(gameObjectsSimulated') = inRange /\ simulated' = Marked(inRange)
      BY <1>5, <2>1, RefreshTyped
    <3>2. gameObjects' = gameObjects
      BY <1>5 DEF Refresh
    <3>. QED  BY <3>1, <3>2 DEF Marked, FlagsInv, FlagTellsList, RootsFlagged
  <2>2. CASE ~(refreshTimer >= Simulated)
    <3>1. UNCHANGED <<gameObjects, simulated, added, gameObjectsSimulated>>
      BY <1>5, <2>2 DEF Refresh, lists
    <3>. QED  BY <1>1, <3>1
  <2>. QED  BY <2>1, <2>2
<1>6. CASE Events
  BY <1>1, <1>6 DEF Events, objects, lists, past
<1>7. CASE Begin
  <2>1. PICK c \in Changes : Make(c) /\ simulated' = Flagged(c)
    BY <1>7 DEF Begin
  <2>2. UNCHANGED gameObjectsSimulated
    BY <1>7 DEF Begin, lists
  <2>3. /\ \A o \in gameObjects' \ added' :
              o \in Flagged(c) <=> o \in ToSet(gameObjectsSimulated)
        /\ simulated \subseteq Flagged(c)
    BY <2>1, ChangeFlags
  <2>. QED  BY <2>1, <2>2, <2>3 DEF FlagsInv, FlagTellsList, RootsFlagged
<1>8. CASE UpdateSimulated
  <2>1. gameObjectsSimulated[Wrapped(simulatedIT, gameObjectsSimulated) + 1] \in Objects
    BY <1>8, PlaceInList DEF UpdateSimulated, SimulatedDue, TypeOK
  <2>. QED  BY <1>3, <1>8, <2>1 DEF UpdateSimulated, lists
<1>9. CASE UpdateEmulated
  <2>1. gameObjectsEmulated[Wrapped(emulatedIT, gameObjectsEmulated) + 1] \in Roots
    BY <1>9, PlaceInList DEF UpdateEmulated, EmulatedDue, TypeOK
  <2>2. gameObjectsEmulated[Wrapped(emulatedIT, gameObjectsEmulated) + 1] \in Objects
    BY <2>1 DEF Objects
  <2>. QED  BY <1>3, <1>9, <2>2 DEF UpdateEmulated, lists
<1>10. CASE EndSimulated \/ Collide
  BY <1>1, <1>10 DEF EndSimulated, Collide, objects, lists, past
<1>11. CASE TimeManager
  BY <1>1, <1>11 DEF TimeManager, objects, lists
<1>12. CASE UNCHANGED vars
  BY <1>1, <1>12 DEF vars, objects, lists, past
<1>. QED
  BY <1>4, <1>5, <1>6, <1>7, <1>8, <1>9, <1>10, <1>11, <1>12 DEF Next

-----------------------------------------------------------------------------
(* The time an object is given *)

InFrame == {"events", "update", "simulated", "emulated"}

Ended == {"exited", "null"}

\* Until the frame adds deltaTime to its _timer, that much is missing.
Missing == IF at \in {"top", "refresh", "events", "update"} THEN deltaTime ELSE 0

\* With what is missing, the _timer of an object that has been updated is no more
\* than the time since, and just that much if nothing has kept it from counting.
TimerTold(o) ==
    /\ timer[o] # Unset
    /\ timer[o] + Missing <= since[o]
    /\ vsync /\ o \in steady => timer[o] + Missing = since[o]

TimersTold == at \notin Ended => \A o \in Roots : since[o] # Never => TimerTold(o)

\* Time is added to the _timer of roots only.
InnerIdle == \A c \in Inner : timer[c] \in {Unset, 0}

\* Begin adds deltaTime to those in gameObjects, which are roots; a turn leaves 0.
LEMMA IdleNext == TypeOK /\ InnerIdle /\ [Next]_vars => InnerIdle'
<1>. SUFFICES ASSUME TypeOK, InnerIdle, [Next]_vars, NEW i \in Inner PROVE timer'[i] \in {Unset, 0}
  BY DEF InnerIdle
<1>1. timer[i] \in {Unset, 0} /\ i \in Objects
  BY DEF InnerIdle, Objects
<1>2. CASE UNCHANGED timer
  BY <1>1, <1>2
<1>3. CASE Begin
  <2>1. PICK c \in Changes : Make(c)
    BY <1>3 DEF Begin
  <2>2. i \notin gameObjects'
    BY <2>1, ChangeTyped, ObjectsFinite
  <2>. QED  BY <1>1, <1>3, <2>2 DEF Begin
<1>4. ASSUME NEW r, UpdateObject(r) PROVE timer'[i] \in {Unset, 0}
  <2>1. timer' = [timer EXCEPT ![r] = 0] /\ timer \in [Objects -> Nat \cup {Unset}]
    BY <1>4 DEF UpdateObject, TimerReset, TypeOK
  <2>. QED  BY <1>1, <2>1
<1>. QED  BY <1>2, <1>3, <1>4
          DEF Next, Iterate, Refresh, Events, UpdateSimulated, EndSimulated, UpdateEmulated, Collide,
              TimeManager, vars

\* A step that takes time, or gives it, does so on both sides of TimerTold.
LEMMA ToldNext == TypeOK /\ TimersTold /\ [Next]_vars => TimersTold'
<1>. SUFFICES ASSUME TypeOK, TimersTold, [Next]_vars, at' \notin Ended,
                     NEW o \in Roots, since'[o] # Never
              PROVE  TimerTold(o)'
  BY DEF TimersTold
<1>0. /\ timer \in [Objects -> Nat \cup {Unset}] /\ o \in Objects /\ since \in [Roots -> Nat \cup {Never}]
      /\ deltaTime \in Nat /\ Missing \in Nat /\ Deltas \subseteq Nat /\ vsync \in BOOLEAN
      /\ timer[o] \in Nat \cup {Unset} /\ since[o] \in Nat \cup {Never}
  BY TimeAssumption DEF TypeOK, Missing, Objects
<1>1. ASSUME at \notin Ended, since[o] # Never
      PROVE  /\ timer[o] \in Nat /\ since[o] \in Nat /\ timer[o] + Missing <= since[o]
             /\ vsync /\ o \in steady => timer[o] + Missing = since[o]
  BY <1>0, <1>1 DEF TimersTold, TimerTold
<1>2. ASSUME UNCHANGED <<timer, since, vsync, steady>>, at \notin Ended, Missing' = Missing
      PROVE  TimerTold(o)'
  BY <1>1, <1>2 DEF TimerTold, Unset
<1>3. CASE Iterate
  <2>1. /\ UNCHANGED <<timer, since, vsync, steady, deltaTime>> /\ at = "top"
        /\ at' = "refresh" \/ (at' = "time" /\ ~vsync)
    BY <1>3 DEF Iterate
  <2>2. Missing = deltaTime /\ (Missing' = deltaTime \/ (Missing' = 0 /\ ~vsync))
    BY <2>1 DEF Missing
  <2>3. at \notin Ended /\ since[o] # Never
    BY <2>1 DEF Ended
  <2>. QED  BY <1>0, <1>1, <2>1, <2>2, <2>3 DEF TimerTold, Unset
<1>4. CASE Refresh
  BY <1>2, <1>4 DEF Refresh, Ended, Missing
<1>5. CASE Events
  <2>1. UNCHANGED <<timer, since, vsync, steady, deltaTime>> /\ at = "events" /\ at' = "update"
    BY <1>5 DEF Events, timers, past, Ended
  <2>. QED  BY <1>2, <2>1 DEF Ended, Missing
<1>6. CASE Begin
  <2>1. UNCHANGED <<since, vsync>> /\ at = "update" /\ at' = "simulated"
    BY <1>6 DEF Begin
  <2>2. Missing = deltaTime /\ Missing' = 0 /\ at \notin Ended
    BY <2>1 DEF Missing, Ended
  <2>. DEFINE active == gameObjects' \cap enabled'
  <2>3. timer'[o] = IF o \in active /\ timer[o] # Unset THEN timer[o] + deltaTime ELSE timer[o]
    BY <1>0, <1>6 DEF Begin
  <2>4. o \in steady' => o \in steady /\ o \in active
    BY <1>6 DEF Begin
  <2>. HIDE DEF active
  <2>5. /\ timer[o] \in Nat /\ since[o] \in Nat /\ timer[o] + deltaTime <= since[o]
        /\ vsync /\ o \in steady => timer[o] + deltaTime = since[o]
    BY <1>1, <2>1, <2>2
  <2>6. timer[o] # Unset
    BY <2>5 DEF Unset
  <2>7. timer'[o] \in Nat /\ timer'[o] <= since[o] /\ (vsync /\ o \in steady' => timer'[o] = since[o])
    BY <1>0, <2>3, <2>4, <2>5, <2>6
  <2>. QED  BY <1>0, <2>1, <2>2, <2>7 DEF TimerTold, Unset
<1>7. ASSUME NEW r, UpdateObject(r), at \in {"simulated", "emulated"}, UNCHANGED <<at, vsync>>
      PROVE  TimerTold(o)'
  <2>1. Missing = 0 /\ Missing' = 0 /\ at \notin Ended
    BY <1>7 DEF Missing, Ended
  <2>2. timer'[o] = IF o = r THEN 0 ELSE timer[o]
    BY <1>0, <1>7 DEF UpdateObject, TimerReset
  <2>3. CASE o # r
    <3>1. since'[o] = since[o] /\ (o \in steady' => o \in steady)
      BY <1>7, <2>3 DEF UpdateObject
    <3>. QED  BY <1>1, <1>7, <2>1, <2>2, <2>3, <3>1 DEF TimerTold, Unset
  <2>4. CASE o = r
    <3>1. \/ since'[o] = 0
          \/ since'[o] = since[o] /\ o \notin steady'
      BY <1>7, <2>4 DEF UpdateObject
    <3>2. timer'[o] = 0
      BY <2>2, <2>4
    <3>. QED  BY <1>1, <2>1, <3>1, <3>2 DEF TimerTold, Unset
  <2>. QED  BY <2>3, <2>4
<1>8. CASE UpdateSimulated
  BY <1>7, <1>8 DEF UpdateSimulated
<1>9. CASE UpdateEmulated
  BY <1>7, <1>9 DEF UpdateEmulated
<1>10. CASE EndSimulated \/ Collide
  <2>1. /\ UNCHANGED <<timer, since, vsync, steady>>
        /\ at \in {"simulated", "emulated"} /\ at' \in {"emulated", "time"}
    BY <1>10 DEF EndSimulated, Collide, past
  <2>. QED  BY <1>2, <2>1 DEF Ended, Missing
<1>11. CASE TimeManager
  <2>1. UNCHANGED <<timer, vsync, steady>> /\ at = "time" /\ at' = "top"
    BY <1>11 DEF TimeManager
  <2>2. PICK d \in Deltas : /\ deltaTime' = d
                            /\ since'[o] = IF since[o] = Never THEN Never ELSE since[o] + d
    BY <1>11 DEF TimeManager
  <2>3. Missing = 0 /\ Missing' = d /\ at \notin Ended /\ since[o] # Never /\ d \in Nat
    BY <1>0, <2>1, <2>2 DEF Missing, Ended
  <2>4. timer'[o] = timer[o] /\ since'[o] = since[o] + d
    BY <2>1, <2>2, <2>3
  <2>5. /\ timer[o] \in Nat /\ since[o] \in Nat /\ timer[o] + 0 <= since[o]
        /\ vsync /\ o \in steady => timer[o] + 0 = since[o]
    BY <1>1, <2>3
  <2>6. timer'[o] + d <= since'[o] /\ (vsync /\ o \in steady => timer'[o] + d = since'[o])
    BY <2>3, <2>4, <2>5
  <2>. QED  BY <2>1, <2>3, <2>4, <2>5, <2>6 DEF TimerTold, Unset
<1>12. CASE UNCHANGED vars
  BY <1>2, <1>12 DEF vars, past, timers, Missing
<1>. QED
  BY <1>3, <1>4, <1>5, <1>6, <1>8, <1>9, <1>10, <1>11, <1>12 DEF Next

\* The state of Application, whatever else is beside it
AppInv == TypeOK /\ FlagsInv /\ TimersTold /\ InnerIdle

\* AppInv holds at first.
LEMMA AppInit == Init => AppInv
<1>. SUFFICES ASSUME Init PROVE AppInv
  OBVIOUS
<1>1. FlagsInv /\ TimersTold
  BY DEF Init, FlagsInv, FlagTellsList, RootsFlagged, TimersTold, ToSet
<1>2. InnerIdle
  BY DEF Init, InnerIdle, Objects
<1>. QED  BY <1>1, <1>2, TypeInit DEF AppInv

\* Each step of the loop keeps AppInv.
LEMMA AppNext == AppInv /\ [Next]_vars => AppInv'
  BY TypeNext, FlagsNext, ToldNext, IdleNext DEF AppInv

\* In the turns, nothing is missing any more.
LEMMA AppDelta == AppInv => DeltaIsElapsed
<1>. SUFFICES ASSUME AppInv, at \in {"simulated", "emulated"} PROVE DeltaIsElapsed
  BY DEF DeltaIsElapsed
<1>1. Missing = 0 /\ at \notin Ended
  BY DEF Missing, Ended
<1>2. ASSUME NEW o \in Roots, since[o] # Never
      PROVE  timer[o] <= since[o] /\ (vsync /\ o \in steady => timer[o] = since[o])
  <2>1. timer[o] \in Nat \cup {Unset} /\ TimerTold(o)
    BY <1>1, <1>2 DEF AppInv, TypeOK, TimersTold, Objects
  <2>2. timer[o] \in Nat /\ timer[o] + 0 <= since[o] /\ (vsync /\ o \in steady => timer[o] + 0 = since[o])
    BY <1>1, <2>1 DEF TimerTold
  <2>. QED  BY <2>2
<1>. QED  BY <1>2 DEF DeltaIsElapsed, AppInv, InnerIdle

\* From its second update on, a root is given no more time than has passed since the
\* one before, and just that time with vsync if it was there and enabled all along; and
\* the turns an object below a root has of its own add nothing to the time it is given.
THEOREM DeltaIsElapsedHolds == Spec => []DeltaIsElapsed
  BY AppInit, AppNext, AppDelta, PTL DEF Spec

-----------------------------------------------------------------------------
(* The quadtree and the collisions: refreshTimer and collisionTimer are equal at *)
(* the top of the loop; a frame that refreshes takes an interval off the first,  *)
(* and the second follows at the end of the frame.                               *)

Places == {"top", "refresh", "time", "exited", "null"} \cup InFrame

TimersOK == refreshTimer \in Int /\ collisionTimer \in Int /\ at \in Places

\* Where the loop is tells how far the two timers are apart.
TimersTogether ==
    /\ at \in {"top", "refresh", "time"} => refreshTimer = collisionTimer
    /\ at = "refresh" => refreshed = FALSE
    /\ at \in InFrame =>
          \/ refreshed = TRUE /\ collisionTimer >= Simulated /\ refreshTimer = collisionTimer - Simulated
          \/ refreshed = FALSE /\ collisionTimer < Simulated /\ refreshTimer = collisionTimer

TInv == TimersOK /\ TimersTogether

\* At first the two timers are equal.
LEMMA TimersInit == Init => TInv
<1>. SUFFICES ASSUME Init PROVE TInv
  OBVIOUS
<1>1. refreshTimer = 0 /\ collisionTimer = 0 /\ refreshed = FALSE /\ at = "top"
  BY DEF Init
<1>2. TimersOK
  BY <1>1 DEF TimersOK, Places
<1>3. TimersTogether
  <2>1. at # "refresh" /\ at \notin InFrame
    BY <1>1 DEF InFrame
  <2>. QED  BY <1>1, <2>1 DEF TimersTogether
<1>. QED  BY <1>2, <1>3 DEF TInv

\* Refresh takes an interval off the one timer, Collide off the other, or neither does.
LEMMA TimersNext == TInv /\ [Next]_vars => TInv'
<1>. SUFFICES ASSUME TInv, [Next]_vars PROVE TInv'
  OBVIOUS
<1>. USE TimeAssumption DEF TInv, TimersOK, TimersTogether, Places, InFrame
<1>1. CASE Iterate
  BY <1>1 DEF Iterate
<1>2. CASE Refresh
  <2>1. at = "refresh" /\ at' = "events" /\ UNCHANGED collisionTimer
    BY <1>2 DEF Refresh
  <2>2. \/ refreshTimer >= Simulated /\ refreshTimer' = refreshTimer - Simulated /\ refreshed' = TRUE
        \/ refreshTimer < Simulated /\ UNCHANGED refreshTimer /\ UNCHANGED refreshed
    BY <1>2 DEF Refresh
  <2>3. refreshTimer \in Int /\ collisionTimer \in Int /\ refreshTimer = collisionTimer /\ refreshed = FALSE
    BY <2>1
  <2>4. TimersOK'
    BY <2>1, <2>2, <2>3
  <2>5. TimersTogether'
    BY <2>1, <2>2, <2>3
  <2>. QED  BY <2>4, <2>5
<1>3. CASE Events
  BY <1>3 DEF Events, timers, past
<1>4. CASE Begin
  BY <1>4 DEF Begin, timers
<1>5. CASE UpdateSimulated
  BY <1>5 DEF UpdateSimulated
<1>6. CASE EndSimulated
  BY <1>6 DEF EndSimulated, timers, past
<1>7. CASE UpdateEmulated
  BY <1>7 DEF UpdateEmulated
<1>8. CASE Collide
  BY <1>8 DEF Collide, past
<1>9. CASE TimeManager
  BY <1>9 DEF TimeManager
<1>10. CASE UNCHANGED vars
  BY <1>10 DEF vars, timers, past
<1>. QED
  BY <1>1, <1>2, <1>3, <1>4, <1>5, <1>6, <1>7, <1>8, <1>9, <1>10 DEF Next

\* Collisions are looked for in just the frames that have refreshed the quadtree.
THEOREM TreeIsFresh == Spec => []CollisionsOnFreshTree
<1>1. TInv => CollisionsOnFreshTree
  BY TimeAssumption DEF TInv, TimersOK, TimersTogether, InFrame, CollisionsOnFreshTree
<1>. QED  BY TimersInit, TimersNext, <1>1, PTL DEF Spec

-----------------------------------------------------------------------------
(* What Input's operations do to the fields *)

Pressing == {"KeyPressed", "MouseButtonPressed"}

\* _update() clears what was pressed and released, and makes all the entries.
LEMMA ClearedFields ==
  ASSUME NEW in \in I!Inputs
  PROVE  /\ I!Cleared(in) \in I!Inputs
         /\ I!Cleared(in).entries = Buttons
         /\ I!Cleared(in).keysPressed = {} /\ I!Cleared(in).keysReleased = {}
         /\ I!Cleared(in).buttonsPressed = {} /\ I!Cleared(in).buttonsReleased = {}
<1>. DEFINE out == I!Cleared(in)
<1>0. /\ in.keys \subseteq Keys /\ in.keysPressed \subseteq Keys /\ in.keysReleased \subseteq Keys
      /\ in.buttons \subseteq Buttons /\ in.buttonsPressed \subseteq Buttons
      /\ in.buttonsReleased \subseteq Buttons /\ in.entries \subseteq Buttons
      /\ DOMAIN in = {"keys", "keysPressed", "keysReleased", "buttons", "buttonsPressed", "buttonsReleased", "entries"}
  BY DEF I!Inputs
<1>1. out.keys = in.keys /\ out.buttons = in.buttons
  BY <1>0 DEF I!Cleared
<1>2. out.keysPressed = {} /\ out.keysReleased = {}
  BY <1>0 DEF I!Cleared
<1>3. out.buttonsPressed = {} /\ out.buttonsReleased = {} /\ out.entries = Buttons
  BY <1>0 DEF I!Cleared
<1>4. out = [x \in DOMAIN in |-> out[x]]
  BY <1>0 DEF I!Cleared
<1>5. out = [keys |-> out.keys, keysPressed |-> out.keysPressed, keysReleased |-> out.keysReleased,
            buttons |-> out.buttons, buttonsPressed |-> out.buttonsPressed,
             buttonsReleased |-> out.buttonsReleased, entries |-> out.entries]
  <2>. HIDE DEF out
  <2>. QED BY <1>0, <1>4
<1>. HIDE DEF out
<1>6. out \in I!Inputs
   BY <1>0, <1>1, <1>2, <1>3, <1>5 DEF I!Inputs
<1>. QED  BY <1>1, <1>2, <1>3, <1>6 DEF out

\* GetButtonUp() makes an entry, and nothing else.
LEMMA AskedFields ==
  ASSUME NEW in \in I!Inputs, NEW b \in Buttons
  PROVE  /\ I!Asked(in, b) \in I!Inputs
         /\ I!Asked(in, b).entries = in.entries \cup {b}
         /\ I!Asked(in, b).keys = in.keys /\ I!Asked(in, b).buttons = in.buttons
         /\ I!Asked(in, b).keysPressed = in.keysPressed
         /\ I!Asked(in, b).keysReleased = in.keysReleased
         /\ I!Asked(in, b).buttonsPressed = in.buttonsPressed
         /\ I!Asked(in, b).buttonsReleased = in.buttonsReleased
<1>1. I!Asked(in, b) = [keys |-> in.keys, keysPressed |-> in.keysPressed,
                        keysReleased |-> in.keysReleased, buttons |-> in.buttons,
                        buttonsPressed |-> in.buttonsPressed,
                        buttonsReleased |-> in.buttonsReleased, entries |-> in.entries \cup {b}]
  BY DEF I!Asked, I!Inputs
<1>. QED  BY <1>1 DEF I!Inputs

InputOf(k, kp, kr, b, bp, br, en) ==
    [keys |-> k, keysPressed |-> kp, keysReleased |-> kr,
     buttons |-> b, buttonsPressed |-> bp, buttonsReleased |-> br, entries |-> en]

\* Input is a record of its fields.
LEMMA InputIs ==
  ASSUME NEW in \in I!Inputs
  PROVE  /\ in.keys \subseteq Keys /\ in.keysPressed \subseteq Keys /\ in.keysReleased \subseteq Keys
         /\ in.buttons \subseteq Buttons /\ in.buttonsPressed \subseteq Buttons
         /\ in.buttonsReleased \subseteq Buttons /\ in.entries \subseteq Buttons
         /\ in = InputOf(in.keys, in.keysPressed, in.keysReleased, in.buttons, in.buttonsPressed,
                         in.buttonsReleased, in.entries)
  BY DEF I!Inputs, InputOf

\* The code of an event is a key, unless it is a button's.
LEMMA EventIs ==
  ASSUME NEW e \in I!Events
  PROVE  \/ e.type \in {"KeyPressed", "KeyReleased"} /\ e.code \in Keys \cup {Unknown}
         \/ e.type \in {"MouseButtonPressed", "MouseButtonReleased"} /\ e.code \in Buttons
                                                                    /\ e.code # Unknown
  BY FrameAssumption DEF I!Events

\* _poll() writes the flags of one key or one button.
LEMMA PolledIs ==
  ASSUME NEW in \in I!Inputs, NEW e \in I!Events
  PROVE  /\ e.code = Unknown => I!Polled(in, e) = in
         /\ e.type = "KeyPressed" /\ e.code # Unknown =>
               I!Polled(in, e) = InputOf(in.keys \cup {e.code}, in.keysPressed \cup {e.code},
                                         in.keysReleased, in.buttons, in.buttonsPressed,
                                         in.buttonsReleased, in.entries)
         /\ e.type = "KeyReleased" /\ e.code # Unknown =>
               I!Polled(in, e) = InputOf(in.keys \ {e.code}, in.keysPressed,
                                         in.keysReleased \cup {e.code}, in.buttons,
                                         in.buttonsPressed, in.buttonsReleased, in.entries)
         /\ e.type = "MouseButtonPressed" /\ e.code # Unknown =>
               I!Polled(in, e) = InputOf(in.keys, in.keysPressed, in.keysReleased,
                                         in.buttons \cup {e.code}, in.buttonsPressed \cup {e.code},
                                         in.buttonsReleased, in.entries)
         /\ e.type = "MouseButtonReleased" /\ e.code # Unknown =>
               I!Polled(in, e) = InputOf(in.keys, in.keysPressed, in.keysReleased,
                                         in.buttons \ {e.code}, in.buttonsPressed,
                                         in.buttonsReleased \cup ({e.code} \cap in.entries), in.entries)
<1>1. in = InputOf(in.keys, in.keysPressed, in.keysReleased, in.buttons, in.buttonsPressed,
                   in.buttonsReleased, in.entries)
  BY InputIs
<1>2. e.code = Unknown => I!Polled(in, e) = in
  BY DEF I!Polled
<1>3. ASSUME e.type = "KeyPressed", e.code # Unknown
      PROVE  I!Polled(in, e) = InputOf(in.keys \cup {e.code}, in.keysPressed \cup {e.code},
                                       in.keysReleased, in.buttons, in.buttonsPressed,
                                       in.buttonsReleased, in.entries)
  <2>1. I!Polled(in, e) = [in EXCEPT !.keys = @ \cup {e.code}, !.keysPressed = @ \cup {e.code}]
    BY <1>3 DEF I!Polled
  <2>. QED  BY <1>1, <2>1 DEF InputOf
<1>4. ASSUME e.type = "KeyReleased", e.code # Unknown
      PROVE  I!Polled(in, e) = InputOf(in.keys \ {e.code}, in.keysPressed,
                                       in.keysReleased \cup {e.code}, in.buttons,
                                       in.buttonsPressed, in.buttonsReleased, in.entries)
  <2>1. I!Polled(in, e) = [in EXCEPT !.keys = @ \ {e.code}, !.keysReleased = @ \cup {e.code}]
    BY <1>4 DEF I!Polled
  <2>. QED  BY <1>1, <2>1 DEF InputOf
<1>5. ASSUME e.type = "MouseButtonPressed", e.code # Unknown
      PROVE  I!Polled(in, e) = InputOf(in.keys, in.keysPressed, in.keysReleased,
                                       in.buttons \cup {e.code}, in.buttonsPressed \cup {e.code},
                                       in.buttonsReleased, in.entries)
  <2>1. I!Polled(in, e) = [in EXCEPT !.buttons = @ \cup {e.code}, !.buttonsPressed = @ \cup {e.code}]
    BY <1>5 DEF I!Polled
  <2>. QED  BY <1>1, <2>1 DEF InputOf
<1>6. ASSUME e.type = "MouseButtonReleased", e.code # Unknown
      PROVE  I!Polled(in, e) = InputOf(in.keys, in.keysPressed, in.keysReleased,
                                       in.buttons \ {e.code}, in.buttonsPressed,
                                       in.buttonsReleased \cup ({e.code} \cap in.entries), in.entries)
  <2>1. I!Polled(in, e) = [in EXCEPT !.buttons = @ \ {e.code},
                                     !.buttonsReleased = @ \cup ({e.code} \cap in.entries)]
    BY <1>6 DEF I!Polled
  <2>. QED  BY <1>1, <2>1 DEF InputOf
<1>. QED  BY <1>2, <1>3, <1>4, <1>5, <1>6

\* _poll() makes no entries, and adds to what is pressed the code of the event.
LEMMA PolledFields ==
  ASSUME NEW in \in I!Inputs, NEW e \in I!Events
  PROVE  /\ I!Polled(in, e) \in I!Inputs
         /\ I!Polled(in, e).entries = in.entries
         /\ I!Polled(in, e).keysPressed =
               in.keysPressed \cup (IF e.type = "KeyPressed" /\ e.code # Unknown THEN {e.code} ELSE {})
         /\ I!Polled(in, e).buttonsPressed =
               in.buttonsPressed \cup (IF e.type = "MouseButtonPressed" THEN {e.code} ELSE {})
<1>1. CASE e.code = Unknown
  <2>1. e.type # "MouseButtonPressed" /\ I!Polled(in, e) = in
    BY <1>1, EventIs, PolledIs
  <2>. QED  BY <1>1, <2>1
<1>2. CASE e.type = "KeyPressed" /\ e.code # Unknown
  <2>1. /\ e.code \in Keys
        /\ I!Polled(in, e) = InputOf(in.keys \cup {e.code}, in.keysPressed \cup {e.code},
                                     in.keysReleased, in.buttons, in.buttonsPressed,
                                     in.buttonsReleased, in.entries)
    BY <1>2, EventIs, PolledIs
  <2>. QED  BY <1>2, <2>1, InputIs DEF InputOf, I!Inputs
<1>3. CASE e.type = "KeyReleased" /\ e.code # Unknown
  <2>1. /\ e.code \in Keys
        /\ I!Polled(in, e) = InputOf(in.keys \ {e.code}, in.keysPressed,
                                     in.keysReleased \cup {e.code}, in.buttons,
                                     in.buttonsPressed, in.buttonsReleased, in.entries)
    BY <1>3, EventIs, PolledIs
  <2>. QED  BY <1>3, <2>1, InputIs DEF InputOf, I!Inputs
<1>4. CASE e.type = "MouseButtonPressed" /\ e.code # Unknown
  <2>1. /\ e.code \in Buttons
        /\ I!Polled(in, e) = InputOf(in.keys, in.keysPressed, in.keysReleased,
                                     in.buttons \cup {e.code}, in.buttonsPressed \cup {e.code},
                                     in.buttonsReleased, in.entries)
    BY <1>4, EventIs, PolledIs
  <2>. QED  BY <1>4, <2>1, InputIs DEF InputOf, I!Inputs
<1>5. CASE e.type = "MouseButtonReleased" /\ e.code # Unknown
  <2>1. /\ e.code \in Buttons
        /\ I!Polled(in, e) = InputOf(in.keys, in.keysPressed, in.keysReleased,
                                     in.buttons \ {e.code}, in.buttonsPressed,
                                     in.buttonsReleased \cup ({e.code} \cap in.entries), in.entries)
    BY <1>5, EventIs, PolledIs
  <2>. QED  BY <1>5, <2>1, InputIs DEF InputOf, I!Inputs
<1>. QED  BY <1>1, <1>2, <1>3, <1>4, <1>5, EventIs

-----------------------------------------------------------------------------
(* Application and Input together *)

\* A step of the whole is a step of Application, or leaves it alone.
LEMMA StepOfApplication == [FrameNext]_frameVars => [Next]_vars
  BY DEF FrameNext, frameVars, Next, FIterate, FRefresh, Poll, FEvents, FBegin,
         FUpdateSimulated, FUpdateEmulated, FRest

\* With Input and a Toggle the loop is still Application's, so that what is proved of
\* the one holds of the other.
THEOREM ImplementsApplication == FrameSpec => Spec
<1>1. FrameInit => Init
  BY DEF FrameInit
<1>. QED  BY <1>1, StepOfApplication, PTL DEF FrameSpec, Spec

\* What each step does to Input, and what is remembered of the frame for the properties
LEMMA InputSteps ==
  ASSUME FrameNext, input \in I!Inputs
  PROVE  \/ /\ UNCHANGED <<input, thrown>>
            /\ FIterate \/ (FRefresh /\ ~ClearDue) \/ FEvents \/ FBegin \/ FUpdateSimulated
               \/ FUpdateEmulated \/ FRest
         \/ FRefresh /\ ClearDue /\ input' = I!Cleared(input) /\ UNCHANGED thrown
         \/ FBegin /\ UNCHANGED thrown /\ \E b \in Buttons : input' = I!Asked(input, b)
         \/ \E e \in I!Events : Poll(e) /\ input' = I!Polled(input, e) /\ thrown' = I!Throws(input, e)
  BY DEF FrameNext, FIterate, FRefresh, Poll, FEvents, FBegin, FUpdateSimulated, FUpdateEmulated,
         FRest, I!Update, I!GetButtonUp, I!Poll

\* The types of the whole hold at first.
LEMMA FrameTypeInit == FrameInit => FrameTypeOK
<1>. SUFFICES ASSUME FrameInit PROVE FrameTypeOK
  OBVIOUS
<1>1. I!TypeOK
  BY DEF FrameInit, I!Init, I!TypeOK, I!Setup, I!Inputs
<1>2. TypeOK
  BY TypeInit DEF FrameInit
<1>3. polls \in 0 .. MaxPolls
  BY FrameAssumption DEF FrameInit
<1>. QED  BY <1>1, <1>2, <1>3 DEF FrameInit, FrameTypeOK

\* Each step of the whole keeps the types.
LEMMA FrameTypeNext == FrameTypeOK /\ [FrameNext]_frameVars => FrameTypeOK'
<1>. SUFFICES ASSUME FrameTypeOK, [FrameNext]_frameVars PROVE FrameTypeOK'
  OBVIOUS
<1>1. TypeOK'
  BY StepOfApplication, TypeNext DEF FrameTypeOK
<1>2. I!TypeOK'
  <2>1. CASE FrameNext
    <3>1. input \in I!Inputs /\ thrown \in BOOLEAN
      BY DEF FrameTypeOK, I!TypeOK
    <3>2. I!Cleared(input) \in I!Inputs
      BY <3>1, ClearedFields
    <3>3. \A b \in Buttons : I!Asked(input, b) \in I!Inputs
      BY <3>1, AskedFields
    <3>4. \A e \in I!Events : I!Polled(input, e) \in I!Inputs
      BY <3>1, PolledFields
    <3>5. \A e \in I!Events : I!Throws(input, e) \in BOOLEAN
      BY DEF I!Throws
    <3>6. input' \in I!Inputs
      BY <2>1, <3>1, <3>2, <3>3, <3>4, InputSteps
    <3>7. thrown' \in BOOLEAN
      BY <2>1, <3>1, <3>5, InputSteps
    <3>. QED  BY <3>6, <3>7 DEF I!TypeOK
  <2>2. CASE UNCHANGED frameVars
    BY <2>2 DEF frameVars, FrameTypeOK, I!TypeOK
  <2>. QED  BY <2>1, <2>2
<1>. DEFINE Rest == /\ value \in BOOLEAN /\ before \in BOOLEAN
                    /\ pressed \subseteq I!Events
                    /\ cleared \in BOOLEAN /\ aRound \in BOOLEAN
                    /\ served \subseteq Objects /\ rested \subseteq Objects
                    /\ polls \in 0 .. MaxPolls
<1>3. Rest
  BY DEF FrameTypeOK
<1>5. /\ Rests => rested' \subseteq Objects
      /\ FIterate => rested' \subseteq Objects
      /\ \A o : ToggleUpdate(o) => value' \in BOOLEAN
  BY <1>1, <1>3 DEF Rests, FIterate, ToggleUpdate, TypeOK
<1>4. Rest'
  <2>1. CASE FIterate
    BY <1>3, <1>5, <2>1 DEF FIterate
  <2>2. CASE FRefresh
    BY <1>3, <2>2 DEF FRefresh, ClearDue
  <2>3. ASSUME NEW e \in I!Events, Poll(e) PROVE Rest'
    <3>2. pressed' \subseteq pressed \cup {e}
      BY <2>3 DEF Poll
    <3>3. polls' \in 0 .. MaxPolls
      BY <1>3, <2>3, FrameAssumption DEF Poll
    <3>4. UNCHANGED <<value, before, cleared, served, aRound, rested>>
      BY <2>3 DEF Poll
    <3>. QED  BY <1>3, <3>2, <3>3, <3>4
  <2>4. CASE FEvents \/ FRest
    BY <1>3, <2>4 DEF FEvents, FRest, memory
  <2>5. CASE FBegin
    <3>1. rested' \subseteq Objects
      BY <1>5, <2>5 DEF FBegin
    <3>. QED  BY <1>3, <2>5, <3>1 DEF FBegin
  <2>6. CASE FUpdateSimulated
    <3>. DEFINE o == gameObjectsSimulated[Wrapped(simulatedIT, gameObjectsSimulated) + 1]
    <3>1. o \in Objects
      BY <2>6, PlaceInList DEF FUpdateSimulated, UpdateSimulated, SimulatedDue, FrameTypeOK, TypeOK
    <3>2. ToggleUpdate(o) /\ served' = served \cup {o} /\ Rests
          /\ UNCHANGED <<before, pressed, cleared, aRound, polls>>
      BY <2>6 DEF FUpdateSimulated
    <3>. HIDE DEF o
    <3>. QED  BY <1>3, <1>5, <3>1, <3>2
  <2>7. CASE FUpdateEmulated
    <3>1. value' \in BOOLEAN /\ rested' \subseteq Objects
      BY <1>5, <2>7 DEF FUpdateEmulated
    <3>. QED  BY <1>3, <2>7, <3>1 DEF FUpdateEmulated
  <2>8. CASE UNCHANGED frameVars
    BY <1>3, <2>8 DEF frameVars, memory
  <2>. QED
    <3>. HIDE DEF Rest
    <3>. QED  BY <2>1, <2>2, <2>3, <2>4, <2>5, <2>6, <2>7, <2>8 DEF FrameNext
<1>. QED  BY <1>1, <1>2, <1>4 DEF FrameTypeOK

\* Whatever is pressed, the scripts of a root learn from simulated which list it is in,
\* and those of an object in range below a root in range that they are.
THEOREM ListsAndFlagsHold == FrameSpec => []ListsAndFlags
<1>. DEFINE Inv == FrameTypeOK /\ FlagsInv
<1>1. FrameInit => Inv
  BY FrameTypeInit, AppInit DEF FrameInit, AppInv
<1>2. Inv /\ [FrameNext]_frameVars => Inv'
  BY FrameTypeNext, FlagsNext, StepOfApplication DEF FrameTypeOK
<1>3. Inv => ListsAndFlags
  BY DEF ListsAndFlags, FlagsInv
<1>. QED  BY <1>1, <1>2, <1>3, PTL DEF FrameSpec

-----------------------------------------------------------------------------
(* The entries of buttonsReleased *)

\* Until buttonsReleased has its entries, no object has been in a list, and the timer
\* of the first input._update() is that of the first refresh.
NothingYet ==
    /\ gameObjectsSimulated = << >> /\ gameObjectsEmulated = << >>
    /\ simulatedTimer = refreshTimer
    /\ \A o \in Roots : since[o] = Never

EntriesFirst == input.entries # Buttons => NothingYet

\* The refresh that fills the lists for the first time comes with the first _update().
LEMMA EntriesNext ==
  FrameTypeOK /\ EntriesFirst /\ [FrameNext]_frameVars => EntriesFirst'
<1>. SUFFICES ASSUME FrameTypeOK, EntriesFirst, [FrameNext]_frameVars, input'.entries # Buttons
              PROVE  NothingYet'
  BY DEF EntriesFirst
<1>1. input.entries # Buttons
  <2>1. CASE FrameNext
    <3>1. input \in I!Inputs
      BY DEF FrameTypeOK, I!TypeOK
    <3>2. input.entries \subseteq Buttons
      BY <3>1 DEF I!Inputs
    <3>3. CASE UNCHANGED input
      BY <3>3
    <3>4. input' # I!Cleared(input)
      BY <3>1, ClearedFields
    <3>5. ASSUME NEW b \in Buttons, input' = I!Asked(input, b) PROVE input.entries # Buttons
      <4>1. input'.entries = input.entries \cup {b}
        BY <3>1, <3>5, AskedFields
      <4>2. input.entries \cup {b} # Buttons
        BY <4>1
      <4>. QED  BY <4>2
    <3>6. ASSUME NEW e \in I!Events, input' = I!Polled(input, e) PROVE input.entries # Buttons
      BY <3>1, <3>6, PolledFields
    <3>. QED  BY <2>1, <3>1, <3>3, <3>4, <3>5, <3>6, InputSteps
  <2>2. CASE UNCHANGED frameVars
    BY <2>2 DEF frameVars
  <2>. QED  BY <2>1, <2>2
<1>2. NothingYet
  BY <1>1 DEF EntriesFirst
<1>3. Simulated \in Nat /\ simulatedTimer \in Nat /\ refreshTimer \in Nat
      /\ since \in [Roots -> Nat \cup {Never}]
  BY TimeAssumption DEF FrameTypeOK, TypeOK
<1>4. ASSUME UNCHANGED <<gameObjectsSimulated, gameObjectsEmulated, simulatedTimer, refreshTimer, since>>
      PROVE  NothingYet'
  BY <1>2, <1>4 DEF NothingYet
<1>5. CASE FIterate
  BY <1>4, <1>5 DEF FIterate, Iterate, lists
<1>6. CASE FRefresh
  <2>1. ~ClearDue
    <3>1. CASE ClearDue
      <4>1. input' = I!Cleared(input) /\ input \in I!Inputs
        BY <1>6, <3>1 DEF FRefresh, I!Update, FrameTypeOK, I!TypeOK
      <4>. QED  BY <4>1, ClearedFields
    <3>. QED  BY <3>1
  <2>2. ~(refreshTimer >= Simulated)
    BY <1>2, <2>1 DEF ClearDue, NothingYet
  <2>3. UNCHANGED <<gameObjectsSimulated, gameObjectsEmulated, simulatedTimer, refreshTimer, since>>
    BY <1>6, <2>2 DEF FRefresh, Refresh, lists
  <2>. QED  BY <1>4, <2>3
<1>7. ASSUME NEW e \in I!Events, Poll(e) PROVE NothingYet'
  BY <1>4, <1>7 DEF Poll, vars, lists, timers, past
<1>8. CASE FEvents
  BY <1>4, <1>8 DEF FEvents, Events, lists, timers, past
<1>9. CASE FBegin
  BY <1>4, <1>9 DEF FBegin, Begin, lists, timers
<1>10. ~FUpdateSimulated /\ ~FUpdateEmulated
  BY <1>2 DEF NothingYet, FUpdateSimulated, UpdateSimulated, SimulatedDue,
              FUpdateEmulated, UpdateEmulated, EmulatedDue
<1>11. CASE FRest
  <2>1. CASE EndSimulated
    BY <1>4, <2>1 DEF EndSimulated, lists, timers, past
  <2>2. CASE Collide
    BY <1>4, <2>2 DEF Collide, lists, past
  <2>3. CASE TimeManager
    <3>1. PICK d \in Deltas : /\ refreshTimer' = refreshTimer + d
                              /\ simulatedTimer' = simulatedTimer + d
                              /\ since' = [o \in Roots |-> IF since[o] = Never THEN Never ELSE since[o] + d]
      BY <2>3 DEF TimeManager
    <3>2. UNCHANGED lists
      BY <2>3 DEF TimeManager
    <3>. QED  BY <1>2, <3>1, <3>2 DEF NothingYet, lists
  <2>. QED  BY <1>11, <2>1, <2>2, <2>3 DEF FRest
<1>12. CASE UNCHANGED frameVars
  BY <1>4, <1>12 DEF frameVars, vars, lists, timers, past
<1>. QED
  BY <1>5, <1>6, <1>7, <1>8, <1>9, <1>10, <1>11, <1>12 DEF FrameNext

\* buttonsReleased has an entry for every button before any object is updated.
THEOREM ReleaseSafeHolds == FrameSpec => []ReleaseSafe
<1>. DEFINE Inv == FrameTypeOK /\ EntriesFirst
<1>1. FrameInit => EntriesFirst
  BY DEF FrameInit, Init, EntriesFirst, NothingYet
<1>2. FrameInit => Inv
  BY <1>1, FrameTypeInit
<1>3. Inv /\ [FrameNext]_frameVars => Inv'
  BY FrameTypeNext, EntriesNext
<1>4. Inv => ReleaseSafe
  BY DEF EntriesFirst, NothingYet, ReleaseSafe
<1>. QED  BY <1>2, <1>3, <1>4, PTL DEF FrameSpec

-----------------------------------------------------------------------------
(* What is pressed just now *)

Presses == <<input.keysPressed, input.buttonsPressed>>

NoPresses == input.keysPressed = {} /\ input.buttonsPressed = {}

Fresh == /\ input.keysPressed \subseteq PressedBy("KeyPressed")
         /\ input.buttonsPressed \subseteq PressedBy("MouseButtonPressed")

\* At the top of the loop either input._update() is due when deltaTime is that long,
\* or there is nothing to clear.
PressesKnown ==
    /\ at \in {"top", "refresh"} => deltaTime <= simulatedTimer \/ NoPresses
    /\ at = "refresh" => pressed = {}
    /\ at \in InFrame /\ deltaTime >= Simulated => Fresh

\* Each step keeps PressesKnown: FRefresh clears what is older than the frame, when
\* the frame was that long.
LEMMA PressesNext ==
  FrameTypeOK /\ PressesKnown /\ [FrameNext]_frameVars => PressesKnown'
<1>. SUFFICES ASSUME FrameTypeOK, PressesKnown, [FrameNext]_frameVars
              PROVE  PressesKnown'
  OBVIOUS
<1>1. /\ Simulated \in Nat /\ simulatedTimer \in Nat /\ deltaTime \in Nat /\ Deltas \subseteq Nat
      /\ input \in I!Inputs
  BY TimeAssumption DEF FrameTypeOK, TypeOK, I!TypeOK
<1>a. ASSUME Presses' = Presses PROVE NoPresses' <=> NoPresses
  BY <1>a DEF Presses, NoPresses
<1>b. ASSUME Presses' = Presses, UNCHANGED pressed PROVE Fresh' <=> Fresh
  BY <1>b DEF Presses, Fresh, PressedBy
<1>2. CASE FIterate
  <2>1. /\ UNCHANGED <<simulatedTimer, deltaTime, input>> /\ pressed' = {}
        /\ at = "top" /\ at' \in {"refresh", "time"}
    BY <1>2 DEF FIterate, Iterate
  <2>2. Presses' = Presses
    BY <2>1 DEF Presses
  <2>. QED  BY <1>a, <2>1, <2>2 DEF PressesKnown, InFrame
<1>3. CASE FRefresh
  <2>1. UNCHANGED <<simulatedTimer, deltaTime, pressed>> /\ at = "refresh" /\ at' = "events"
    BY <1>3 DEF FRefresh, Refresh
  <2>2. CASE ClearDue
    <3>1. input' = I!Cleared(input)
      BY <1>3, <2>2 DEF FRefresh, I!Update
    <3>2. Fresh'
      BY <1>1, <3>1, ClearedFields DEF Fresh
    <3>. QED  BY <2>1, <3>2 DEF PressesKnown
  <2>3. CASE ~ClearDue
    <3>2. deltaTime >= Simulated => NoPresses
      BY <1>1, <2>1, <2>3 DEF PressesKnown, ClearDue
    <3>3. NoPresses => Fresh'
      BY <1>3, <2>3 DEF FRefresh, NoPresses, Fresh
    <3>. QED  BY <2>1, <3>2, <3>3 DEF PressesKnown
  <2>. QED  BY <2>2, <2>3
<1>4. ASSUME NEW e \in I!Events, Poll(e) PROVE PressesKnown'
  <2>1. UNCHANGED <<simulatedTimer, deltaTime, at>> /\ at = "events" /\ input' = I!Polled(input, e)
        /\ pressed' = pressed \cup IF e.type \in {"KeyPressed", "MouseButtonPressed"}
                                   THEN {e} ELSE {}
    BY <1>4 DEF Poll, I!Poll, vars, timers
  <2>2. Fresh => Fresh'
    <3>1. PressedBy("KeyPressed") \subseteq PressedBy("KeyPressed")'
      BY <2>1 DEF PressedBy
    <3>2. PressedBy("MouseButtonPressed") \subseteq PressedBy("MouseButtonPressed")'
      BY <2>1 DEF PressedBy
    <3>3. e.type = "KeyPressed" => e.code \in PressedBy("KeyPressed")'
      BY <2>1 DEF PressedBy
    <3>4. e.type = "MouseButtonPressed" => e.code \in PressedBy("MouseButtonPressed")'
      BY <2>1 DEF PressedBy
    <3>5. /\ input'.keysPressed \subseteq
                input.keysPressed \cup (IF e.type = "KeyPressed" THEN {e.code} ELSE {})
          /\ input'.buttonsPressed \subseteq
                input.buttonsPressed \cup (IF e.type = "MouseButtonPressed" THEN {e.code} ELSE {})
      BY <1>1, <2>1, PolledFields
    <3>6. Fresh => input'.keysPressed \subseteq PressedBy("KeyPressed")'
      BY <3>1, <3>3, <3>5 DEF Fresh
    <3>7. Fresh => input'.buttonsPressed \subseteq PressedBy("MouseButtonPressed")'
      BY <3>2, <3>4, <3>5 DEF Fresh
    <3>. QED  BY <3>6, <3>7 DEF Fresh
  <2>. QED  BY <2>1, <2>2 DEF PressesKnown, InFrame
<1>5. ASSUME UNCHANGED <<simulatedTimer, deltaTime, pressed, at>>, Presses' = Presses
      PROVE  PressesKnown'
  BY <1>a, <1>b, <1>5 DEF PressesKnown
<1>6. CASE FEvents
  <2>1. UNCHANGED <<simulatedTimer, deltaTime, pressed, input>> /\ at = "events"
        /\ at' \in {"update", "exited", "null"}
    BY <1>6 DEF FEvents, Events, timers, memory
  <2>2. Presses' = Presses
    BY <2>1 DEF Presses
  <2>. QED  BY <1>a, <1>b, <2>1, <2>2 DEF PressesKnown, InFrame
<1>7. CASE FBegin
  <2>1. UNCHANGED <<simulatedTimer, deltaTime, pressed>> /\ at = "update" /\ at' = "simulated"
    BY <1>7 DEF FBegin, Begin, timers
  <2>2. UNCHANGED input \/ \E b \in Buttons : input' = I!Asked(input, b)
    BY <1>7 DEF FBegin, I!GetButtonUp
  <2>3. Presses' = Presses
    BY <1>1, <2>2, AskedFields DEF Presses
  <2>. QED  BY <1>a, <1>b, <2>1, <2>3 DEF PressesKnown, InFrame
<1>8. CASE FUpdateSimulated
  <2>1. UNCHANGED <<deltaTime, pressed, input>> /\ at = "simulated" /\ at' = "simulated"
    BY <1>8 DEF FUpdateSimulated, UpdateSimulated
  <2>2. Presses' = Presses
    BY <2>1 DEF Presses
  <2>. QED  BY <1>a, <1>b, <2>1, <2>2 DEF PressesKnown
<1>9. CASE FUpdateEmulated
  <2>1. UNCHANGED <<deltaTime, pressed, input>> /\ at = "emulated" /\ at' = "emulated"
    BY <1>9 DEF FUpdateEmulated, UpdateEmulated, memory
  <2>2. Presses' = Presses
    BY <2>1 DEF Presses
  <2>. QED  BY <1>a, <1>b, <2>1, <2>2 DEF PressesKnown
<1>10. CASE FRest
  <2>1. UNCHANGED <<input, pressed>>
    BY <1>10 DEF FRest, memory
  <2>2. Presses' = Presses
    BY <2>1 DEF Presses
  <2>3. CASE EndSimulated
    <3>1. UNCHANGED deltaTime /\ at = "simulated" /\ at' = "emulated"
      BY <2>3 DEF EndSimulated, timers
    <3>. QED  BY <1>a, <1>b, <2>1, <2>2, <3>1 DEF PressesKnown, InFrame
  <2>4. CASE Collide
    <3>1. at' = "time"
      BY <2>4 DEF Collide
    <3>. QED  BY <3>1 DEF PressesKnown, InFrame
  <2>5. CASE TimeManager
    <3>1. PICK d \in Deltas : deltaTime' = d /\ simulatedTimer' = simulatedTimer + d /\ at' = "top"
      BY <2>5 DEF TimeManager
    <3>2. deltaTime' <= simulatedTimer'
      BY <1>1, <3>1
    <3>. QED  BY <3>1, <3>2 DEF PressesKnown, InFrame
  <2>. QED  BY <1>10, <2>3, <2>4, <2>5 DEF FRest
<1>11. CASE UNCHANGED frameVars
  BY <1>5, <1>11 DEF frameVars, vars, timers, memory, Presses
<1>. QED
  BY <1>2, <1>3, <1>4, <1>6, <1>7, <1>8, <1>9, <1>10, <1>11 DEF FrameNext

\* After a frame of simulatedTargetDeltaTime or more, what a script sees pressed was
\* pressed in this one.
THEOREM PressIsFreshHolds == FrameSpec => []PressIsFresh
<1>. DEFINE Inv == FrameTypeOK /\ PressesKnown
<1>1. FrameInit => PressesKnown
  BY DEF FrameInit, Init, I!Init, I!Setup, PressesKnown, NoPresses, InFrame
<1>2. FrameInit => Inv
  BY <1>1, FrameTypeInit
<1>3. Inv /\ [FrameNext]_frameVars => Inv'
  BY FrameTypeNext, PressesNext
<1>4. Inv => PressIsFresh
  BY DEF PressesKnown, PressIsFresh, Fresh, InFrame
<1>. QED  BY <1>2, <1>3, <1>4, PTL DEF FrameSpec

-----------------------------------------------------------------------------
(* The turns of a frame *)

\* A round of l turns that divides n gives it back whole.
LEMMA DivExact == ASSUME NEW n \in Nat, NEW l \in Nat \ {0}, n % l = 0 PROVE n = l * (n \div l)
  OBVIOUS

\* The time of a turn more
LEMMA TimesSucc == ASSUME NEW k \in Nat, NEW d \in Nat PROVE (k + 1) * d = k * d + d
  OBVIOUS

\* Less time, fewer turns
LEMMA TimesLess == ASSUME NEW k \in Nat, NEW n \in Nat, NEW d \in Nat, k * d < n * d PROVE k < n
  OBVIOUS

\* After k turns, the last at place it of a list of n: place i has had one.
Covers(i, it, n, k) ==
    \/ i <= it /\ i > it - k
    \/ i > it /\ i > it + n - k

\* Before the first turn no place has had one.
LEMMA CoversNone ==
  ASSUME NEW n \in Nat, NEW it \in Nat, NEW i \in 1 .. n
  PROVE  ~Covers(i, it, n, 0)
  BY DEF Covers

\* After n turns each place has had one, wherever the first was.
LEMMA CoversAll ==
  ASSUME NEW n \in Nat, NEW k \in Nat, k >= n, NEW it \in 1 .. n, NEW i \in 1 .. n
  PROVE  Covers(i, it, n, k)
  BY DEF Covers

\* The next turn is that of a place that had none, and takes none from the others.
LEMMA CoversOneMore ==
  ASSUME NEW n \in Nat \ {0}, NEW k \in Nat, NEW it \in Nat, k >= 1 => it \in 1 .. n,
         NEW w, w = IF it >= n THEN 0 ELSE it, NEW i \in 1 .. n
  PROVE  /\ w + 1 \in 1 .. n
         /\ Covers(i, w + 1, n, k + 1) => i = w + 1 \/ Covers(i, it, n, k)
         /\ k < n => /\ ~Covers(w + 1, it, n, k)
                     /\ Covers(w + 1, w + 1, n, k + 1)
                     /\ Covers(i, it, n, k) => Covers(i, w + 1, n, k + 1)
<1>1. CASE it >= n
  <2>1. w = 0
    BY <1>1
  <2>2. k = 0 \/ it = n
    BY <1>1
  <2>. QED  BY <2>1, <2>2 DEF Covers
<1>2. CASE ~(it >= n)
  <2>1. w = it
    BY <1>2
  <2>. QED  BY <1>2, <2>1 DEF Covers
<1>. QED  BY <1>1, <1>2

\* No object is in gameObjectsSimulated twice, so the interval comes out whole.
ListOnce ==
    /\ Len(gameObjectsSimulated) <= Cardinality(Objects)
    /\ \A i, j \in 1 .. Len(gameObjectsSimulated) :
          gameObjectsSimulated[i] = gameObjectsSimulated[j] => i = j

\* Only a refresh writes the list, and it puts each object there once.
LEMMA ListNext == TypeOK /\ ListOnce /\ [Next]_vars => ListOnce'
<1>. SUFFICES ASSUME TypeOK, ListOnce, [Next]_vars PROVE ListOnce'
  OBVIOUS
<1>1. ASSUME UNCHANGED lists PROVE ListOnce'
  BY <1>1 DEF lists, ListOnce
<1>2. CASE Refresh
  <2>1. CASE refreshTimer >= Simulated
    <3>1. ~(refreshTimer < Simulated)
      BY <2>1, TimeAssumption DEF TypeOK
    <3>2. PICK inRange \in SUBSET Inserted : gameObjectsSimulated' \in SetToSeqs(inRange)
      BY <1>2, <3>1 DEF Refresh
    <3>3. inRange \subseteq Objects
      BY DEF Inserted, Objects
    <3>4. IsFiniteSet(Objects) /\ IsFiniteSet(inRange) /\ Cardinality(inRange) <= Cardinality(Objects)
      BY <3>3, TimeAssumption, FS_Subset
    <3>5. Len(gameObjectsSimulated') = Cardinality(inRange)
      BY <3>2, <3>4, SeqOfSet
    <3>6. \A i, j \in 1 .. Len(gameObjectsSimulated') :
             gameObjectsSimulated'[i] = gameObjectsSimulated'[j] => i = j
      BY <1>2, <2>1, RefreshTyped
    <3>. QED  BY <3>4, <3>5, <3>6 DEF ListOnce
  <2>2. CASE ~(refreshTimer >= Simulated)
    BY <1>1, <1>2, <2>2 DEF Refresh
  <2>. QED  BY <2>1, <2>2
<1>3. CASE UNCHANGED vars
  BY <1>1, <1>3 DEF vars
<1>. QED
  BY <1>1, <1>2, <1>3 DEF Next, Iterate, Events, Begin, UpdateSimulated, EndSimulated,
                          UpdateEmulated, Collide, TimeManager

\* A round of turns is just as long as simulatedTargetDeltaTime.
LEMMA RoundIsWhole ==
  ASSUME TypeOK, ListOnce, gameObjectsSimulated # << >>
  PROVE  /\ Len(gameObjectsSimulated) \in Nat \ {0} /\ SimulatedInterval \in Nat
         /\ Simulated = Len(gameObjectsSimulated) * SimulatedInterval
<1>1. Len(gameObjectsSimulated) \in Nat \ {0}
  BY DEF TypeOK
<1>2. Cardinality(Objects) \in Nat
  BY TimeAssumption, FS_CardinalityType
<1>3. Simulated \in Nat /\ \A n \in 1 .. Cardinality(Objects) : Simulated % n = 0
  BY TimeAssumption
<1>4. Len(gameObjectsSimulated) \in 1 .. Cardinality(Objects)
  BY <1>1, <1>2 DEF ListOnce
<1>5. Simulated % Len(gameObjectsSimulated) = 0
  BY <1>3, <1>4
<1>6. Simulated = Len(gameObjectsSimulated) * (Simulated \div Len(gameObjectsSimulated))
  BY <1>1, <1>3, <1>5, DivExact
<1>. QED  BY <1>1, <1>6, IntervalsNat DEF SimulatedInterval

RoundLength == Len(gameObjectsSimulated)

\* There have been k turns since OnUpdate(), for all that the timer had to give; the
\* Toggle has turned over if just one of them was of an object that updates it.
Had(i, k) == Covers(i, simulatedIT, RoundLength, k)

TimeGiven(k) ==
    /\ simulatedTimer + k * SimulatedInterval >= Simulated
    /\ aRound => simulatedTimer + k * SimulatedInterval < Simulated + SimulatedInterval

Turned(k) == {o \in Turners : \E i \in 1 .. RoundLength : gameObjectsSimulated[i] = o /\ Had(i, k)}

One(S) == \E o \in S : S = {o}

AllAwake == ({ToggleOn} \cup Clicking) \cap rested = {}

ToggleSays(S) == AllAwake => (value # before <=> Left \in input.buttonsPressed /\ One(S))

TurnsTaken(k) ==
    /\ k >= 1 => simulatedIT \in 1 .. RoundLength
    /\ TimeGiven(k)
    /\ \A i \in 1 .. RoundLength : Had(i, k) => gameObjectsSimulated[i] \in served
    /\ aRound => ToggleSays(Turned(k))

ClearedKnown == at \in {"events", "update"} => (cleared <=> simulatedTimer >= Simulated)

LeftPressed == Left \in PressedBy("MouseButtonPressed")

ClicksKnown ==
    /\ at = "refresh" => pressed = {}
    /\ at \in InFrame /\ cleared => (Left \in input.buttonsPressed <=> LeftPressed)

ValueKnown == at \in {"refresh", "events", "update"} => value = before

RoundKnown == at \in {"simulated", "emulated"} /\ aRound => cleared /\ gameObjectsSimulated # << >>

RestKnown == Objects \ enabled \subseteq rested

TurnsKnown ==
    at = "simulated" /\ cleared /\ gameObjectsSimulated # << >> => \E k \in Nat : TurnsTaken(k)

AllServed == at = "emulated" /\ cleared => ToSet(gameObjectsSimulated) \subseteq served

Flipped ==
    at = "emulated" /\ aRound /\ Turners \cap ToSet(gameObjectsEmulated) = {}
        => ToggleSays(Clicking)

TurnsInv == /\ ClearedKnown /\ ClicksKnown /\ ValueKnown /\ RoundKnown /\ RestKnown
            /\ TurnsKnown /\ AllServed /\ Flipped

\* What was not enabled when the frame began, or has not been since, is remembered.
LEMMA RestNext == RestKnown /\ [FrameNext]_frameVars => RestKnown'
<1>. SUFFICES ASSUME RestKnown, [FrameNext]_frameVars PROVE RestKnown'
  OBVIOUS
<1>1. CASE Rests
  BY <1>1 DEF Rests, RestKnown
<1>2. CASE UNCHANGED <<enabled, rested>>
  BY <1>2 DEF RestKnown
<1>3. CASE FIterate
  BY <1>3 DEF FIterate, Iterate, objects, RestKnown
<1>4. ASSUME NEW e \in I!Events, Poll(e) PROVE UNCHANGED <<enabled, rested>>
  BY <1>4 DEF Poll, vars, objects
<1>5. FRefresh => UNCHANGED <<enabled, rested>>
  BY DEF FRefresh, Refresh
<1>6. FEvents \/ FRest => UNCHANGED <<enabled, rested>>
  BY DEF FEvents, Events, FRest, EndSimulated, Collide, TimeManager, objects, memory
<1>7. FBegin \/ FUpdateSimulated \/ FUpdateEmulated => Rests
  BY DEF FBegin, FUpdateSimulated, FUpdateEmulated
<1>8. UNCHANGED frameVars => UNCHANGED <<enabled, rested>>
  BY DEF frameVars, vars, objects, memory
<1>. QED  BY <1>1, <1>2, <1>3, <1>4, <1>5, <1>6, <1>7, <1>8 DEF FrameNext

\* The object of the Toggle and the root above it: there are no more.
LEMMA TwoTurners == \E r : Turners \subseteq {ToggleOn, r}
<1>1. \A o \in Turners : o = ToggleOn \/ o = RootOf[ToggleOn]
  BY DEF Turners, Below
<1>. QED  BY <1>1

\* One more of at most two makes one of none, and two of one.
LEMMA OneMore ==
  ASSUME NEW a, NEW b, NEW S, S \subseteq {a, b}, NEW o \in {a, b}, o \notin S
  PROVE  One(S \cup {o}) <=> ~One(S)
<1>1. CASE S = {}
  BY <1>1 DEF One
<1>2. CASE S # {}
  <2>1. PICK x \in S : TRUE
    BY <1>2
  <2>2. x # o /\ \A y \in S : y = x
    BY <2>1
  <2>3. One(S)
    BY <2>1, <2>2 DEF One
  <2>4. ~One(S \cup {o})
    BY <2>1, <2>2 DEF One
  <2>. QED  BY <2>3, <2>4
<1>. QED  BY <1>1, <1>2

\* A turn of an object that does not update the Toggle leaves it alone; one of an object
\* that does turns it over, if the button was just pressed and neither is disabled.
LEMMA ToggleTurn ==
  ASSUME NEW o, ToggleUpdate(o)
  PROVE  /\ o \notin Turners => value' = value
         /\ o \in Turners \cap enabled /\ ToggleOn \in enabled \cap enabled' =>
               value' = IF Left \in input.buttonsPressed THEN ~value ELSE value
  BY DEF ToggleUpdate

\* A turn more
LEMMA TurnTaken ==
  ASSUME FrameTypeOK, ListOnce, RestKnown, FUpdateSimulated, NEW k \in Nat, TurnsTaken(k)
  PROVE  TurnsTaken(k + 1)'
<1>. DEFINE n == RoundLength
            d == SimulatedInterval
            w == Wrapped(simulatedIT, gameObjectsSimulated)
            o == gameObjectsSimulated[w + 1]
            list == gameObjectsSimulated
<1>1. /\ list # << >> /\ simulatedTimer >= d /\ UpdateObject(o)
      /\ simulatedIT' = w + 1 /\ simulatedTimer' = simulatedTimer - d
      /\ UNCHANGED lists
  BY DEF FUpdateSimulated, UpdateSimulated, SimulatedDue
<1>2. /\ ToggleUpdate(o) /\ served' = served \cup {o} /\ Rests
      /\ UNCHANGED <<input, before, aRound>>
  BY DEF FUpdateSimulated
<1>3. n \in Nat \ {0} /\ d \in Nat /\ Simulated = n * d
  BY <1>1, RoundIsWhole DEF FrameTypeOK, RoundLength
<1>4. list' = list /\ RoundLength' = n /\ SimulatedInterval' = d
  BY <1>1 DEF lists, RoundLength, SimulatedInterval
<1>5. /\ simulatedTimer \in Nat /\ simulatedIT \in Nat /\ Simulated \in Nat
      /\ value \in BOOLEAN /\ before \in BOOLEAN
  BY TimeAssumption DEF FrameTypeOK, TypeOK
<1>6. w = IF simulatedIT >= n THEN 0 ELSE simulatedIT
  BY DEF Wrapped, RoundLength
<1>7. k >= 1 => simulatedIT \in 1 .. n
  BY DEF TurnsTaken
<1>8. \A i, j \in 1 .. n : list[i] = list[j] => i = j
  BY DEF ListOnce, RoundLength
<1>9. \A i \in 1 .. n : Had(i, k) <=> Covers(i, simulatedIT, n, k)
  BY DEF Had
<1>10. \A i \in 1 .. n : Had(i, k + 1)' <=> Covers(i, w + 1, n, k + 1)
  BY <1>1, <1>4 DEF Had
<1>. HIDE DEF n, d, w, o, list
<1>11. w + 1 \in 1 .. n
  BY <1>3, <1>5, <1>6, <1>7, CoversOneMore
<1>12. ASSUME NEW i \in 1 .. n
       PROVE  /\ Had(i, k + 1)' => i = w + 1 \/ Had(i, k)
              /\ k < n /\ i = w + 1 => ~Had(i, k) /\ Had(i, k + 1)'
              /\ k < n /\ Had(i, k) => Had(i, k + 1)'
  <2>1. /\ Covers(i, w + 1, n, k + 1) => i = w + 1 \/ Covers(i, simulatedIT, n, k)
        /\ k < n => /\ ~Covers(w + 1, simulatedIT, n, k)
                    /\ Covers(w + 1, w + 1, n, k + 1)
                    /\ Covers(i, simulatedIT, n, k) => Covers(i, w + 1, n, k + 1)
    BY <1>3, <1>5, <1>6, <1>7, CoversOneMore
  <2>. QED  BY <1>9, <1>10, <1>11, <2>1
<1>13. simulatedTimer' + (k + 1) * d = simulatedTimer + k * d
  <2>. DEFINE t == k * d
              u == (k + 1) * d
  <2>1. u = t + d /\ t \in Nat
    BY <1>3, TimesSucc
  <2>2. simulatedTimer' = simulatedTimer - d
    BY <1>1
  <2>. HIDE DEF t, u
  <2>3. simulatedTimer' + u = simulatedTimer + t
    BY <1>3, <1>5, <2>1, <2>2
  <2>. QED  BY <2>3 DEF t, u
<1>14. TimeGiven(k + 1)'
  <2>1. /\ simulatedTimer + k * d >= Simulated
        /\ aRound => simulatedTimer + k * d < Simulated + d
    BY DEF TurnsTaken, TimeGiven, d
  <2>. QED  BY <1>2, <1>4, <1>13, <2>1 DEF TimeGiven
<1>15. ASSUME aRound PROVE k < n
  <2>1. simulatedTimer + k * d < n * d + d
    BY <1>3, <1>15 DEF TurnsTaken, TimeGiven, d
  <2>2. k * d < n * d
    <3>. DEFINE t == k * d
                u == n * d
    <3>1. t \in Nat /\ u \in Nat
      BY <1>3
    <3>2. simulatedTimer >= d /\ simulatedTimer + t < u + d
      BY <1>1, <2>1
    <3>. HIDE DEF t, u
    <3>3. t < u
      BY <1>3, <1>5, <3>1, <3>2
    <3>. QED  BY <3>3 DEF t, u
  <2>. QED  BY <1>3, <2>2, TimesLess
<1>16. ASSUME NEW i \in 1 .. n, Had(i, k + 1)'
       PROVE  list[i] \in served'
  <2>1. i = w + 1 \/ Had(i, k)
    BY <1>12, <1>16
  <2>2. Had(i, k) => list[i] \in served
    BY DEF TurnsTaken, n, list
  <2>. QED  BY <1>2, <2>1, <2>2 DEF o, list
<1>17. ASSUME aRound
       PROVE  ToggleSays(Turned(k + 1))'
  <2>. DEFINE S == Turned(k)
              T == Turned(k + 1)'
  <2>1. /\ \A x : x \in S <=> x \in Turners /\ \E i \in 1 .. n : list[i] = x /\ Had(i, k)
        /\ \A x : x \in T <=> x \in Turners /\ \E i \in 1 .. n : list[i] = x /\ Had(i, k + 1)'
    BY <1>4 DEF Turned, Turners, n, list
  <2>2. \A i \in 1 .. n : Had(i, k + 1)' <=> i = w + 1 \/ Had(i, k)
    BY <1>12, <1>15, <1>17
  <2>3. o = list[w + 1] /\ (\A i \in 1 .. n : Had(i, k) => list[i] # o)
    BY <1>8, <1>11, <1>12, <1>15, <1>17 DEF o, list
  <2>. HIDE DEF S, T
  <2>4. o \notin S /\ T = S \cup ({o} \cap Turners)
    BY <1>11, <2>1, <2>2, <2>3
  <2>5. ToggleSays(S)
    BY <1>17 DEF TurnsTaken, S
  <2>6. Clicking' = Clicking /\ (o \in Turners => o \in Clicking)
    <3>1. o \in ToSet(gameObjectsSimulated)
      BY <1>11, <2>3, InList DEF n, list, RoundLength, FrameTypeOK, TypeOK
    <3>. QED  BY <1>4, <3>1 DEF Clicking, Turners, list
  <2>. SUFFICES ASSUME AllAwake'
                PROVE  value' # before <=> Left \in input.buttonsPressed /\ One(T)
    BY <1>2 DEF ToggleSays, One, T
  <2>7. AllAwake /\ ToggleOn \in enabled \cap enabled' /\ (o \in Turners => o \in enabled)
    <3>1. /\ rested' = rested \cup (Objects \ enabled') /\ Objects \ enabled \subseteq rested
          /\ ({ToggleOn} \cup Clicking) \cap rested' = {}
      BY <1>2, <2>6 DEF Rests, RestKnown, AllAwake
    <3>2. ToggleOn \in Objects /\ Clicking \subseteq Objects
      BY FrameAssumption DEF Clicking, Turners
    <3>. QED  BY <2>6, <3>1, <3>2 DEF AllAwake
  <2>8. value # before <=> Left \in input.buttonsPressed /\ One(S)
    BY <2>5, <2>7 DEF ToggleSays
  <2>9. CASE o \notin Turners
    <3>1. value' = value /\ T = S
      BY <1>2, <2>4, <2>9, ToggleTurn
    <3>. QED  BY <2>8, <3>1
  <2>10. CASE o \in Turners
    <3>1. value' = IF Left \in input.buttonsPressed THEN ~value ELSE value
      BY <1>2, <2>7, <2>10, ToggleTurn
    <3>2. One(T) <=> ~One(S)
      <4>1. PICK r : Turners \subseteq {ToggleOn, r}
        BY TwoTurners
      <4>2. S \subseteq {ToggleOn, r} /\ o \in {ToggleOn, r} /\ T = S \cup {o}
        BY <2>1, <2>4, <2>10, <4>1
      <4>. QED  BY <2>4, <4>2, OneMore
    <3>. QED  BY <1>5, <2>8, <3>1, <3>2
  <2>. QED  BY <2>9, <2>10
<1>18. k + 1 >= 1 => simulatedIT' \in 1 .. RoundLength'
  BY <1>1, <1>4, <1>11
<1>. QED
  <2>1. \A i \in 1 .. RoundLength' : Had(i, k + 1)' => gameObjectsSimulated'[i] \in served'
    BY <1>4, <1>16 DEF list
  <2>2. aRound' => ToggleSays(Turned(k + 1))'
    BY <1>2, <1>17
  <2>. QED  BY <1>14, <1>18, <2>1, <2>2 DEF TurnsTaken

\* The last turn: the timer has no more to give, so each place has had one.
LEMMA TurnsDone ==
  ASSUME FrameTypeOK, ListOnce, ~SimulatedDue, gameObjectsSimulated # << >>,
         NEW k \in Nat, TurnsTaken(k)
  PROVE  \A i \in 1 .. RoundLength : Had(i, k)
<1>. DEFINE n == RoundLength
            d == SimulatedInterval
<1>1. n \in Nat \ {0} /\ d \in Nat /\ Simulated = n * d
  BY RoundIsWhole DEF FrameTypeOK, RoundLength
<1>2. simulatedTimer \in Nat /\ ~(simulatedTimer >= d) /\ simulatedTimer + k * d >= n * d
      /\ (k >= 1 => simulatedIT \in 1 .. n)
  BY <1>1 DEF FrameTypeOK, TypeOK, SimulatedDue, TurnsTaken, TimeGiven
<1>. HIDE DEF n, d
<1>3. n * d < (k + 1) * d
  <2>. DEFINE t == k * d
              u == n * d
              v == (k + 1) * d
  <2>1. t \in Nat /\ u \in Nat /\ v = t + d
    BY <1>1, TimesSucc
  <2>2. simulatedTimer + t >= u
    BY <1>2
  <2>. HIDE DEF t, u, v
  <2>3. u < v
    BY <1>1, <1>2, <2>1, <2>2
  <2>. QED  BY <2>3 DEF u, v
<1>4. n < k + 1
  BY <1>1, <1>3, TimesLess
<1>5. k >= n /\ k >= 1 /\ simulatedIT \in 1 .. n
  BY <1>1, <1>2, <1>4
<1>6. \A i \in 1 .. n : Covers(i, simulatedIT, n, k)
  BY <1>1, <1>5, CoversAll
<1>. QED  BY <1>6 DEF Had, n

\* Outside the frame there is nothing to say.
LEMMA TurnsOutside ==
  ASSUME at' \notin InFrame, at' # "refresh", RestKnown'
  PROVE  TurnsInv'
<1>1. at' \notin {"events", "update", "simulated", "emulated", "refresh"}
  BY DEF InFrame
<1>. QED
  BY <1>1 DEF TurnsInv, ClearedKnown, ClicksKnown, ValueKnown, RoundKnown, TurnsKnown, AllServed,
              Flipped, InFrame

\* Up to OnUpdate()
LEMMA TurnsBefore ==
  ASSUME at' \in {"refresh", "events", "update"}, ClearedKnown', ClicksKnown', ValueKnown',
         RestKnown'
  PROVE  TurnsInv'
<1>1. at' \notin {"simulated", "emulated"}
  OBVIOUS
<1>. QED  BY <1>1 DEF TurnsInv, RoundKnown, TurnsKnown, AllServed, Flipped

\* While objects are updated
LEMMA TurnsDuring ==
  ASSUME at' \in {"simulated", "emulated"}, ClicksKnown', RoundKnown', TurnsKnown', AllServed',
         Flipped', RestKnown'
  PROVE  TurnsInv'
<1>1. at' \notin {"refresh", "events", "update"}
  OBVIOUS
<1>. QED  BY <1>1 DEF TurnsInv, ClearedKnown, ValueKnown

\* A refresh, and the input._update() that may come with it
LEMMA TurnsRefresh == FrameTypeOK /\ TurnsInv /\ RestKnown' /\ FRefresh => TurnsInv'
<1>. SUFFICES ASSUME FrameTypeOK, TurnsInv, RestKnown', FRefresh PROVE TurnsInv'
  OBVIOUS
<1>1. /\ at = "refresh" /\ at' = "events" /\ UNCHANGED simulatedTimer
      /\ cleared' = (simulatedTimer >= Simulated) /\ UNCHANGED <<value, before, pressed>>
  BY DEF FRefresh, Refresh, ClearDue
<1>2. ClearedKnown'
  BY <1>1 DEF ClearedKnown
<1>3. pressed = {} /\ value = before
  BY <1>1 DEF TurnsInv, ClicksKnown, ValueKnown
<1>4. ValueKnown'
  BY <1>1, <1>3 DEF ValueKnown
<1>5. ClicksKnown'
  <2>1. CASE ClearDue
    <3>1. input' = I!Cleared(input) /\ input \in I!Inputs
      BY <2>1 DEF FRefresh, I!Update, FrameTypeOK, I!TypeOK
    <3>2. input'.buttonsPressed = {}
      BY <3>1, ClearedFields
    <3>. QED  BY <1>1, <1>3, <3>2 DEF ClicksKnown, LeftPressed, PressedBy
  <2>2. CASE ~ClearDue
    <3>1. ~cleared'
      BY <1>1, <2>2 DEF ClearDue
    <3>. QED  BY <1>1, <3>1 DEF ClicksKnown
  <2>. QED  BY <2>1, <2>2
<1>. QED  BY <1>1, <1>2, <1>4, <1>5, TurnsBefore

\* An event: the flag of the button and what is remembered of the frame agree.
LEMMA TurnsPoll ==
  ASSUME FrameTypeOK, TurnsInv, RestKnown', NEW e \in I!Events, Poll(e)
  PROVE  TurnsInv'
<1>1. /\ at = "events" /\ at' = "events" /\ input' = I!Polled(input, e)
      /\ UNCHANGED <<simulatedTimer, value, before, cleared>>
      /\ pressed' = pressed \cup IF e.type \in {"KeyPressed", "MouseButtonPressed"}
                                 THEN {e} ELSE {}
  BY DEF Poll, I!Poll, vars, timers
<1>2. ClearedKnown' /\ ValueKnown'
  BY <1>1 DEF TurnsInv, ClearedKnown, ValueKnown
<1>3. input'.buttonsPressed =
         input.buttonsPressed \cup (IF e.type = "MouseButtonPressed" THEN {e.code} ELSE {})
  BY <1>1, PolledFields DEF FrameTypeOK, I!TypeOK
<1>4. LeftPressed' <=> LeftPressed \/ (e.type = "MouseButtonPressed" /\ e.code = Left)
  <2>1. CASE e.type = "MouseButtonPressed"
    <3>1. pressed' = pressed \cup {e}
      BY <1>1, <2>1
    <3>2. PressedBy("MouseButtonPressed")' = PressedBy("MouseButtonPressed") \cup {e.code}
      BY <2>1, <3>1 DEF PressedBy
    <3>. QED  BY <2>1, <3>2 DEF LeftPressed
  <2>2. CASE e.type # "MouseButtonPressed"
    <3>1. pressed' = pressed \/ pressed' = pressed \cup {e}
      BY <1>1
    <3>2. PressedBy("MouseButtonPressed")' = PressedBy("MouseButtonPressed")
      BY <2>2, <3>1 DEF PressedBy
    <3>. QED  BY <2>2, <3>2 DEF LeftPressed
  <2>. QED  BY <2>1, <2>2
<1>5. cleared => (Left \in input.buttonsPressed <=> LeftPressed)
  BY <1>1 DEF TurnsInv, ClicksKnown, InFrame
<1>6. cleared => (Left \in input'.buttonsPressed <=> LeftPressed')
  BY <1>3, <1>4, <1>5
<1>7. ClicksKnown'
  BY <1>1, <1>6 DEF ClicksKnown
<1>. QED  BY <1>1, <1>2, <1>7, TurnsBefore

\* Before the first turn the timer has a round to give.
LEMMA TurnsBegin == FrameTypeOK /\ ListOnce /\ TurnsInv /\ RestKnown' /\ FBegin => TurnsInv'
<1>. SUFFICES ASSUME FrameTypeOK, ListOnce, TurnsInv, RestKnown', FBegin PROVE TurnsInv'
  OBVIOUS
<1>1. /\ at = "update" /\ at' = "simulated" /\ UNCHANGED <<lists, turns, timers>>
      /\ UNCHANGED <<value, before, pressed, cleared, served>>
      /\ aRound' = (SimulatedDue /\ simulatedTimer >= Simulated
                                /\ simulatedTimer < Simulated + SimulatedInterval)
  BY DEF FBegin, Begin
<1>2. input'.buttonsPressed = input.buttonsPressed
  <2>1. UNCHANGED input \/ \E b \in Buttons : input' = I!Asked(input, b)
    BY DEF FBegin, I!GetButtonUp
  <2>. QED  BY <2>1, AskedFields DEF FrameTypeOK, I!TypeOK
<1>3. ClicksKnown'
  BY <1>1, <1>2 DEF TurnsInv, ClicksKnown, LeftPressed, PressedBy, InFrame
<1>4. (cleared <=> simulatedTimer >= Simulated) /\ value = before
  BY <1>1 DEF TurnsInv, ClearedKnown, ValueKnown
<1>5. RoundKnown'
  BY <1>1, <1>4 DEF RoundKnown, SimulatedDue, lists
<1>6. ASSUME cleared', gameObjectsSimulated' # << >>
      PROVE  TurnsTaken(0)'
  <2>1. gameObjectsSimulated' = gameObjectsSimulated /\ simulatedIT' = simulatedIT
        /\ simulatedTimer' = simulatedTimer
    BY <1>1 DEF lists, turns, timers
  <2>2. RoundLength' = RoundLength /\ SimulatedInterval' = SimulatedInterval
    BY <2>1 DEF RoundLength, SimulatedInterval
  <2>3. RoundLength \in Nat \ {0} /\ SimulatedInterval \in Nat
    BY <1>6, <2>1, RoundIsWhole DEF FrameTypeOK, RoundLength
  <2>4. simulatedTimer \in Nat /\ Simulated \in Nat /\ simulatedIT \in Nat
    BY TimeAssumption DEF FrameTypeOK, TypeOK
  <2>5. \A i \in 1 .. RoundLength : ~Covers(i, simulatedIT, RoundLength, 0)
    BY <2>3, <2>4, CoversNone
  <2>6. \A i \in 1 .. RoundLength' : ~Had(i, 0)'
    BY <2>1, <2>2, <2>5 DEF Had
  <2>7. TimeGiven(0)'
    <3>1. simulatedTimer >= Simulated
      BY <1>1, <1>4, <1>6
    <3>2. aRound' => simulatedTimer < Simulated + SimulatedInterval
      BY <1>1
    <3>3. simulatedTimer + 0 * SimulatedInterval = simulatedTimer
      BY <2>3, <2>4
    <3>. QED  BY <2>1, <2>2, <3>1, <3>2, <3>3 DEF TimeGiven
  <2>8. ToggleSays(Turned(0))'
    <3>1. Turned(0)' = {}
      BY <2>6 DEF Turned
    <3>. QED  BY <1>1, <1>4, <3>1 DEF ToggleSays, One
  <2>. QED  BY <2>6, <2>7, <2>8 DEF TurnsTaken
<1>7. TurnsKnown'
  BY <1>6 DEF TurnsKnown
<1>8. AllServed' /\ Flipped'
  BY <1>1 DEF AllServed, Flipped
<1>. QED  BY <1>1, <1>3, <1>5, <1>7, <1>8, TurnsDuring

\* A turn of an object in range
LEMMA TurnsUpdate == FrameTypeOK /\ ListOnce /\ TurnsInv /\ RestKnown' /\ FUpdateSimulated => TurnsInv'
<1>. SUFFICES ASSUME FrameTypeOK, ListOnce, TurnsInv, RestKnown', FUpdateSimulated PROVE TurnsInv'
  OBVIOUS
<1>1. /\ at = "simulated" /\ at' = "simulated" /\ UNCHANGED lists /\ SimulatedDue
      /\ UNCHANGED <<input, pressed, cleared, aRound>>
  BY DEF FUpdateSimulated, UpdateSimulated
<1>2. ClicksKnown' /\ RoundKnown'
  BY <1>1 DEF TurnsInv, ClicksKnown, LeftPressed, PressedBy, RoundKnown, InFrame, lists
<1>3. AllServed' /\ Flipped'
  BY <1>1 DEF AllServed, Flipped
<1>4. ASSUME cleared' PROVE (\E k \in Nat : TurnsTaken(k))'
  <2>1. PICK k \in Nat : TurnsTaken(k)
    BY <1>1, <1>4 DEF TurnsInv, TurnsKnown, SimulatedDue
  <2>2. TurnsTaken(k + 1)' /\ k + 1 \in Nat
    BY <2>1, TurnTaken DEF TurnsInv
  <2>. QED  BY <2>2
<1>5. TurnsKnown'
  BY <1>4 DEF TurnsKnown
<1>. QED  BY <1>1, <1>2, <1>3, <1>5, TurnsDuring

\* When the turns are done, those that update the Toggle and are in range have had one.
LEMMA FlippedAtEnd ==
  ASSUME FrameTypeOK, ListOnce, TurnsInv, at = "simulated", ~SimulatedDue, aRound
  PROVE  ToggleSays(Clicking)
<1>1. cleared /\ gameObjectsSimulated # << >>
  BY DEF TurnsInv, RoundKnown
<1>2. PICK k \in Nat : TurnsTaken(k)
  BY <1>1 DEF TurnsInv, TurnsKnown
<1>3. \A i \in 1 .. RoundLength : Had(i, k)
  BY <1>1, <1>2, TurnsDone
<1>4. Turned(k) = Clicking
  <2>1. \A x : x \in ToSet(gameObjectsSimulated) <=>
                 \E i \in 1 .. RoundLength : gameObjectsSimulated[i] = x
    BY InList DEF RoundLength, FrameTypeOK, TypeOK
  <2>. QED  BY <1>3, <2>1 DEF Turned, Clicking
<1>. QED  BY <1>2, <1>4 DEF TurnsTaken

\* The end of the turns: every place has had one.
LEMMA TurnsEnd ==
  FrameTypeOK /\ ListOnce /\ TurnsInv /\ RestKnown' /\ FRest /\ EndSimulated => TurnsInv'
<1>. SUFFICES ASSUME FrameTypeOK, ListOnce, TurnsInv, RestKnown', FRest, EndSimulated PROVE TurnsInv'
  OBVIOUS
<1>1. /\ at = "simulated" /\ at' = "emulated" /\ ~SimulatedDue
      /\ UNCHANGED <<gameObjectsSimulated, gameObjectsEmulated>>
      /\ UNCHANGED <<input, value, before, pressed, cleared, served, aRound, rested>>
  BY DEF FRest, EndSimulated, lists, memory
<1>2. ClicksKnown' /\ RoundKnown'
  BY <1>1 DEF TurnsInv, ClicksKnown, LeftPressed, PressedBy, RoundKnown, InFrame
<1>3. TurnsKnown'
  BY <1>1 DEF TurnsKnown
<1>4. gameObjectsSimulated \in Seq(Objects)
  BY DEF FrameTypeOK, TypeOK
<1>5. \A x : x \in ToSet(gameObjectsSimulated) =>
               \E i \in 1 .. RoundLength : gameObjectsSimulated[i] = x
  BY <1>4, InList DEF RoundLength
<1>6. ASSUME cleared, NEW x \in ToSet(gameObjectsSimulated)
      PROVE  \E k \in Nat : TurnsTaken(k) /\ \E i \in 1 .. RoundLength : gameObjectsSimulated[i] = x /\ Had(i, k)
  <2>1. PICK i \in 1 .. RoundLength : gameObjectsSimulated[i] = x
    BY <1>5
  <2>2. gameObjectsSimulated # << >>
    BY <1>4, <2>1 DEF RoundLength
  <2>3. PICK k \in Nat : TurnsTaken(k)
    BY <1>1, <1>6, <2>2 DEF TurnsInv, TurnsKnown
  <2>4. Had(i, k)
    BY <1>1, <2>1, <2>2, <2>3, TurnsDone
  <2>. QED  BY <2>1, <2>3, <2>4
<1>7. AllServed'
  <2>1. ASSUME cleared, NEW x \in ToSet(gameObjectsSimulated) PROVE x \in served
    BY <1>6, <2>1 DEF TurnsTaken
  <2>. QED  BY <1>1, <2>1 DEF AllServed
<1>8. Flipped'
  <2>1. aRound => ToggleSays(Clicking)
    BY <1>1, FlippedAtEnd
  <2>. QED  BY <1>1, <2>1 DEF Flipped, ToggleSays, AllAwake, Clicking
<1>. QED  BY <1>1, <1>2, <1>3, <1>7, <1>8, TurnsDuring

\* A turn of those emulated leaves the Toggle alone, if none of them updates it.
LEMMA TurnsEmulated == FrameTypeOK /\ TurnsInv /\ RestKnown' /\ FUpdateEmulated => TurnsInv'
<1>. SUFFICES ASSUME FrameTypeOK, TurnsInv, RestKnown', FUpdateEmulated PROVE TurnsInv'
  OBVIOUS
<1>. DEFINE o == gameObjectsEmulated[Wrapped(emulatedIT, gameObjectsEmulated) + 1]
<1>1. /\ at = "emulated" /\ at' = "emulated"
      /\ UNCHANGED <<gameObjectsSimulated, gameObjectsEmulated>>
      /\ UNCHANGED <<input, before, pressed, cleared, served, aRound>>
  BY DEF FUpdateEmulated, UpdateEmulated, lists
<1>2. Rests /\ ToggleUpdate(o) /\ gameObjectsEmulated # << >>
  BY DEF FUpdateEmulated, UpdateEmulated, EmulatedDue
<1>3. o \in ToSet(gameObjectsEmulated)
  <2>1. gameObjectsEmulated \in Seq(Roots) /\ emulatedIT \in Nat
    BY DEF FrameTypeOK, TypeOK
  <2>2. Wrapped(emulatedIT, gameObjectsEmulated) + 1 \in 1 .. Len(gameObjectsEmulated)
    BY <1>2, <2>1, PlaceInList
  <2>. QED  BY <2>1, <2>2, InList
<1>. HIDE DEF o
<1>4. ClicksKnown' /\ RoundKnown' /\ TurnsKnown' /\ AllServed'
  BY <1>1 DEF TurnsInv, ClicksKnown, LeftPressed, PressedBy, RoundKnown, InFrame, TurnsKnown, AllServed
<1>5. Flipped'
  <2>. SUFFICES ASSUME aRound, Turners \cap ToSet(gameObjectsEmulated) = {}, AllAwake'
                PROVE  value' # before <=> Left \in input.buttonsPressed /\ One(Clicking)
    BY <1>1 DEF Flipped, ToggleSays, Clicking, One
  <2>1. value' = value
    BY <1>2, <1>3, ToggleTurn
  <2>2. AllAwake
    BY <1>1, <1>2 DEF AllAwake, Rests, Clicking
  <2>. QED  BY <1>1, <2>1, <2>2 DEF TurnsInv, Flipped, ToggleSays
<1>. QED  BY <1>1, <1>4, <1>5, TurnsDuring

\* Each step keeps what is said of the turns.
LEMMA TurnsNext ==
  FrameTypeOK /\ ListOnce /\ TurnsInv /\ [FrameNext]_frameVars => TurnsInv'
<1>. SUFFICES ASSUME FrameTypeOK, ListOnce, TurnsInv, [FrameNext]_frameVars PROVE TurnsInv'
  OBVIOUS
<1>0. RestKnown'
  BY RestNext DEF TurnsInv
<1>1. CASE FIterate
  <2>1. /\ at' \in {"refresh", "time"} /\ pressed' = {} /\ before' = value /\ value' = value
    BY <1>1 DEF FIterate, Iterate
  <2>2. CASE at' = "refresh"
    <3>1. ClearedKnown' /\ ClicksKnown' /\ ValueKnown'
      BY <2>1, <2>2 DEF ClearedKnown, ClicksKnown, ValueKnown, InFrame
    <3>. QED  BY <1>0, <2>2, <3>1, TurnsBefore
  <2>3. CASE at' = "time"
    BY <1>0, <2>3, TurnsOutside DEF InFrame
  <2>. QED  BY <2>1, <2>2, <2>3
<1>2. CASE FRefresh
  BY <1>0, <1>2, TurnsRefresh
<1>3. ASSUME NEW e \in I!Events, Poll(e) PROVE TurnsInv'
  BY <1>0, <1>3, TurnsPoll
<1>4. CASE FEvents
  <2>1. /\ UNCHANGED <<simulatedTimer, value, before, pressed, cleared, input>>
        /\ at = "events" /\ at' \in {"update", "exited", "null"}
    BY <1>4 DEF FEvents, Events, timers, memory
  <2>2. CASE at' = "update"
    <3>1. ClearedKnown' /\ ClicksKnown' /\ ValueKnown'
      BY <2>1, <2>2 DEF TurnsInv, ClearedKnown, ClicksKnown, LeftPressed, PressedBy, ValueKnown, InFrame
    <3>. QED  BY <1>0, <2>2, <3>1, TurnsBefore
  <2>3. CASE at' # "update"
    BY <1>0, <2>1, <2>3, TurnsOutside DEF InFrame
  <2>. QED  BY <2>2, <2>3
<1>5. CASE FBegin
  BY <1>0, <1>5, TurnsBegin
<1>6. CASE FUpdateSimulated
  BY <1>0, <1>6, TurnsUpdate
<1>7. CASE FUpdateEmulated
  BY <1>0, <1>7, TurnsEmulated
<1>8. CASE FRest
  <2>1. CASE EndSimulated
    BY <1>0, <1>8, <2>1, TurnsEnd
  <2>2. CASE Collide \/ TimeManager
    <3>1. at' \in {"time", "top"}
      BY <2>2 DEF Collide, TimeManager
    <3>. QED  BY <1>0, <3>1, TurnsOutside DEF InFrame
  <2>. QED  BY <1>8, <2>1, <2>2 DEF FRest
<1>9. CASE UNCHANGED frameVars
  <2>1. UNCHANGED <<at, simulatedTimer, simulatedIT, gameObjectsSimulated, gameObjectsEmulated,
                    input, value, before, pressed, cleared, served, aRound, rested>>
    BY <1>9 DEF frameVars, vars, lists, turns, timers, memory
  <2>2. ClearedKnown' /\ ClicksKnown' /\ ValueKnown' /\ RoundKnown' /\ AllServed' /\ Flipped'
    BY <2>1 DEF TurnsInv, ClearedKnown, ClicksKnown, LeftPressed, PressedBy, ValueKnown, RoundKnown,
                AllServed, Flipped, ToggleSays, AllAwake, Clicking, One
  <2>3. TurnsKnown'
    BY <2>1 DEF TurnsInv, TurnsKnown, TurnsTaken, TimeGiven, ToggleSays, AllAwake, Clicking, One, Turned,
                Had, RoundLength, SimulatedInterval
  <2>. QED  BY <1>0, <2>2, <2>3 DEF TurnsInv
<1>. QED
  BY <1>1, <1>2, <1>3, <1>4, <1>5, <1>6, <1>7, <1>8, <1>9 DEF FrameNext

\* What keeps the two promises of a frame that began with input._update()
RoundInv == FrameTypeOK /\ ListOnce /\ TurnsInv

\* RoundInv holds at first.
LEMMA RoundInit == FrameInit => RoundInv
<1>. SUFFICES ASSUME FrameInit PROVE RoundInv
  OBVIOUS
<1>1. gameObjectsSimulated = << >> /\ at = "top" /\ Cardinality(Objects) \in Nat
  BY TimeAssumption, FS_CardinalityType DEF FrameInit, Init
<1>2. ListOnce
  BY <1>1 DEF ListOnce
<1>3. TurnsInv
  BY <1>1 DEF TurnsInv, ClearedKnown, ClicksKnown, ValueKnown, RoundKnown, TurnsKnown, AllServed,
              Flipped, InFrame, RestKnown, FrameInit, Init
<1>. QED  BY <1>2, <1>3, FrameTypeInit DEF RoundInv

\* Each step of the whole keeps RoundInv.
LEMMA RoundNext == RoundInv /\ [FrameNext]_frameVars => RoundInv'
  BY FrameTypeNext, ListNext, StepOfApplication, TurnsNext DEF RoundInv, FrameTypeOK

\* What was polled in a frame that began with input._update() reaches each object in
\* range in the same frame.
THEOREM EventsReachAllHolds == FrameSpec => []EventsReachAll
<1>1. RoundInv => EventsReachAll
  BY DEF RoundInv, TurnsInv, AllServed, EventsReachAll
<1>. QED  BY RoundInit, RoundNext, <1>1, PTL DEF FrameSpec

\* In a frame with one turn for each object in range, a click turns a Toggle over once if
\* one of those that update it is in range, and not at all if both are.
THEOREM OneFlipPerClickHolds == FrameSpec => []OneFlipPerClick
<1>1. RoundInv => OneFlipPerClick
  <2>. SUFFICES ASSUME RoundInv, aRound, AllAwake,
                       \/ at = "simulated" /\ ~SimulatedDue
                       \/ at = "emulated" /\ Turners \cap ToSet(gameObjectsEmulated) = {}
                PROVE  value # before <=> LeftPressed /\ One(Clicking)
    BY DEF OneFlipPerClick, LeftPressed, AllAwake, One
  <2>1. cleared
    BY DEF RoundInv, TurnsInv, RoundKnown
  <2>2. Left \in input.buttonsPressed <=> LeftPressed
    BY <2>1 DEF RoundInv, TurnsInv, ClicksKnown, InFrame
  <2>3. ToggleSays(Clicking)
    BY FlippedAtEnd DEF RoundInv, TurnsInv, Flipped
  <2>. QED  BY <2>2, <2>3 DEF ToggleSays
<1>. QED  BY RoundInit, RoundNext, <1>1, PTL DEF FrameSpec

-----------------------------------------------------------------------------
(* The turns of those emulated *)

\* A round of turns is just as long as emulatedTargetDeltaTime.
LEMMA RoundOfEmulated ==
  ASSUME NEW n \in Nat \ {0}, n <= MaxEmulated
  PROVE  Emulated \in Nat /\ Emulated \div n \in Nat /\ Emulated = n * (Emulated \div n)
<1>1. MaxEmulated \in Nat /\ Emulated \in Nat /\ \A l \in 1 .. MaxEmulated : Emulated % l = 0
  BY TimeAssumption
<1>2. n \in 1 .. MaxEmulated
  BY <1>1
<1>3. Emulated % n = 0
  BY <1>1, <1>2
<1>. QED  BY <1>1, <1>3, DivNat, DivExact

\* More turns, more time
LEMMA TimesMore ==
  ASSUME NEW k \in Nat, NEW n \in Nat, k <= n, NEW d \in Nat
  PROVE  k * d <= n * d
  OBVIOUS

\* The longer the list, the less time for each turn.
LEMMA TurnShorter ==
  ASSUME NEW n \in Nat \ {0}, NEW m \in Nat, n <= m, NEW d \in Nat, NEW e \in Nat, n * d = m * e
  PROVE  e <= d
<1>. SUFFICES ASSUME d + 1 <= e PROVE FALSE
  OBVIOUS
<1>1. n * e <= m * e
  BY TimesMore
<1>2. (d + 1) * n <= e * n
  BY TimesMore
<1>3. (d + 1) * n = d * n + n
  BY TimesSucc
<1>4. d * n = n * d /\ e * n = n * e
  OBVIOUS
<1>. DEFINE t == n * d
            u == n * e
<1>5. t \in Nat /\ u \in Nat /\ u <= t /\ t + n <= u
  BY <1>1, <1>2, <1>3, <1>4
<1>. HIDE DEF t, u
<1>. QED  BY <1>5

\* The place of the turn that a root is owed is ahead, and what it was owed for, and the
\* turns up to that place, are no more than a round and what the timer holds.
TurnAt(o, p) ==
    /\ gameObjectsEmulated[p] = o
    /\ owed[o] + (p - emulatedIT) * EmulatedInterval <= Emulated + emulatedTimer

AheadOf(it) == (it + 1) .. Len(gameObjectsEmulated)

EmulatedInv ==
    /\ Len(gameObjectsEmulated) <= MaxEmulated /\ emulatedIT <= Len(gameObjectsEmulated)
    /\ \A o \in Roots : owed[o] # Never => \E p \in AheadOf(emulatedIT) : TurnAt(o, p)

\* At first no root is owed a turn.
LEMMA EmulatedInit == Init => EmulatedInv
<1>. SUFFICES ASSUME Init PROVE EmulatedInv
  OBVIOUS
<1>1. gameObjectsEmulated = << >> /\ emulatedIT = 0 /\ MaxEmulated \in Nat
  BY TimeAssumption DEF Init
<1>2. \A o \in Roots : owed[o] = Never
  BY DEF Init
<1>. QED  BY <1>1, <1>2 DEF EmulatedInv

\* What a refresh does to the list and to those owed a turn
LEMMA RefreshAppends ==
  ASSUME TypeOK, Refresh
  PROVE  \/ UNCHANGED <<gameObjectsEmulated, owed>>
         \/ \E away \in SUBSET Roots :
               /\ gameObjectsEmulated' = gameObjectsEmulated \o ById(away)
               /\ Len(gameObjectsEmulated') <= MaxEmulated
               /\ owed' = [o \in Roots |-> IF o \in away /\ owed[o] = Never THEN 0 ELSE owed[o]]
<1>. DEFINE out == (gameObjects \cap enabled) \ simulated'
<1>1. CASE refreshTimer >= Simulated
  <2>1. ~(refreshTimer < Simulated)
    BY <1>1, TimeAssumption DEF TypeOK
  <2>2. /\ gameObjectsEmulated' = gameObjectsEmulated \o ById(out)
        /\ Len(gameObjectsEmulated') <= MaxEmulated
        /\ owed' = [o \in Roots |-> IF o \in out /\ owed[o] = Never THEN 0 ELSE owed[o]]
    BY <2>1 DEF Refresh
  <2>3. out \in SUBSET Roots
    BY DEF TypeOK
  <2>. HIDE DEF out
  <2>. QED  BY <2>2, <2>3
<1>2. CASE ~(refreshTimer >= Simulated)
  BY <1>2 DEF Refresh, lists
<1>. QED  BY <1>1, <1>2

\* A refresh appends: the turns already owed come as soon as they did, or sooner, and
\* those now owed are within a round.
LEMMA EmulatedRefresh == TypeOK /\ TypeOK' /\ EmulatedInv /\ Refresh => EmulatedInv'
<1>. SUFFICES ASSUME TypeOK, TypeOK', EmulatedInv, Refresh PROVE EmulatedInv'
  OBVIOUS
<1>1. UNCHANGED <<emulatedIT, emulatedTimer>>
  BY DEF Refresh, turns
<1>2. CASE UNCHANGED <<gameObjectsEmulated, owed>>
  BY <1>1, <1>2 DEF EmulatedInv, AheadOf, TurnAt, EmulatedInterval
<1>3. ASSUME NEW away \in SUBSET Roots,
             gameObjectsEmulated' = gameObjectsEmulated \o ById(away),
             Len(gameObjectsEmulated') <= MaxEmulated,
             owed' = [o \in Roots |-> IF o \in away /\ owed[o] = Never THEN 0 ELSE owed[o]]
      PROVE  EmulatedInv'
  <2>. DEFINE list == gameObjectsEmulated
              n == Len(list)
              more == ById(away)
              m == Len(list')
              it == emulatedIT
  <2>1. IsFiniteSet(away) /\ away \subseteq Nat
    BY ObjectsFinite DEF Objects
  <2>2. /\ more \in Seq(away)
        /\ \A o \in away : \E i \in 1 .. Len(more) : more[i] = o
    BY <2>1, ByIdIsSeq
  <2>3. /\ list \in Seq(Roots) /\ n \in Nat /\ Len(more) \in Nat /\ m = n + Len(more)
        /\ \A p \in 1 .. n : list'[p] = list[p]
        /\ \A i \in 1 .. Len(more) : list'[n + i] = more[i]
    BY <1>3, <2>2 DEF TypeOK
  <2>4. it \in Nat /\ it <= n /\ emulatedTimer \in Nat /\ Emulated \in Nat
    BY TimeAssumption DEF TypeOK, EmulatedInv
  <2>5. ASSUME NEW o \in Roots, owed'[o] # Never
        PROVE  \E p \in (it + 1) .. m : TurnAt(o, p)'
    <3>1. CASE owed[o] # Never
      <4>1. PICK p \in (it + 1) .. n : TurnAt(o, p)
        BY <3>1 DEF EmulatedInv, AheadOf
      <4>. DEFINE d == Emulated \div n
                  e == Emulated \div m
                  k == p - it
      <4>2. n \in Nat \ {0} /\ n <= MaxEmulated /\ m \in Nat \ {0} /\ n <= m /\ p \in 1 .. n
        BY <2>3, <2>4, <4>1 DEF EmulatedInv
      <4>3. d \in Nat /\ e \in Nat /\ n * d = m * e
        BY <1>3, <4>2, RoundOfEmulated
      <4>4. e <= d
        <5>. HIDE DEF d, e, n, m
        <5>. QED  BY <4>2, <4>3, TurnShorter
      <4>5. owed[o] + k * d <= Emulated + emulatedTimer /\ list[p] = o
        BY <4>1 DEF TurnAt, EmulatedInterval
      <4>6. k \in Nat /\ owed'[o] = owed[o] /\ owed[o] \in Nat
        BY <1>3, <2>4, <3>1, <4>1 DEF TypeOK
      <4>7. owed[o] + k * e <= Emulated + emulatedTimer
        <5>1. e * k <= d * k
          <6>. HIDE DEF d, e, k
          <6>. QED  BY <4>3, <4>4, <4>6, TimesMore
        <5>2. e * k = k * e /\ d * k = k * d /\ k * e \in Nat /\ k * d \in Nat
          <6>. HIDE DEF d, e, k
          <6>. QED  BY <4>3, <4>6
        <5>. DEFINE t == k * e
                    u == k * d
        <5>3. t <= u /\ t \in Nat /\ u \in Nat /\ owed[o] + u <= Emulated + emulatedTimer
          BY <4>5, <5>1, <5>2
        <5>. HIDE DEF t, u
        <5>4. owed[o] + t <= Emulated + emulatedTimer
          BY <2>4, <4>6, <5>3
        <5>. QED  BY <5>4 DEF t
      <4>8. TurnAt(o, p)'
        <5>1. owed'[o] + (p - emulatedIT') * (Emulated \div Len(gameObjectsEmulated')) <= Emulated + emulatedTimer'
          BY <1>1, <4>6, <4>7
        <5>2. gameObjectsEmulated'[p] = o
          BY <2>3, <4>2, <4>5
        <5>. QED  BY <5>1, <5>2 DEF TurnAt, EmulatedInterval
      <4>. QED  BY <2>3, <4>1, <4>8
    <3>2. CASE owed[o] = Never
      <4>1. o \in away /\ owed'[o] = 0
        BY <1>3, <2>5, <3>2
      <4>2. PICK i \in 1 .. Len(more) : more[i] = o
        BY <2>2, <4>1
      <4>3. PICK p \in (it + 1) .. m : p = n + i
        BY <2>3, <2>4
      <4>. DEFINE e == Emulated \div m
                  k == p - it
      <4>4. m \in Nat \ {0} /\ k \in Nat /\ k <= m /\ list'[p] = o
        BY <2>3, <2>4, <4>2, <4>3
      <4>5. e \in Nat /\ Emulated = m * e
        BY <1>3, <4>4, RoundOfEmulated
      <4>6. k * e <= Emulated /\ k * e \in Nat
        <5>. HIDE DEF e, k, m
        <5>. QED  BY <4>4, <4>5, TimesMore
      <4>7. TurnAt(o, p)'
        <5>. DEFINE t == k * e
        <5>1. t \in Nat /\ t <= Emulated
          BY <4>6
        <5>. HIDE DEF t
        <5>2. 0 + t <= Emulated + emulatedTimer
          BY <2>4, <5>1
        <5>3. owed'[o] + (p - emulatedIT') * (Emulated \div Len(gameObjectsEmulated')) <= Emulated + emulatedTimer'
          BY <1>1, <4>1, <5>2 DEF t
        <5>. QED  BY <4>4, <5>3 DEF TurnAt, EmulatedInterval
      <4>. QED  BY <4>7
    <3>. QED  BY <3>1, <3>2
  <2>6. m <= MaxEmulated /\ emulatedIT' <= m
    BY <1>1, <1>3, <2>3, <2>4
  <2>. QED  BY <1>1, <2>5, <2>6 DEF EmulatedInv, AheadOf
<1>. QED  BY <1>2, <1>3, RefreshAppends

\* A turn of the list: its object is owed nothing, and each place ahead is a turn nearer.
LEMMA EmulatedTurn == TypeOK /\ TypeOK' /\ EmulatedInv /\ UpdateEmulated => EmulatedInv'
<1>. SUFFICES ASSUME TypeOK, TypeOK', EmulatedInv, UpdateEmulated PROVE EmulatedInv'
  OBVIOUS
<1>. DEFINE list == gameObjectsEmulated
            n == Len(list)
            d == Emulated \div n
            w == Wrapped(emulatedIT, list)
<1>1. /\ list # << >> /\ emulatedTimer > d
      /\ UpdateObject(list[w + 1]) /\ emulatedIT' = w + 1
      /\ emulatedTimer' = emulatedTimer - d
  BY DEF UpdateEmulated, EmulatedDue, EmulatedInterval
<1>2. UNCHANGED gameObjectsEmulated
  BY DEF UpdateEmulated, lists
<1>3. n \in Nat \ {0} /\ emulatedIT \in Nat /\ emulatedIT <= n /\ n <= MaxEmulated
  BY <1>1 DEF TypeOK, EmulatedInv
<1>4. w + 1 \in 1 .. n /\ w \in Nat /\ w = IF emulatedIT >= n THEN 0 ELSE emulatedIT
  BY <1>3 DEF Wrapped
<1>5. Emulated \in Nat /\ d \in Nat /\ Emulated = n * d
  BY <1>3, RoundOfEmulated
<1>6. emulatedTimer \in Nat /\ emulatedTimer' \in Nat
  BY DEF TypeOK
<1>7. ASSUME NEW o \in Roots, owed'[o] # Never
      PROVE  \E p \in (w + 2) .. n : TurnAt(o, p)'
  <2>1. o # list[w + 1] /\ owed'[o] = owed[o] /\ owed[o] \in Nat
    BY <1>1, <1>7 DEF UpdateObject, TypeOK
  <2>2. PICK p \in (emulatedIT + 1) .. n : TurnAt(o, p)
    BY <1>7, <2>1 DEF EmulatedInv, AheadOf
  <2>3. list[p] = o /\ owed[o] + (p - emulatedIT) * d <= Emulated + emulatedTimer
    BY <2>2 DEF TurnAt, EmulatedInterval
  <2>4. w = emulatedIT /\ p \in (w + 2) .. n
    BY <1>3, <1>4, <2>1, <2>2, <2>3
  <2>. DEFINE k == p - (w + 1)
              t == k * d
  <2>5. k \in Nat /\ p - emulatedIT = k + 1
    BY <1>4, <2>4
  <2>6. (p - emulatedIT) * d = t + d /\ t \in Nat
    <3>. HIDE DEF k, d
    <3>. QED  BY <1>5, <2>5, TimesSucc
  <2>7. owed[o] + (t + d) <= Emulated + emulatedTimer
    BY <2>3, <2>6
  <2>8. owed'[o] + t <= Emulated + emulatedTimer'
    <3>. HIDE DEF t, d
    <3>. QED  BY <1>1, <1>5, <1>6, <2>1, <2>6, <2>7
  <2>9. TurnAt(o, p)'
    BY <1>1, <1>2, <2>3, <2>8 DEF TurnAt, EmulatedInterval
  <2>. QED  BY <2>4, <2>9
<1>8. Len(gameObjectsEmulated') = n /\ emulatedIT' <= n /\ emulatedIT' + 1 = w + 2
  BY <1>1, <1>2, <1>4
<1>. QED  BY <1>2, <1>3, <1>7, <1>8 DEF EmulatedInv, AheadOf

\* Each step keeps EmulatedInv: what passes counts for what a root is owed and for
\* emulatedTimer alike, and a turn in range is a turn.
LEMMA EmulatedNext == TypeOK /\ TypeOK' /\ EmulatedInv /\ [Next]_vars => EmulatedInv'
<1>. SUFFICES ASSUME TypeOK, TypeOK', EmulatedInv, [Next]_vars PROVE EmulatedInv'
  OBVIOUS
<1>1. ASSUME UNCHANGED <<gameObjectsEmulated, emulatedIT, emulatedTimer>>,
             \A o \in Roots : owed'[o] = owed[o] \/ owed'[o] = Never
      PROVE  EmulatedInv'
  <2>1. ASSUME NEW o \in Roots, owed'[o] # Never
        PROVE  \E p \in AheadOf(emulatedIT) : TurnAt(o, p)'
    <3>1. owed'[o] = owed[o]
      BY <1>1, <2>1
    <3>2. PICK p \in AheadOf(emulatedIT) : TurnAt(o, p)
      BY <2>1, <3>1 DEF EmulatedInv
    <3>3. TurnAt(o, p)'
      BY <1>1, <3>1, <3>2 DEF TurnAt, EmulatedInterval
    <3>. QED  BY <3>3
  <2>. QED  BY <1>1, <2>1 DEF EmulatedInv, AheadOf
<1>2. CASE Iterate \/ Events \/ Begin \/ EndSimulated \/ Collide \/ UNCHANGED vars
  <2>1. UNCHANGED <<gameObjectsEmulated, emulatedIT, emulatedTimer, owed>>
    BY <1>2 DEF Iterate, Events, Begin, EndSimulated, Collide, lists, turns, timers, past, vars
  <2>. QED  BY <1>1, <2>1
<1>3. CASE UpdateSimulated
  <2>1. UNCHANGED <<gameObjectsEmulated, emulatedIT, emulatedTimer>>
    BY <1>3 DEF UpdateSimulated, lists
  <2>2. \A o \in Roots : owed'[o] = owed[o] \/ owed'[o] = Never
    BY <1>3 DEF UpdateSimulated, UpdateObject
  <2>. QED  BY <1>1, <2>1, <2>2
<1>4. CASE TimeManager
  <2>1. PICK d \in Deltas :
          /\ emulatedTimer' = emulatedTimer + d
          /\ owed' = [o \in Roots |-> IF owed[o] = Never THEN Never ELSE owed[o] + d]
    BY <1>4 DEF TimeManager
  <2>2. UNCHANGED <<gameObjectsEmulated, emulatedIT>>
    BY <1>4 DEF TimeManager, lists, turns
  <2>3. ASSUME NEW o \in Roots, owed'[o] # Never
        PROVE  \E p \in AheadOf(emulatedIT) : TurnAt(o, p)'
    <3>1. owed[o] # Never /\ owed'[o] = owed[o] + d
      BY <2>1, <2>3
    <3>2. PICK p \in AheadOf(emulatedIT) : TurnAt(o, p)
      BY <3>1 DEF EmulatedInv
    <3>3. d \in Nat /\ owed[o] \in Nat /\ emulatedTimer \in Nat /\ Emulated \in Nat /\ emulatedIT \in Nat
      BY <3>1, TimeAssumption DEF TypeOK
    <3>. DEFINE t == (p - emulatedIT) * EmulatedInterval
    <3>4. t \in Int
      <4>1. Len(gameObjectsEmulated) \in Nat \ {0} /\ p - emulatedIT \in Nat
        BY <3>2, <3>3 DEF AheadOf, TypeOK
      <4>2. EmulatedInterval \in Nat
        BY <3>3, <4>1, DivNat DEF EmulatedInterval
      <4>. QED  BY <4>1, <4>2
    <3>5. gameObjectsEmulated[p] = o /\ owed[o] + t <= Emulated + emulatedTimer
      BY <3>2 DEF TurnAt
    <3>6. t' = t
      BY <2>2 DEF EmulatedInterval
    <3>. HIDE DEF t
    <3>7. owed'[o] + t' <= Emulated + emulatedTimer'
      BY <2>1, <3>1, <3>3, <3>4, <3>5, <3>6
    <3>8. TurnAt(o, p)'
      BY <2>2, <3>5, <3>7 DEF TurnAt, t
    <3>. QED  BY <3>8
  <2>. QED  BY <2>2, <2>3 DEF EmulatedInv, AheadOf
<1>. QED  BY <1>2, <1>3, <1>4, EmulatedRefresh, EmulatedTurn DEF Next

\* A root that a refresh found out of range has its next turn in the time of a round,
\* although every refresh makes the list longer and leaves in it what it held.
THEOREM ServedInTimeHolds == Spec => []ServedInTime
<1>. DEFINE Inv == TypeOK /\ EmulatedInv
<1>1. Init => Inv
  BY TypeInit, EmulatedInit
<1>2. Inv /\ [Next]_vars => Inv'
  BY TypeNext, EmulatedNext
<1>3. Inv => ServedInTime
  <2>. SUFFICES ASSUME TypeOK, EmulatedInv, ~EmulatedDue, NEW o \in Roots
                PROVE  owed[o] <= Emulated
    BY DEF ServedInTime
  <2>. DEFINE n == Len(gameObjectsEmulated)
              d == Emulated \div n
  <2>1. CASE owed[o] = Never
    BY <2>1, TimeAssumption DEF Never
  <2>2. CASE owed[o] # Never
    <3>1. PICK p \in (emulatedIT + 1) .. n : TurnAt(o, p)
      BY <2>2 DEF EmulatedInv, AheadOf
    <3>2. /\ n \in Nat \ {0} /\ n <= MaxEmulated /\ gameObjectsEmulated # << >>
          /\ p - emulatedIT \in Nat \ {0} /\ owed[o] \in Nat
      BY <2>2, <3>1 DEF EmulatedInv, TypeOK
    <3>3. Emulated \in Nat /\ d \in Nat
      BY <3>2, RoundOfEmulated
    <3>4. emulatedTimer \in Nat /\ emulatedTimer <= d
      BY <3>2, <3>3 DEF EmulatedDue, EmulatedInterval, TypeOK
    <3>. DEFINE k == p - emulatedIT
                t == k * d
    <3>5. t \in Nat /\ d <= t
      <4>1. 1 * d <= k * d /\ k * d \in Nat
        <5>. HIDE DEF d, k
        <5>. QED  BY <3>2, <3>3, TimesMore DEF k
      <4>. QED  BY <3>3, <4>1
    <3>6. owed[o] + t <= Emulated + emulatedTimer
      BY <3>1 DEF TurnAt, EmulatedInterval
    <3>. HIDE DEF d, t
    <3>. QED  BY <3>2, <3>3, <3>4, <3>5, <3>6
  <2>. QED  BY <2>1, <2>2
<1>. QED  BY <1>1, <1>2, <1>3, PTL DEF Spec
=============================================================================
