------------------------------ MODULE PartsProofs ------------------------------
(***************************************************************************)
(* What holds of the three parts, for any values of their constants.       *)
(*                                                                         *)
(* Of a pass of the collision handler, whatever the objects are, wherever  *)
(* they are and whatever the quadtree finds: its flags, where it moves     *)
(* what, the sum of the positions, and two circles that meet nothing else. *)
(*                                                                         *)
(* Of a File, whatever is put into it and wherever a Save() is cut short:  *)
(* its bytes are those of the values, laid end to end.                     *)
(*                                                                         *)
(* Of Input, whoever calls it: its flags tell what has happened.           *)
(***************************************************************************)
EXTENDS Parts, FiniteSetTheorems, SequenceTheorems, Recursion, TLAPS

LOCAL INSTANCE SequencesExt  \* SetToSeqs

-----------------------------------------------------------------------------
(* Collision: the flags *)

\* From the first loop on IsColliding and the pairs agree on the objects in range;
\* before it nothing has met.
FlagsAgree ==
    /\ pass = "before" => pairs = {}
    /\ pass # "before" => IsColliding \cap simulated = Met \cap simulated

\* A collision sets the flags of the two it adds to the pairs.
LEMMA GiveKeepsFlags ==
    ASSUME NEW a, NEW b, NEW c, Give(a, b, c), UNCHANGED simulated,
           IsColliding \cap simulated = Met \cap simulated
    PROVE  (IsColliding \cap simulated = Met \cap simulated)'
<1>1. IsColliding' = IsColliding \cup {a, b} /\ pairs' = pairs \cup {{a, b}}
  BY DEF Give
<1>2. Met' = Met \cup {a, b}
  BY <1>1 DEF Met
<1>. QED  BY <1>1, <1>2

\* Each step keeps flags and pairs in agreement.
LEMMA FlagsNext == FlagsAgree /\ [Next]_vars => FlagsAgree'
<1>. SUFFICES ASSUME FlagsAgree, [Next]_vars PROVE FlagsAgree'
  OBVIOUS
<1>1. CASE BeginPass
  <2>1. PICK S \in SUBSET Objects : simulated' = S /\ IsColliding' = IsColliding \ S
    BY <1>1 DEF BeginPass
  <2>2. pairs' = {} /\ pass' # "before"
    BY <1>1 DEF BeginPass, FlagsAgree
  <2>3. Met' = {}
    BY <2>2 DEF Met
  <2>. QED  BY <2>1, <2>2, <2>3 DEF FlagsAgree
<1>2. CASE NextBody
  BY <1>2 DEF NextBody, FlagsAgree, Met
<1>3. CASE EndBody
  BY <1>3 DEF EndBody, FlagsAgree, Met
<1>4. ASSUME NEW b \in Objects, Check(b) PROVE FlagsAgree'
  <2>1. pass = "others" /\ pass' \in {"others", "undefined"} /\ UNCHANGED simulated
    BY <1>4 DEF Check
  <2>2. IsColliding \cap simulated = Met \cap simulated
    BY <2>1 DEF FlagsAgree
  <2>3. \/ UNCHANGED <<IsColliding, pairs>>
        \/ \E c \in resolve(Head(rbs), b) : Give(Head(rbs), b, c)
    BY <1>4 DEF Check
  <2>4. (IsColliding \cap simulated = Met \cap simulated)'
    <3>1. CASE UNCHANGED <<IsColliding, pairs>>
      BY <2>1, <2>2, <3>1 DEF Met
    <3>2. CASE \E c \in resolve(Head(rbs), b) : Give(Head(rbs), b, c)
      BY <2>1, <2>2, <3>2, GiveKeepsFlags
    <3>. QED  BY <2>3, <3>1, <3>2
  <2>. QED  BY <2>1, <2>4 DEF FlagsAgree
<1>5. CASE UNCHANGED vars
  BY <1>5 DEF vars, turn, FlagsAgree, Met
<1>. QED  BY <1>1, <1>2, <1>3, <1>4, <1>5 DEF Next

\* When the pass is over, IsColliding of an object in range says whether it has been
\* in a collision of this pass, in whatever order the bodies met.
THEOREM FlagsAreOfThisPass == Spec => []FlagsOfThisPass
<1>1. Init => FlagsAgree
  BY DEF Init, FlagsAgree
<1>2. FlagsAgree => FlagsOfThisPass
  BY DEF FlagsAgree, FlagsOfThisPass
<1>. QED  BY <1>1, <1>2, FlagsNext, PTL DEF Spec
-----------------------------------------------------------------------------
(* Collision: positions *)

\* Positions are numbers, and whose turn it is has a RigidBody.
Placed ==
    /\ position \in [Objects -> Int]
    /\ rbs \in Seq(Bodies)
    /\ pass \in {"bodies", "others"} => rbs # << >>

SInv == Placed /\ StaticsStay

\* A collision's axis is a sign, or NaN; its overlap is a number.
LEMMA ResolveType ==
    ASSUME Placed, NEW a \in Objects, NEW b \in Objects, ~({a, b} \subseteq Polys),
           NEW c \in resolve(a, b)
    PROVE  c.axis \in Int /\ c.overlap \in Int
<1>. USE CollisionAssumption
<1>1. ASSUME NEW p \in Circles, NEW q \in Circles, NEW d \in CircleVsCircle(p, q)
      PROVE  d.axis \in Int /\ d.overlap \in Int
  <2>1. position[p] \in Int /\ position[q] \in Int /\ Radius[p] \in Nat /\ Radius[q] \in Nat
    BY DEF Placed, Objects
  <2>. QED  BY <2>1, <1>1 DEF CircleVsCircle, Abs, Sign
<1>2. ASSUME NEW p \in Circles, NEW q \in Polys, NEW d \in circleVsPoly(p, q)
      PROVE  d.axis \in Int /\ d.overlap \in Int
  <2>1. position[p] \in Int /\ position[q] \in Int /\ Radius[p] \in Nat /\ HalfWidth[q] \in Nat
    BY DEF Placed, Objects
  <2>2. Edges(q) \subseteq Int
    BY <2>1 DEF Edges
  <2>3. CASE d = [axis |-> 0, overlap |-> One]
    BY <2>3
  <2>4. CASE \E e \in Edges(q) :
               d = [axis |-> IF e = position[p] THEN NaN ELSE Sign(position[p] - e),
                    overlap |-> Radius[p] - Abs(position[p] - e) + One]
    BY <2>1, <2>2, <2>4 DEF NaN, Sign, Abs
  <2>. QED  BY <1>2, <2>3, <2>4 DEF circleVsPoly
<1>3. CASE a \in Circles /\ b \in Circles
  BY <1>1, <1>3 DEF resolve
<1>4. CASE a \in Circles /\ b \in Polys
  BY <1>2, <1>4 DEF resolve
<1>5. CASE a \in Polys /\ b \in Circles
  BY <1>2, <1>5 DEF resolve
<1>. QED  BY <1>3, <1>4, <1>5 DEF Objects

\* A collision moves, and loses, only those of the two that have a RigidBody.
LEMMA GiveKeepsStatics ==
    ASSUME SInv, NEW a \in Objects, NEW b \in Objects, a # b, UNCHANGED start,
           NEW c, c.axis \in Int, c.overlap \in Int, Give(a, b, c)
    PROVE  position' \in [Objects -> Int] /\ StaticsStay'
<1>. DEFINE h == Halves(a, b)
            push == c.axis * c.overlap
<1>1. push \in Int
  OBVIOUS
<1>2. /\ h[1] \in Int /\ h[2] \in Int
      /\ a \notin Bodies => h[1] = 0
      /\ b \notin Bodies => h[2] = 0
  BY DEF Halves
<1>3. position \in [Objects -> Int]
  BY DEF SInv, Placed
<1>4. CASE c.axis = NaN
  <2>1. position' = position /\ lost' \subseteq lost \cup Bodies
    BY <1>2, <1>4 DEF Give
  <2>. QED  BY <1>3, <2>1 DEF SInv, StaticsStay
<1>5. CASE c.axis # NaN
  <2>1. lost' = lost
    BY <1>5 DEF Give
  <2>2. position' = [position EXCEPT ![a] = @ + (push * h[1]) \div 2,
                                     ![b] = @ - (push * h[2]) \div 2]
    BY <1>5 DEF Give
  <2>3. (push * h[1]) \div 2 \in Int /\ (push * h[2]) \div 2 \in Int
    BY <1>1, <1>2
  <2>4. a \notin Bodies => (push * h[1]) \div 2 = 0
    BY <1>1, <1>2
  <2>5. b \notin Bodies => (push * h[2]) \div 2 = 0
    BY <1>1, <1>2
  <2>. HIDE DEF h, push
  <2>6. position' \in [Objects -> Int]
    BY <1>3, <2>2, <2>3
  <2>7. ASSUME NEW o \in Objects \ Bodies PROVE position'[o] = position[o]
    BY <1>3, <2>2, <2>4, <2>5
  <2>. QED  BY <2>1, <2>6, <2>7 DEF SInv, StaticsStay
<1>. QED  BY <1>4, <1>5

\* Each step leaves the static colliders where they are.
LEMMA StaticsNext == SInv /\ [Next]_vars => SInv'
<1>. SUFFICES ASSUME SInv, [Next]_vars PROVE SInv'
  OBVIOUS
<1>. USE DEF SInv, Placed
<1>1. CASE BeginPass
  <2>1. PICK S \in SUBSET Objects : rbs' \in SetToSeqs(S \cap Bodies)
    BY <1>1 DEF BeginPass
  <2>2. rbs' \in Seq(Bodies)
    <3>. DEFINE n == Cardinality(S \cap Bodies)
    <3>1. IsFiniteSet(S \cap Bodies)
      BY CollisionAssumption, FS_Subset
    <3>2. n \in Nat
      BY <3>1, FS_CardinalityType
    <3>3. rbs' \in [1 .. n -> S \cap Bodies]
      BY <2>1 DEF SetToSeqs
    <3>. HIDE DEF n
    <3>4. rbs' \in Seq(S \cap Bodies)
      BY <3>2, <3>3
    <3>. QED  BY <3>4
  <2>. QED  BY <1>1, <2>2 DEF BeginPass, StaticsStay
<1>2. CASE NextBody
  BY <1>2 DEF NextBody, StaticsStay
<1>3. CASE EndBody
  BY <1>3 DEF EndBody, StaticsStay
<1>4. ASSUME NEW b \in Objects, Check(b) PROVE SInv'
  <2>1. pass = "others" /\ UNCHANGED <<rbs, start>>
    BY <1>4 DEF Check
  <2>2. Head(rbs) \in Objects
    BY <2>1, CollisionAssumption
  <2>3. CASE UNCHANGED <<position, lost>>
    BY <1>4, <2>1, <2>3 DEF Check, StaticsStay
  <2>4. CASE /\ Head(rbs) # b /\ ~({Head(rbs), b} \subseteq Polys) /\ pass' = pass
             /\ \E c \in resolve(Head(rbs), b) : Give(Head(rbs), b, c)
    BY <1>4, <2>1, <2>2, <2>4, ResolveType, GiveKeepsStatics
  <2>. QED  BY <1>4, <2>3, <2>4 DEF Check
<1>5. CASE UNCHANGED vars
  BY <1>5 DEF vars, turn, StaticsStay
<1>. QED  BY <1>1, <1>2, <1>3, <1>4, <1>5 DEF Next

\* A collider without a RigidBody stays where it is, whatever meets it and however often.
THEOREM StaticsAreStatic == Spec => []StaticsStay
<1>1. Init => SInv
  <2>. SUFFICES ASSUME Init PROVE SInv
    OBVIOUS
  <2>1. position \in [Objects -> Int]
    BY CollisionAssumption DEF Init
  <2>2. rbs \in Seq(Bodies) /\ pass = "before"
    BY DEF Init
  <2>3. StaticsStay
    BY DEF Init, StaticsStay
  <2>. QED  BY <2>1, <2>2, <2>3 DEF SInv, Placed
<1>2. SInv => StaticsStay
  BY DEF SInv
<1>. QED  BY <1>1, <1>2, StaticsNext, PTL DEF Spec
-----------------------------------------------------------------------------
(* Sums over sets *)

\* With the function in place of the operator that MapThenSumSet takes
SumOver(f, S) == MapThenSumSet(LAMBDA o : f[o], S)

Chosen(s) == CHOOSE x \in s : TRUE

\* F gives the sum of f over each set in D, in the order in which MapThenSumSet goes.
Sums(F, f, D) == F = [s \in D |-> IF s = {} THEN 0 ELSE f[Chosen(s)] + F[s \ {Chosen(s)}]]

Smaller(S, n) == {s \in SUBSET S : Cardinality(s) <= n}

\* Without the one that is chosen, a set is a smaller one.
LEMMA WithoutChosen ==
    ASSUME NEW S, IsFiniteSet(S), NEW n \in Nat, NEW s \in Smaller(S, n + 1), s # {}
    PROVE  Chosen(s) \in s /\ s \ {Chosen(s)} \in Smaller(S, n)
<1>1. Chosen(s) \in s
  BY DEF Chosen
<1>2. IsFiniteSet(s) /\ s \in SUBSET S /\ Cardinality(s) <= n + 1
  BY FS_Subset DEF Smaller
<1>3. Cardinality(s \ {Chosen(s)}) = Cardinality(s) - 1 /\ Cardinality(s) \in Nat
  BY <1>1, <1>2, FS_RemoveElement, FS_CardinalityType
<1>. QED  BY <1>1, <1>2, <1>3 DEF Smaller

\* The subsets of S are its subsets with no more members than S; the one with none is {}.
LEMMA SubsetsBySize ==
    ASSUME NEW S, IsFiniteSet(S)
    PROVE  /\ SUBSET S = Smaller(S, Cardinality(S)) /\ Cardinality(S) \in Nat
           /\ Smaller(S, 0) = {{}}
<1>1. Cardinality(S) \in Nat /\ \A s \in SUBSET S : IsFiniteSet(s) /\ Cardinality(s) <= Cardinality(S)
  BY FS_Subset, FS_CardinalityType
<1>2. \A s \in SUBSET S : Cardinality(s) \in Nat /\ (Cardinality(s) = 0 <=> s = {})
  BY <1>1, FS_CardinalityType, FS_EmptySet
<1>3. {} \in SUBSET S /\ Cardinality({}) = 0
  BY FS_EmptySet
<1>. QED  BY <1>1, <1>2, <1>3 DEF Smaller

\* There are such sums.
LEMMA SumsExist ==
    ASSUME NEW S, IsFiniteSet(S), NEW f
    PROVE  \E F : Sums(F, f, SUBSET S)
<1>. DEFINE T == {n \in Nat : \E F : Sums(F, f, Smaller(S, n))}
<1>1. 0 \in T
  <2>1. Sums([s \in {{}} |-> 0], f, {{}})
    BY DEF Sums
  <2>. QED  BY <2>1, SubsetsBySize
<1>2. ASSUME NEW n \in Nat, n \in T PROVE n + 1 \in T
  <2>1. PICK F : Sums(F, f, Smaller(S, n))
    BY <1>2
  <2>. DEFINE D == Smaller(S, n + 1)
              G == [s \in D |-> IF s = {} THEN 0 ELSE f[Chosen(s)] + F[s \ {Chosen(s)}]]
  <2>2. \A s \in Smaller(S, n) : s \in D /\ F[s] = G[s]
    <3>1. \A s \in Smaller(S, n) : s \in D
      <4>1. \A s \in SUBSET S : Cardinality(s) \in Nat
        BY FS_Subset, FS_CardinalityType
      <4>. QED  BY <4>1 DEF Smaller
    <3>2. \A s \in Smaller(S, n) : F[s] = IF s = {} THEN 0 ELSE f[Chosen(s)] + F[s \ {Chosen(s)}]
      BY <2>1 DEF Sums
    <3>. QED  BY <3>1, <3>2
  <2>3. \A s \in D : s # {} => F[s \ {Chosen(s)}] = G[s \ {Chosen(s)}]
    BY <2>2, WithoutChosen
  <2>4. Sums(G, f, D)
    <3>1. G = [s \in D |-> IF s = {} THEN 0 ELSE f[Chosen(s)] + G[s \ {Chosen(s)}]]
      BY <2>3
    <3>. HIDE DEF G
    <3>. QED  BY <3>1 DEF Sums
  <2>. HIDE DEF G
  <2>. QED  BY <2>4
<1>3. Cardinality(S) \in T
  <2>. HIDE DEF T
  <2>. QED  BY <1>1, <1>2, SetInduction, SubsetsBySize
<1>. QED  BY <1>3, SubsetsBySize

\* What one of a set gains and another loses leaves the sum as it was.
LEMMA SumKept ==
    ASSUME NEW S, IsFiniteSet(S), NEW f, \A x \in S : f[x] \in Int,
           NEW a \in S, NEW b \in S, a # b, NEW k \in Int,
           NEW g, \A x \in S : g[x] = IF x = a THEN f[x] + k ELSE IF x = b THEN f[x] - k ELSE f[x]
    PROVE  SumOver(g, S) = SumOver(f, S)
<1>. DEFINE F == CHOOSE F : Sums(F, f, SUBSET S)
            G == CHOOSE G : Sums(G, g, SUBSET S)
            Gain(x, s) == IF x \in s THEN k ELSE 0
            Kept(s) == F[s] \in Int /\ G[s] = F[s] + Gain(a, s) - Gain(b, s)
            T == {n \in Nat : \A s \in Smaller(S, n) : Kept(s)}
<1>1. SumOver(f, S) = F[S] /\ SumOver(g, S) = G[S]
  BY DEF SumOver, MapThenSumSet, MapThenFoldSet, Sums, Chosen
<1>2. Sums(F, f, SUBSET S) /\ Sums(G, g, SUBSET S)
  BY SumsExist
<1>3. /\ \A s \in SUBSET S : F[s] = IF s = {} THEN 0 ELSE f[Chosen(s)] + F[s \ {Chosen(s)}]
      /\ \A s \in SUBSET S : G[s] = IF s = {} THEN 0 ELSE g[Chosen(s)] + G[s \ {Chosen(s)}]
  <2>. HIDE DEF F, G
  <2>. QED  BY <1>2 DEF Sums
<1>. HIDE DEF F, G
<1>a. Kept({})
  <2>1. F[{}] = 0 /\ G[{}] = 0
    BY <1>3
  <2>. QED  BY <2>1
<1>4. 0 \in T
  <2>. HIDE DEF Kept
  <2>. QED  BY <1>a, SubsetsBySize
<1>5. ASSUME NEW n \in Nat, n \in T PROVE n + 1 \in T
  <2>. SUFFICES ASSUME NEW s \in Smaller(S, n + 1) PROVE Kept(s)
    OBVIOUS
  <2>0. s \in SUBSET S
    BY DEF Smaller
  <2>1. CASE s = {}
    BY <1>a, <2>1
  <2>2. CASE s # {}
    <3>. DEFINE x == Chosen(s)
                r == s \ {x}
    <3>1. x \in s /\ r \in Smaller(S, n)
      BY <2>2, WithoutChosen
    <3>. HIDE DEF x
    <3>2. Kept(r)
      BY <1>5, <3>1
    <3>3. F[s] = f[x] + F[r] /\ G[s] = g[x] + G[r]
      BY <1>3, <2>0, <2>2 DEF x
    <3>4. /\ x \in S /\ f[x] \in Int
          /\ g[x] = IF x = a THEN f[x] + k ELSE IF x = b THEN f[x] - k ELSE f[x]
      BY <2>0, <3>1
    <3>5. /\ Gain(a, s) = (IF x = a THEN k ELSE 0) + Gain(a, r)
          /\ Gain(b, s) = (IF x = b THEN k ELSE 0) + Gain(b, r)
      BY <3>1
    <3>6. F[r] \in Int /\ G[r] = F[r] + Gain(a, r) - Gain(b, r) /\ Gain(a, r) \in Int /\ Gain(b, r) \in Int
      BY <3>2
    <3>. HIDE DEF Gain, r
    <3>. QED  BY <3>3, <3>4, <3>5, <3>6
  <2>. QED  BY <2>1, <2>2
<1>6. \A s \in SUBSET S : Kept(s)
  <2>1. Cardinality(S) \in T
    <3>. HIDE DEF T
    <3>. QED  BY <1>4, <1>5, SetInduction, SubsetsBySize
  <2>. QED  BY <2>1, SubsetsBySize
<1>7. G[S] = F[S] + k - k /\ F[S] \in Int
  BY <1>6
<1>. QED  BY <1>1, <1>7

-----------------------------------------------------------------------------
(* Collision: where the two are moved to *)

\* A collision that is found is that of two objects, the first of which has a RigidBody.
LEMMA Found ==
    ASSUME Placed, pass = "others", NEW b \in Objects, Check(b), ~UNCHANGED <<position, lost, pairs>>
    PROVE  /\ Head(rbs) \in Bodies /\ Head(rbs) # b /\ ~({Head(rbs), b} \subseteq Polys)
           /\ \E c \in resolve(Head(rbs), b) :
                 /\ c.axis \in Int /\ c.overlap \in Int
                 /\ Give(Head(rbs), b, c)
<1>1. Head(rbs) \in Bodies /\ Head(rbs) \in Objects
  BY CollisionAssumption DEF Placed
<1>2. /\ Head(rbs) # b /\ ~({Head(rbs), b} \subseteq Polys)
      /\ \E c \in resolve(Head(rbs), b) : Give(Head(rbs), b, c)
  BY DEF Check
<1>. QED  BY <1>1, <1>2, ResolveType

\* From its types every step leads to its types.
LEMMA TypeNext == TypeOK /\ SInv /\ [Next]_vars => TypeOK'
<1>. SUFFICES ASSUME TypeOK, SInv, [Next]_vars PROVE TypeOK'
  OBVIOUS
<1>0. SInv'
  BY StaticsNext
<1>. USE DEF TypeOK
<1>1. CASE BeginPass
  <2>1. PICK S \in SUBSET Objects : simulated' = S /\ IsColliding' = IsColliding \ S
    BY <1>1 DEF BeginPass
  <2>2. pass' \in {"bodies", "after"}
    BY <1>1 DEF BeginPass
  <2>. QED  BY <1>0, <1>1, <2>1, <2>2 DEF BeginPass, SInv, Placed
<1>2. CASE NextBody
  BY <1>2 DEF NextBody
<1>3. CASE EndBody
  <2>1. pass' \in {"bodies", "after"}
    BY <1>3 DEF EndBody
  <2>. QED  BY <1>0, <1>3, <2>1 DEF EndBody, SInv, Placed
<1>4. ASSUME NEW b \in Objects, Check(b) PROVE TypeOK'
  <2>1. /\ pass = "others" /\ pass' \in {"others", "undefined"} /\ others' = others \ {b}
        /\ UNCHANGED <<simulated, rbs, start>>
    BY <1>4 DEF Check
  <2>2. Head(rbs) \in Objects
    BY <2>1, CollisionAssumption DEF SInv, Placed
  <2>3. lost' \subseteq Objects /\ IsColliding' \subseteq Objects /\ pairs' \subseteq SUBSET Objects
    <3>1. CASE UNCHANGED <<lost, IsColliding, pairs>>
      BY <3>1
    <3>2. CASE \E c \in resolve(Head(rbs), b) : Give(Head(rbs), b, c)
      <4>1. /\ lost' \subseteq lost \cup {Head(rbs), b}
            /\ IsColliding' = IsColliding \cup {Head(rbs), b}
            /\ pairs' = pairs \cup {{Head(rbs), b}}
        BY <3>2 DEF Give
      <4>. QED  BY <2>2, <4>1
    <3>. QED  BY <1>4, <3>1, <3>2 DEF Check
  <2>. QED  BY <1>0, <2>1, <2>3 DEF SInv, Placed
<1>5. CASE UNCHANGED vars
  BY <1>5 DEF vars, turn
<1>. QED  BY <1>1, <1>2, <1>3, <1>4, <1>5 DEF Next

\* The types hold at first, and so does that nothing static has moved.
LEMMA PlacedInit == Init => TypeOK /\ SInv
<1>. SUFFICES ASSUME Init PROVE TypeOK /\ SInv
  OBVIOUS
<1>1. position \in [Objects -> Int] /\ start \in [Objects -> Places]
  BY CollisionAssumption DEF Init
<1>2. rbs \in Seq(Bodies) /\ pass = "before"
  BY DEF Init
<1>. QED  BY <1>1, <1>2 DEF Init, TypeOK, SInv, Placed, StaticsStay

\* What one body gives way, the other does too; so as long as only bodies have met and
\* none is lost, their centre is where it was.
CentreKept ==
    Met \subseteq Bodies /\ lost = {} =>
        SumOver(position, Bodies) = SumOver(start, Bodies)

\* Each step keeps the centre.
LEMMA CentreNext == TypeOK /\ SInv /\ CentreKept /\ [Next]_vars => CentreKept'
<1>. SUFFICES ASSUME TypeOK, SInv, CentreKept, [Next]_vars, Met' \subseteq Bodies, lost' = {}
              PROVE  SumOver(position', Bodies) = SumOver(start', Bodies)
  BY DEF CentreKept
<1>1. CASE UNCHANGED <<position, lost, start, pairs>>
  <2>1. position' = position /\ start' = start /\ Met \subseteq Bodies /\ lost = {}
    BY <1>1 DEF Met
  <2>. QED  BY <2>1 DEF CentreKept
<1>2. ASSUME NEW b \in Objects, Check(b), ~UNCHANGED <<position, lost, pairs>>
      PROVE  SumOver(position', Bodies) = SumOver(start', Bodies)
  <2>. DEFINE a == Head(rbs)
  <2>1. pass = "others" /\ start' = start
    BY <1>2 DEF Check
  <2>2. a \in Bodies /\ a # b
    BY <1>2, <2>1, Found DEF SInv
  <2>3. PICK c : c.axis \in Int /\ c.overlap \in Int /\ Give(a, b, c)
    BY <1>2, <2>1, Found DEF SInv
  <2>4. pairs' = pairs \cup {{a, b}} /\ lost \subseteq lost'
    BY <2>3 DEF Give
  <2>5. b \in Bodies /\ Met \subseteq Bodies /\ lost = {}
    BY <2>4 DEF Met
  <2>6. Halves(a, b) = <<1, 1>>
    BY <2>2, <2>5 DEF Halves
  <2>. DEFINE k == (c.axis * c.overlap * 1) \div 2
  <2>7. k \in Int
    BY <2>3
  <2>8. position' = [position EXCEPT ![a] = @ + k, ![b] = @ - k]
    <3>1. CASE c.axis = NaN
      <4>1. a \in lost'
        BY <2>3, <2>6, <3>1 DEF Give
      <4>. QED  BY <4>1
    <3>. QED  BY <2>3, <2>6, <3>1 DEF Give
  <2>. HIDE DEF a, k
  <2>9. IsFiniteSet(Bodies) /\ \A o \in Bodies : o \in Objects
    BY CollisionAssumption, FS_Subset
  <2>10. \A o \in Bodies :
            /\ position[o] \in Int
            /\ position'[o] = IF o = a THEN position[o] + k
                              ELSE IF o = b THEN position[o] - k ELSE position[o]
    BY <2>2, <2>7, <2>8, <2>9 DEF TypeOK
  <2>11. SumOver(position', Bodies) = SumOver(position, Bodies)
    BY <2>2, <2>5, <2>7, <2>9, <2>10, SumKept
  <2>. QED  BY <2>1, <2>5, <2>11 DEF CentreKept
<1>3. \/ UNCHANGED <<position, lost, start, pairs>>
      \/ \E b \in Objects : Check(b) /\ UNCHANGED start
  BY DEF Next, BeginPass, NextBody, EndBody, Check, vars, turn
<1>. QED  BY <1>1, <1>2, <1>3

\* The state has its types; and as long as only bodies have met, and none is lost, the
\* centre of all bodies stays where it was, however their pushes follow each other.
THEOREM CentreStaysHolds == Spec => []CentreStays
<1>. DEFINE Inv == TypeOK /\ SInv /\ CentreKept
<1>1. Init => Inv
  <2>. SUFFICES ASSUME Init PROVE CentreKept
    BY PlacedInit
  <2>. QED  BY DEF Init, CentreKept
<1>2. Inv /\ [Next]_vars => Inv'
  BY TypeNext, StaticsNext, CentreNext
<1>3. Inv => CentreStays
  BY DEF CentreKept, CentreStays, SumOver
<1>. QED  BY <1>1, <1>2, <1>3, PTL DEF Spec

-----------------------------------------------------------------------------
(* Collision: two circles *)

Apart(a, b) == Abs(position[a] - position[b]) >= Radius[a] + Radius[b]

\* A pair has two members, and when it is the only one, and of circles, they are apart.
PairsParted ==
    /\ \A p \in pairs : \E a, b \in Objects : a # b /\ p = {a, b}
    /\ \A a, b \in Circles : pairs = {{a, b}} => Apart(a, b)

\* The push is as long as the two overlap, and a little longer: 1.f is more than the
\* half that may be missing from the two halves.
LEMMA CirclesPart ==
    ASSUME Placed, NEW a \in Circles, NEW b \in Circles, a # b, a \in Bodies,
           NEW c \in resolve(a, b), Give(a, b, c)
    PROVE  Apart(a, b)'
<1>. DEFINE x == position[a]
            y == position[b]
            d == Abs(x - y)
            m == Radius[a] + Radius[b]
<1>1. x \in Int /\ y \in Int /\ m \in Nat /\ One \in Nat \ {0} /\ a \in Objects /\ b \in Objects
  BY CollisionAssumption DEF Placed, Objects
<1>2. c \in CircleVsCircle(a, b)
  BY CollisionAssumption DEF resolve
<1>3. d < m /\ d # 0 /\ c.axis = Sign(x - y) /\ c.overlap = m - d + One
  BY <1>2 DEF CircleVsCircle
<1>4. c.axis # NaN
  BY <1>1, <1>3 DEF Sign, NaN
<1>5. position' = [position EXCEPT ![a] = @ + (c.axis * c.overlap * Halves(a, b)[1]) \div 2,
                                   ![b] = @ - (c.axis * c.overlap * Halves(a, b)[2]) \div 2]
  BY <1>4 DEF Give
<1>6. Halves(a, b) = <<1, 1>> \/ Halves(a, b) = <<2, 0>>
  BY DEF Halves
<1>7. /\ position'[a] = x + (c.axis * c.overlap * Halves(a, b)[1]) \div 2
      /\ position'[b] = y - (c.axis * c.overlap * Halves(a, b)[2]) \div 2
  BY <1>1, <1>5 DEF Placed
<1>. DEFINE v == m - d + One
<1>8. v \in Nat /\ v >= m - d + 1 /\ d \in Nat /\ c.overlap = v
  BY <1>1, <1>3 DEF Abs
<1>. HIDE DEF x, y, m, v
<1>9. CASE x > y
  <2>1. c.axis = 1 /\ d = x - y
    BY <1>1, <1>3, <1>9 DEF Sign, Abs
  <2>2. c.axis * c.overlap = v
    BY <1>8, <2>1
  <2>3. position'[a] - position'[b] >= m
    <3>1. CASE Halves(a, b) = <<1, 1>>
      <4>1. position'[a] = x + (v * 1) \div 2 /\ position'[b] = y - (v * 1) \div 2
        BY <1>7, <2>2, <3>1
      <4>. HIDE DEF d
      <4>. QED  BY <1>1, <1>8, <2>1, <4>1
    <3>2. CASE Halves(a, b) = <<2, 0>>
      <4>1. position'[a] = x + (v * 2) \div 2 /\ position'[b] = y - (v * 0) \div 2
        BY <1>7, <2>2, <3>2
      <4>. HIDE DEF d
      <4>. QED  BY <1>1, <1>8, <2>1, <4>1
    <3>. QED  BY <1>6, <3>1, <3>2
  <2>4. position'[a] \in Int /\ position'[b] \in Int
    <3>1. \A h \in {0, 1, 2} : (v * h) \div 2 \in Int
      BY <1>8
    <3>. QED  BY <1>1, <1>6, <1>7, <2>2, <3>1
  <2>. QED  BY <1>1, <2>3, <2>4 DEF Apart, Abs, m
<1>10. CASE x < y
  <2>1. c.axis = -1 /\ d = y - x
    BY <1>1, <1>3, <1>10 DEF Sign, Abs
  <2>2. c.axis * c.overlap = -v
    BY <1>8, <2>1
  <2>3. position'[b] - position'[a] >= m
    <3>1. CASE Halves(a, b) = <<1, 1>>
      <4>1. position'[a] = x + ((-v) * 1) \div 2 /\ position'[b] = y - ((-v) * 1) \div 2
        BY <1>7, <2>2, <3>1
      <4>. HIDE DEF d
      <4>. QED  BY <1>1, <1>8, <2>1, <4>1
    <3>2. CASE Halves(a, b) = <<2, 0>>
      <4>1. position'[a] = x + ((-v) * 2) \div 2 /\ position'[b] = y - ((-v) * 0) \div 2
        BY <1>7, <2>2, <3>2
      <4>. HIDE DEF d
      <4>. QED  BY <1>1, <1>8, <2>1, <4>1
    <3>. QED  BY <1>6, <3>1, <3>2
  <2>4. position'[a] \in Int /\ position'[b] \in Int
    <3>1. \A h \in {0, 1, 2} : ((-v) * h) \div 2 \in Int
      BY <1>8
    <3>. QED  BY <1>1, <1>6, <1>7, <2>2, <3>1
  <2>5. Radius' = Radius
    OBVIOUS
  <2>. QED  BY <1>1, <2>3, <2>4 DEF Apart, Abs, m
<1>. QED  BY <1>1, <1>3, <1>9, <1>10 DEF Abs

\* Each step keeps the only pair apart.
LEMMA PairsNext == SInv /\ PairsParted /\ [Next]_vars => PairsParted'
<1>. SUFFICES ASSUME SInv, PairsParted, [Next]_vars PROVE PairsParted'
  OBVIOUS
<1>1. CASE UNCHANGED <<position, pairs>>
  BY <1>1 DEF PairsParted, Apart
<1>2. CASE BeginPass
  BY <1>2, <1>1 DEF BeginPass
<1>3. ASSUME NEW b \in Objects, Check(b), ~UNCHANGED <<position, lost, pairs>> PROVE PairsParted'
  <2>. PICK a : a = Head(rbs)
    OBVIOUS
  <2>1. pass = "others"
    BY <1>3 DEF Check
  <2>2. a \in Bodies /\ a # b /\ a \in Objects
    BY <1>3, <2>1, Found, CollisionAssumption DEF SInv
  <2>3. PICK c \in resolve(a, b) : Give(a, b, c)
    BY <1>3, <2>1, Found DEF SInv
  <2>4. pairs' = pairs \cup {{a, b}}
    BY <2>3 DEF Give
  <2>5. ASSUME NEW p \in pairs' PROVE \E q, r \in Objects : q # r /\ p = {q, r}
    BY <2>2, <2>4, <2>5 DEF PairsParted
  <2>6. ASSUME NEW q \in Circles, NEW r \in Circles, pairs' = {{q, r}} PROVE Apart(q, r)'
    <3>1. {a, b} = {q, r}
      BY <2>4, <2>6
    <3>2. a \in Circles /\ b \in Circles
      BY <3>1
    <3>3. Apart(a, b)'
      BY <2>2, <2>3, <3>2, CirclesPart DEF SInv
    <3>4. (q = a /\ r = b) \/ (q = b /\ r = a)
      BY <2>2, <3>1
    <3>5. Apart(b, a)'
      <4>1. SInv'
        BY StaticsNext
      <4>2. position'[a] \in Int /\ position'[b] \in Int /\ Radius[a] \in Nat /\ Radius[b] \in Nat
        BY <2>2, <3>2, <4>1, CollisionAssumption DEF SInv, Placed
      <4>. QED  BY <3>3, <4>2 DEF Apart, Abs
    <3>. QED  BY <3>3, <3>4, <3>5
  <2>. QED  BY <2>5, <2>6 DEF PairsParted
<1>4. \/ UNCHANGED <<position, pairs>>
      \/ \E b \in Objects : Check(b)
  BY DEF Next, BeginPass, NextBody, EndBody, vars
<1>. QED  BY <1>1, <1>3, <1>4

\* When two circles are the only ones that were found to collide, the pass leaves them apart.
THEOREM LonePairPartsHolds == Spec => []LonePairParts
<1>. DEFINE Inv == SInv /\ PairsParted
<1>1. Init => Inv
  <2>1. Init => PairsParted
    BY DEF Init, PairsParted
  <2>. QED  BY <2>1, PlacedInit
<1>2. Inv /\ [Next]_vars => Inv'
  BY StaticsNext, PairsNext
<1>3. Inv => LonePairParts
  BY DEF PairsParted, Apart, LonePairParts
<1>. QED  BY <1>1, <1>2, <1>3, PTL DEF Spec

-----------------------------------------------------------------------------
(* Sequences laid end to end *)

\* f[k] is the first k of the sequences in s, laid end to end.
Laid(f, s, n) == f[0] = << >> /\ \A k \in 1 .. n : f[k] = f[k - 1] \o s[k]

\* FlattenSeq() lays them end to end.
LEMMA FlattenIs ==
    ASSUME NEW B, NEW s \in Seq(Seq(B))
    PROVE  \E f \in [0 .. Len(s) -> Seq(B)] : Laid(f, s, Len(s)) /\ St!FlattenSeq(s) = f[Len(s)]
<1>. DEFINE n == Len(s)
            g == [k \in 1 .. n |-> [x \in Seq(B) |-> x \o s[k]]]
            flatten == CHOOSE h : h = [i \in 1 .. n |-> IF i = 1 THEN s[i] ELSE h[i - 1] \o s[i]]
<1>1. n \in Nat /\ \A k \in 1 .. n : s[k] \in Seq(B)
  OBVIOUS
<1>2. g \in [1 .. n -> [Seq(B) -> Seq(B)]] /\ << >> \in Seq(B)
  BY <1>1
<1>3. PICK f \in [0 .. n -> Seq(B)] : IsRecursion(f, n, << >>, g)
  <2>. HIDE DEF g, n
  <2>. QED  BY <1>1, <1>2, RecursiveFunction
<1>4. Laid(f, s, n)
  <2>. SUFFICES ASSUME NEW k \in 1 .. n PROVE f[k] = f[k - 1] \o s[k]
    BY <1>3 DEF Laid, IsRecursion
  <2>1. f[k] = g[k][f[k - 1]]
    BY <1>3 DEF IsRecursion
  <2>2. k - 1 \in 0 .. n
    BY <1>1
  <2>3. f[k - 1] \in Seq(B)
    BY <2>2
  <2>. QED  BY <2>1, <2>3
<1>a. \A z \in Seq(B) : << >> \o z = z
  OBVIOUS
<1>b. \A i \in 1 .. n : i \in 0 .. n /\ i - 1 \in 0 .. n /\ (i # 1 => i - 1 \in 1 .. n /\ i - 1 # 0)
  BY <1>1
<1>c. \A i \in 1 .. n : f[i] = IF i = 1 THEN s[i] ELSE f[i - 1] \o s[i]
  <2>. SUFFICES ASSUME NEW i \in 1 .. n, i = 1 PROVE f[i] = s[i]
    BY <1>4 DEF Laid
  <2>1. f[1] = f[0] \o s[1] /\ f[0] = << >> /\ s[1] \in Seq(B)
    <3>1. f[i] = f[i - 1] \o s[i] /\ f[0] = << >>
      <4>. HIDE DEF n, g
      <4>. QED  BY <1>4 DEF Laid
    <3>2. i - 1 = 0
      OBVIOUS
    <3>. QED  BY <1>1, <3>1, <3>2
  <2>. QED  BY <1>a, <2>1
<1>5. CASE n = 0
  <2>1. St!FlattenSeq(s) = s /\ s = << >>
    BY <1>5 DEF St!FlattenSeq
  <2>. QED  BY <1>4, <1>5, <2>1 DEF Laid
<1>6. CASE n # 0
  <2>. DEFINE H(h) == h = [i \in 1 .. n |-> IF i = 1 THEN s[i] ELSE h[i - 1] \o s[i]]
  <2>1. St!FlattenSeq(s) = flatten[n]
    BY <1>6 DEF St!FlattenSeq
  <2>2. \E h : H(h)
    <3>. DEFINE h == [i \in 1 .. n |-> f[i]]
    <3>2. \A i \in 1 .. n : i # 1 => h[i - 1] = f[i - 1]
      BY <1>b
    <3>3. H(h)
      BY <1>c, <3>2
    <3>. HIDE DEF h, H
    <3>. QED  BY <3>3
  <2>3. H(flatten)
    BY <2>2
  <2>. HIDE DEF flatten
  <2>4. \A i \in 1 .. n : flatten[i] = IF i = 1 THEN s[i] ELSE flatten[i - 1] \o s[i]
    BY <2>3
  <2>. DEFINE T == {i \in 0 .. n : i # 0 => flatten[i] = f[i]}
  <2>5. 0 \in T
    BY <1>1
  <2>6. ASSUME NEW i \in 1 .. n, i - 1 \in T PROVE i \in T
    <3>1. i # 1 => flatten[i - 1] = f[i - 1]
      BY <1>b, <2>6
    <3>2. flatten[i] = f[i]
      BY <1>c, <2>4, <3>1
    <3>. QED  BY <1>b, <3>2
  <2>7. 0 .. n \subseteq T
    <3>. HIDE DEF T, n
    <3>. QED  BY <1>1, <2>5, <2>6, InductionTo
  <2>8. flatten[n] = f[n]
    BY <1>1, <1>6, <2>7
  <2>. QED  BY <1>4, <2>1, <2>8
<1>. QED  BY <1>5, <1>6

\* One more of them comes last.
LEMMA FlattenAppend ==
    ASSUME NEW B, NEW s \in Seq(Seq(B)), NEW x \in Seq(B)
    PROVE  /\ St!FlattenSeq(s) \in Seq(B)
           /\ St!FlattenSeq(Append(s, x)) = St!FlattenSeq(s) \o x
<1>. DEFINE n == Len(s)
            t == Append(s, x)
<1>1. /\ t \in Seq(Seq(B)) /\ Len(t) = n + 1 /\ n \in Nat
      /\ t[n + 1] = x /\ \A k \in 1 .. n : t[k] = s[k]
  OBVIOUS
<1>2. PICK f \in [0 .. n -> Seq(B)] : Laid(f, s, n) /\ St!FlattenSeq(s) = f[n]
  BY FlattenIs
<1>. HIDE DEF t, n
<1>3. PICK h \in [0 .. n + 1 -> Seq(B)] : Laid(h, t, n + 1) /\ St!FlattenSeq(t) = h[n + 1]
  BY <1>1, FlattenIs
<1>. DEFINE T == {i \in 0 .. n : f[i] = h[i]}
<1>4. 0 \in T
  BY <1>1, <1>2, <1>3 DEF Laid
<1>5. ASSUME NEW i \in 1 .. n, i - 1 \in T PROVE i \in T
  <2>1. i \in 0 .. n /\ i \in 1 .. (n + 1) /\ t[i] = s[i]
    BY <1>1
  <2>2. f[i] = f[i - 1] \o s[i] /\ h[i] = h[i - 1] \o t[i]
    BY <1>2, <1>3, <2>1 DEF Laid
  <2>. QED  BY <1>5, <2>1, <2>2
<1>6. 0 .. n \subseteq T
  <2>. HIDE DEF T
  <2>. QED  BY <1>1, <1>4, <1>5, InductionTo
<1>7. h[n + 1] = h[n] \o x
  <2>1. n + 1 \in 1 .. (n + 1) /\ (n + 1) - 1 = n
    BY <1>1
  <2>. QED  BY <1>1, <1>3, <2>1 DEF Laid
<1>8. f[n] = h[n] /\ f[n] \in Seq(B)
  BY <1>1, <1>6
<1>. QED  BY <1>2, <1>3, <1>7, <1>8 DEF t

-----------------------------------------------------------------------------
(* Storage *)

Octets == {<<v, j>> : v \in Values, j \in 1 .. MaxBytes}

\* What is laid end to end can be told apart again.
LEMMA EndToEnd ==
    ASSUME NEW B, NEW s \in Seq(B), NEW t \in Seq(B)
    PROVE  /\ s \o t \in Seq(B)
           /\ Len(s \o t) = Len(s) + Len(t) /\ Len(s) \in Nat /\ Len(t) \in Nat
           /\ SubSeq(s \o t, 1, Len(s)) = s
           /\ SubSeq(s \o t, Len(s) + 1, Len(s) + Len(t)) = t
<1>1. /\ s \o t \in Seq(B)
      /\ Len(s \o t) = Len(s) + Len(t) /\ Len(s) \in Nat /\ Len(t) \in Nat
  OBVIOUS
<1>2. SubSeq(s \o t, 1, Len(s)) = s
  OBVIOUS
<1>3. SubSeq(s \o t, Len(s) + 1, Len(s) + Len(t)) = t
  OBVIOUS
<1>. QED  BY <1>1, <1>2, <1>3

\* An empty File is made of no values.
LEMMA EncodedNone == St!Encoded(<< >>) = << >>
<1>1. [i \in DOMAIN << >> |-> St!Bytes(<< >>[i])] = << >>
  OBVIOUS
<1>2. St!FlattenSeq(<< >>) = << >>
  BY DEF St!FlattenSeq
<1>. QED  BY <1>1, <1>2 DEF St!Encoded

\* The bytes of a value are a sequence as long as its type is.
LEMMA BytesAre ==
    ASSUME NEW v \in Values
    PROVE  /\ St!Bytes(v) \in Seq(Values \X Nat) /\ Len(St!Bytes(v)) = SizeOf[v]
           /\ SizeOf[v] \in Nat
           /\ SizeOf[v] <= MaxBytes => St!Bytes(v) \in Seq(Octets)
<1>. DEFINE n == SizeOf[v]
            b == [i \in 1 .. n |-> <<v, i>>]
<1>1. n \in Nat /\ MaxBytes \in Nat
  BY StorageAssumption
<1>. HIDE DEF n
<1>2. b \in [1 .. n -> Values \X Nat]
  BY <1>1
<1>3. b \in Seq(Values \X Nat) /\ Len(b) = n
  BY <1>1, <1>2
<1>4. ASSUME n <= MaxBytes PROVE b \in Seq(Octets)
  <2>1. b \in [1 .. n -> Octets]
    BY <1>1, <1>4 DEF Octets
  <2>. QED  BY <1>1, <2>1
<1>5. St!Bytes(v) = b
  BY DEF St!Bytes, n
<1>. HIDE DEF b
<1>. QED  BY <1>1, <1>3, <1>4, <1>5 DEF n

\* What is put last into a File is the end of its bytes.
LEMMA EncodedAppend ==
    ASSUME NEW vs \in Seq(Values), NEW v \in Values
    PROVE  /\ St!Encoded(vs) \in Seq(Values \X Nat)
           /\ St!Encoded(Append(vs, v)) = St!Encoded(vs) \o St!Bytes(v)
<1>. DEFINE n == Len(vs)
            s == [i \in 1 .. n |-> St!Bytes(vs[i])]
            t == [i \in 1 .. (n + 1) |-> St!Bytes(Append(vs, v)[i])]
            D == Values \X Nat
<1>1. /\ n \in Nat /\ DOMAIN vs = 1 .. n /\ DOMAIN Append(vs, v) = 1 .. (n + 1)
      /\ \A i \in 1 .. n : vs[i] \in Values /\ Append(vs, v)[i] = vs[i]
      /\ Append(vs, v)[n + 1] = v
  OBVIOUS
<1>2. \A u \in Values : St!Bytes(u) \in Seq(D)
  BY BytesAre
<1>. HIDE DEF n, D
<1>3. s \in [1 .. n -> Seq(D)]
  BY <1>1, <1>2
<1>4. s \in Seq(Seq(D)) /\ Len(s) = n
  BY <1>1, <1>3
<1>5. t = Append(s, St!Bytes(v))
  <2>. DEFINE u == Append(s, St!Bytes(v))
  <2>1. t \in [1 .. (n + 1) -> Seq(D)]
    <3>. SUFFICES ASSUME NEW i \in 1 .. (n + 1) PROVE Append(vs, v)[i] \in Values
      BY <1>2
    <3>1. i \in 1 .. n \/ i = n + 1
      BY <1>1
    <3>. QED  BY <1>1, <3>1
  <2>2. t \in Seq(Seq(D)) /\ Len(t) = n + 1
    BY <1>1, <2>1
  <2>. HIDE DEF s
  <2>3. /\ u \in Seq(Seq(D)) /\ Len(u) = n + 1 /\ u[n + 1] = St!Bytes(v)
        /\ \A i \in 1 .. n : u[i] = s[i]
    BY <1>2, <1>4, AppendProperties
  <2>4. ASSUME NEW i \in 1 .. (n + 1) PROVE t[i] = u[i]
    <3>1. i \in 1 .. n \/ i = n + 1
      BY <1>1
    <3>. QED  BY <1>1, <2>3, <3>1 DEF s
  <2>. HIDE DEF t, u
  <2>5. t = u
    BY <2>2, <2>3, <2>4, SeqEqual
  <2>. QED  BY <2>5 DEF u
<1>6. St!Encoded(vs) = St!FlattenSeq(s) /\ St!Encoded(Append(vs, v)) = St!FlattenSeq(t)
  BY <1>1 DEF St!Encoded
<1>. HIDE DEF s, t
<1>. QED  BY <1>2, <1>4, <1>5, <1>6, FlattenAppend DEF D

\* The types, with what the file that is being written has yet to get.
Stored ==
    /\ data \in Seq(Octets) /\ Len(data) <= MaxBytes
    /\ disk \in [Paths -> Seq(Octets)] /\ \A p \in Paths : Len(disk[p]) <= MaxBytes
    /\ saving # St!Idle => /\ saving \in [path : Paths, rest : Seq(Octets)]
                           /\ Len(disk[saving.path]) + Len(saving.rest) <= MaxBytes
    /\ taken \in Seq(Octets) /\ wrapped \in BOOLEAN
    /\ items = Mixed \/ items \in Seq(Values)
    /\ saved \in [Paths -> Seq(Values) \cup {Mixed}]
    /\ whole \subseteq Paths

\* As long as it is known what data should be made of, it is.
Whole == items # Mixed => data = St!Encoded(items)

\* What a file has, and what it has yet to get, is what data was made of at the last Save();
\* and once nothing more comes, it has the beginning of that.  A file that the last Save()
\* wrote whole has all of it.
Cut ==
    /\ saving # St!Idle /\ saved[saving.path] # Mixed =>
          disk[saving.path] \o saving.rest = St!Encoded(saved[saving.path])
    /\ \A p \in Paths : saved[p] # Mixed =>
          \E r \in Seq(Octets) : disk[p] \o r = St!Encoded(saved[p])
    /\ saving # St!Idle => saving.path \notin whole
    /\ \A p \in whole : saved[p] # Mixed => disk[p] = St!Encoded(saved[p])

StInv == Stored /\ Whole /\ Cut

\* An empty File and empty files are as they should be.
LEMMA StoredInit == St!Init => StInv
<1>. SUFFICES ASSUME St!Init PROVE StInv
  OBVIOUS
<1>1. << >> \in Seq(Octets) /\ << >> \in Seq(Values) /\ Len(<< >>) = 0 /\ 0 <= MaxBytes
  BY StorageAssumption
<1>2. Stored
  BY <1>1 DEF St!Init, Stored
<1>3. << >> \o << >> = St!Encoded(<< >>)
  BY EncodedNone
<1>. QED  BY <1>1, <1>2, <1>3, EncodedNone DEF St!Init, StInv, Whole, Cut

\* << puts the bytes of a value at the end.
LEMMA PutKeeps == ASSUME StInv, NEW v \in Values, St!Put(v) PROVE StInv'
<1>1. /\ saving = St!Idle /\ Len(data) + SizeOf[v] <= MaxBytes
      /\ data' = data \o St!Bytes(v)
      /\ items' = IF items = Mixed THEN Mixed ELSE Append(items, v)
      /\ UNCHANGED <<disk, saving, taken, wrapped, saved, whole>>
  BY DEF St!Put
<1>2. data \in Seq(Octets) /\ Len(data) \in Nat
  BY DEF StInv, Stored
<1>3. St!Bytes(v) \in Seq(Octets) /\ Len(St!Bytes(v)) = SizeOf[v] /\ SizeOf[v] \in Nat
  BY <1>1, <1>2, BytesAre, StorageAssumption
<1>4. data' \in Seq(Octets) /\ Len(data') <= MaxBytes
  <2>. HIDE DEF Octets
  <2>. QED  BY <1>1, <1>2, <1>3, EndToEnd
<1>5. items' = Mixed \/ items' \in Seq(Values)
  BY <1>1 DEF StInv, Stored
<1>6. Whole'
  <2>. SUFFICES ASSUME items # Mixed PROVE data' = St!Encoded(items')
    BY <1>1 DEF Whole
  <2>1. items \in Seq(Values) /\ data = St!Encoded(items)
    BY DEF StInv, Stored, Whole
  <2>. QED  BY <1>1, <2>1, EncodedAppend
<1>. QED  BY <1>1, <1>4, <1>5, <1>6 DEF StInv, Stored, Cut

\* >> takes off the bytes of the value that was put last, when its type is asked for.
LEMMA TakeSplits ==
    ASSUME StInv, NEW n \in Nat, items # Mixed, items # << >>, SizeOf[St!Last(items)] = n
    PROVE  /\ n <= Len(data)
           /\ St!Front(items) \in Seq(Values)
           /\ St!Split(n).read = St!Bytes(St!Last(items))
           /\ St!Split(n).kept = St!Encoded(St!Front(items))
<1>. DEFINE f == St!Front(items)
            v == St!Last(items)
            e == St!Encoded(f)
            b == St!Bytes(v)
<1>1. items \in Seq(Values)
  BY DEF StInv, Stored
<1>2. f \in Seq(Values) /\ v \in Values /\ items = Append(f, v)
  BY <1>1 DEF St!Front, St!Last
<1>. HIDE DEF f, v
<1>3. data = e \o b /\ e \in Seq(Values \X Nat)
  BY <1>2, EncodedAppend DEF StInv, Whole
<1>4. b \in Seq(Values \X Nat) /\ Len(b) = n
  BY <1>2, BytesAre DEF v
<1>. HIDE DEF e, b
<1>5. /\ Len(data) = Len(e) + n /\ Len(e) \in Nat
      /\ SubSeq(data, 1, Len(e)) = e /\ SubSeq(data, Len(e) + 1, Len(e) + n) = b
  <2>1. e \in Seq(Values \X Nat) /\ b \in Seq(Values \X Nat)
    BY <1>3, <1>4
  <2>2. /\ Len(e \o b) = Len(e) + Len(b) /\ Len(e) \in Nat
        /\ SubSeq(e \o b, 1, Len(e)) = e
        /\ SubSeq(e \o b, Len(e) + 1, Len(e) + Len(b)) = b
    <3>1. \A g, h \in Seq(Values \X Nat) :
             /\ Len(g \o h) = Len(g) + Len(h) /\ Len(g) \in Nat
             /\ SubSeq(g \o h, 1, Len(g)) = g
             /\ SubSeq(g \o h, Len(g) + 1, Len(g) + Len(h)) = h
      BY EndToEnd
    <3>. QED  BY <2>1, <3>1
  <2>. QED  BY <1>3, <1>4, <2>2
<1>6. SubSeq(data, 1, Len(data) - n) = e
  <2>1. Len(data) - n = Len(e)
    BY <1>5
  <2>. QED  BY <1>5, <2>1
<1>7. SubSeq(data, Len(data) - n + 1, Len(data)) = b
  <2>1. Len(data) - n + 1 = Len(e) + 1
    BY <1>5
  <2>. QED  BY <1>5, <2>1
<1>. QED  BY <1>2, <1>5, <1>6, <1>7 DEF St!Split, e, b, f, v

\* >> takes bytes off the end, whatever it is asked for.
LEMMA TakeKeeps ==
    ASSUME StInv, NEW n \in Nat, St!Take(n)
    PROVE  StInv'
<1>1. data \in Seq(Octets) /\ Len(data) \in Nat /\ Len(data) <= MaxBytes /\ MaxBytes \in Nat
  BY StorageAssumption DEF StInv, Stored
<1>2. saving = St!Idle /\ UNCHANGED <<disk, saving, saved, whole>>
  BY DEF St!Take
<1>3. CASE n > Len(data)
  <2>1. UNCHANGED <<data, taken, items>> /\ wrapped' = TRUE
    BY <1>1, <1>3 DEF St!Take
  <2>. QED  BY <1>2, <2>1 DEF StInv, Stored, Whole, Cut
<1>4. CASE ~(n > Len(data))
  <2>1. /\ taken' = St!Split(n).read /\ data' = St!Split(n).kept /\ UNCHANGED wrapped
        /\ items' = IF items # Mixed /\ items # << >> /\ SizeOf[St!Last(items)] = n
                    THEN St!Front(items) ELSE Mixed
    BY <1>1, <1>4 DEF St!Take
  <2>2. /\ taken' = SubSeq(data, Len(data) - n + 1, Len(data))
        /\ data' = SubSeq(data, 1, Len(data) - n)
    BY <2>1 DEF St!Split
  <2>3. taken' \in Seq(Octets) /\ data' \in Seq(Octets) /\ Len(data') <= MaxBytes
    BY <1>1, <1>4, <2>2
  <2>4. items' = Mixed \/ (items' \in Seq(Values) /\ data' = St!Encoded(items'))
    BY <2>1, TakeSplits
  <2>. QED  BY <1>2, <2>1, <2>3, <2>4 DEF StInv, Stored, Whole, Cut
<1>. QED  BY <1>3, <1>4

\* Save() begins the file anew.
LEMMA SaveKeeps == ASSUME StInv, NEW p \in Paths, St!Save(p) PROVE StInv'
<1>1. CASE UNCHANGED <<disk, saving, saved, whole>>
  BY <1>1 DEF St!Save, StInv, Stored, Whole, Cut
<1>2. CASE /\ disk' = [disk EXCEPT ![p] = << >>]
           /\ saving' = [path |-> p, rest |-> data]
           /\ saved' = [saved EXCEPT ![p] = items] /\ whole' = whole \ {p}
  <2>1. UNCHANGED <<data, taken, wrapped, items>>
    BY DEF St!Save
  <2>2. /\ data \in Seq(Octets) /\ Len(data) \in Nat /\ Len(data) <= MaxBytes
        /\ disk \in [Paths -> Seq(Octets)] /\ saved \in [Paths -> Seq(Values) \cup {Mixed}]
        /\ items \in Seq(Values) \cup {Mixed}
        /\ 0 <= MaxBytes /\ << >> \o data = data /\ Len(<< >>) = 0 /\ 0 + Len(data) <= MaxBytes
    BY StorageAssumption DEF StInv, Stored
  <2>3. /\ disk' \in [Paths -> Seq(Octets)] /\ disk'[p] = << >>
        /\ saved' \in [Paths -> Seq(Values) \cup {Mixed}] /\ saved'[p] = items
        /\ \A q \in Paths : q # p => disk'[q] = disk[q] /\ saved'[q] = saved[q]
        /\ saving'.path = p /\ saving'.rest = data /\ p \notin whole'
        /\ whole' \subseteq whole
    BY <1>2, <2>2
  <2>4. Stored'
    BY <1>2, <2>1, <2>2, <2>3 DEF StInv, Stored
  <2>5. Cut'
    <3>1. saved'[p] # Mixed => disk'[p] \o data = St!Encoded(saved'[p])
      BY <2>2, <2>3 DEF StInv, Whole
    <3>2. ASSUME NEW q \in Paths, saved'[q] # Mixed
          PROVE  \E r \in Seq(Octets) : disk'[q] \o r = St!Encoded(saved'[q])
      <4>1. CASE q = p
        BY <2>2, <3>1, <3>2, <4>1
      <4>2. CASE q # p
        BY <2>3, <3>2, <4>2 DEF StInv, Cut
      <4>. QED  BY <4>1, <4>2
    <3>3. ASSUME NEW q \in whole', saved'[q] # Mixed PROVE disk'[q] = St!Encoded(saved'[q])
      <4>1. q \in whole /\ q \in Paths /\ q # p
        BY <2>3 DEF StInv, Stored
      <4>2. disk'[q] = disk[q] /\ saved'[q] = saved[q]
        BY <2>3, <4>1
      <4>. QED  BY <3>3, <4>1, <4>2 DEF StInv, Cut
    <3>. QED  BY <2>3, <3>1, <3>2, <3>3 DEF Cut
  <2>. QED  BY <2>1, <2>4, <2>5 DEF StInv, Whole
<1>. QED  BY <1>1, <1>2 DEF St!Save, St!Truncated

\* A piece more in the file is a piece less to come.
LEMMA FlushKeeps == ASSUME StInv, St!Flush PROVE StInv'
<1>. DEFINE p == saving.path
            w == saving.rest
<1>1. PICK n \in 1 .. Len(w) :
         /\ disk' = [disk EXCEPT ![p] = @ \o SubSeq(w, 1, n)]
         /\ saving' = [saving EXCEPT !.rest = SubSeq(@, n + 1, Len(@))]
  BY DEF St!Flush
<1>2. saving # St!Idle /\ UNCHANGED <<data, taken, wrapped, items, saved, whole>>
  BY DEF St!Flush, St!memory
<1>3. /\ p \in Paths /\ w \in Seq(Octets) /\ disk \in [Paths -> Seq(Octets)]
      /\ Len(disk[p]) + Len(w) <= MaxBytes /\ saving \in [path : Paths, rest : Seq(Octets)]
      /\ saved \in [Paths -> Seq(Values) \cup {Mixed}] /\ MaxBytes \in Nat
  BY <1>2, StorageAssumption DEF StInv, Stored
<1>. DEFINE x == SubSeq(w, 1, n)
            y == SubSeq(w, n + 1, Len(w))
<1>4. /\ x \in Seq(Octets) /\ y \in Seq(Octets) /\ x \o y = w
      /\ Len(x) \in Nat /\ Len(y) \in Nat /\ Len(x) + Len(y) = Len(w)
  BY <1>3
<1>5. disk' = [disk EXCEPT ![p] = @ \o x]
  BY <1>1
<1>6. saving' = [path |-> p, rest |-> y]
  BY <1>1, <1>3
<1>. HIDE DEF x, y
<1>7. PICK q : q = p
  OBVIOUS
<1>. HIDE DEF p, w
<1>8. /\ disk' \in [Paths -> Seq(Octets)] /\ disk'[q] = disk[q] \o x
      /\ \A o \in Paths : o # q => disk'[o] = disk[o]
      /\ saving' \in [path : Paths, rest : Seq(Octets)] /\ saving'.path = q /\ saving'.rest = y
  BY <1>3, <1>4, <1>5, <1>6, <1>7
<1>9. /\ Len(disk'[q]) <= MaxBytes /\ Len(disk'[q]) + Len(y) <= MaxBytes
      /\ disk'[q] \o y = disk[q] \o w
  <2>. PICK d : d = disk[q]
    OBVIOUS
  <2>1. d \in Seq(Octets) /\ Len(d) + Len(w) <= MaxBytes
    BY <1>3, <1>7
  <2>2. Len(d \o x) = Len(d) + Len(x) /\ Len(d) \in Nat
    BY <1>4, <2>1, EndToEnd
  <2>3. (d \o x) \o y = d \o (x \o y)
    <3>1. d \in Seq(Octets) /\ x \in Seq(Octets) /\ y \in Seq(Octets)
      BY <1>4, <2>1
    <3>2. \A f, g, h \in Seq(Octets) : (f \o g) \o h = f \o (g \o h)
      BY ConcatAssociative
    <3>. HIDE DEF Octets
    <3>. QED  BY <3>1, <3>2
  <2>. QED  BY <1>3, <1>4, <1>8, <2>1, <2>2, <2>3
<1>10. Stored'
  BY <1>2, <1>8, <1>9 DEF StInv, Stored
<1>11. Cut'
  <2>1. saved[q] # Mixed => disk'[q] \o y = St!Encoded(saved[q])
    BY <1>2, <1>7, <1>9 DEF StInv, Cut, p, w
  <2>2. ASSUME NEW o \in Paths, saved[o] # Mixed
        PROVE  \E r \in Seq(Octets) : disk'[o] \o r = St!Encoded(saved[o])
    <3>1. CASE o = q
      BY <1>4, <2>1, <2>2, <3>1
    <3>2. CASE o # q
      BY <1>8, <2>2, <3>2 DEF StInv, Cut
    <3>. QED  BY <3>1, <3>2
  <2>3. q \notin whole
    BY <1>2, <1>7 DEF StInv, Cut, p
  <2>4. ASSUME NEW o \in whole, saved[o] # Mixed PROVE disk'[o] = St!Encoded(saved[o])
    <3>1. o # q /\ o \in Paths /\ disk[o] = St!Encoded(saved[o])
      BY <2>3, <2>4 DEF StInv, Cut, Stored
    <3>. QED  BY <1>8, <3>1
  <2>. QED  BY <1>2, <1>8, <2>1, <2>2, <2>3, <2>4 DEF Cut
<1>. QED  BY <1>2, <1>10, <1>11 DEF StInv, Whole

\* Each call keeps the files and data as they should be.
LEMMA StoredNext == StInv /\ [St!Next]_(St!vars) => StInv'
<1>. SUFFICES ASSUME StInv, [St!Next]_(St!vars) PROVE StInv'
  OBVIOUS
<1>1. \A v \in Values : St!Put(v) => StInv'
  BY PutKeeps
<1>2. \A n \in {SizeOf[v] : v \in Values} : St!Take(n) => StInv'
  BY TakeKeeps, StorageAssumption
<1>3. \A p \in Paths : St!Save(p) => StInv'
  BY SaveKeeps
<1>4. ASSUME NEW p \in Paths, St!Load(p) PROVE StInv'
  <2>1. CASE data' = St!Loaded(p) /\ items' = IF p \in whole THEN saved[p] ELSE Mixed
    <3>1. data' = disk[p] /\ (items' # Mixed => items' = saved[p] /\ disk[p] = St!Encoded(saved[p]))
      BY <2>1 DEF St!Loaded, StInv, Cut
    <3>2. saved[p] \in Seq(Values) \cup {Mixed} /\ disk[p] \in Seq(Octets) /\ Len(disk[p]) <= MaxBytes
      BY DEF StInv, Stored
    <3>. QED  BY <1>4, <3>1, <3>2 DEF St!Load, StInv, Stored, Whole, Cut
  <2>2. CASE data' = << >> /\ items' = << >>
    <3>1. << >> \in Seq(Octets) /\ << >> \in Seq(Values) /\ Len(<< >>) <= MaxBytes
      BY StorageAssumption
    <3>. QED  BY <1>4, <2>2, <3>1, EncodedNone DEF St!Load, StInv, Stored, Whole, Cut
  <2>. QED  BY <1>4, <2>1, <2>2 DEF St!Load
<1>5. CASE St!Flush
  BY <1>5, FlushKeeps
<1>6. CASE St!Close
  <2>1. /\ saving # St!Idle /\ saving' = St!Idle
        /\ whole' = IF saving.rest = << >> THEN whole \cup {saving.path} ELSE whole
        /\ UNCHANGED <<data, disk, taken, wrapped, items, saved>>
    BY <1>6 DEF St!Close
  <2>2. saving.path \in Paths /\ disk[saving.path] \in Seq(Octets)
    BY <2>1 DEF StInv, Stored
  <2>3. disk[saving.path] \o << >> = disk[saving.path]
    BY <2>2
  <2>4. \A p \in whole' : saved[p] # Mixed => disk[p] = St!Encoded(saved[p])
    BY <2>1, <2>3 DEF StInv, Cut
  <2>. QED  BY <2>1, <2>2, <2>4 DEF StInv, Stored, Whole, Cut
<1>7. CASE St!Restart
  <2>1. << >> \in Seq(Octets) /\ << >> \in Seq(Values) /\ Len(<< >>) <= MaxBytes
    BY StorageAssumption
  <2>. QED  BY <1>7, <2>1, EncodedNone DEF St!Restart, StInv, Stored, Whole, Cut
<1>8. CASE UNCHANGED St!vars
  BY <1>8 DEF St!vars, St!memory, StInv, Stored, Whole, Cut
<1>. QED  BY <1>1, <1>2, <1>3, <1>4, <1>5, <1>6, <1>7, <1>8 DEF St!Next

\* A step of the whole is one of each part, or none of it.
LEMMA StepOfStorage == [PartsNext]_<<part, vars, inputVars, storageVars>> => [St!Next]_(St!vars)
  BY DEF PartsNext, storageVars, St!vars, St!memory

\* Wherever a Save() was cut short, the file has the beginning of what was to be there;
\* and the state of the File has its types.
THEOREM DiskIsPrefixHolds == PartsSpec => []DiskIsPrefix
<1>1. PartsInit => StInv
  BY StoredInit DEF PartsInit
<1>2. StInv /\ [PartsNext]_<<part, vars, inputVars, storageVars>> => StInv'
  BY StepOfStorage, StoredNext
<1>3. StInv => DiskIsPrefix
  <2>. SUFFICES ASSUME StInv PROVE DiskIsPrefix
    OBVIOUS
  <2>1. \A s \in Seq(Octets) : St!IsBytes(s)
    BY DEF St!IsBytes, Octets
  <2>2. St!TypeOK
    BY <2>1 DEF StInv, Stored, St!TypeOK
  <2>3. ASSUME NEW p \in Paths, saved[p] # Mixed PROVE St!IsPrefix(disk[p], St!Encoded(saved[p]))
    <3>1. PICK r \in Seq(Octets) : disk[p] \o r = St!Encoded(saved[p])
      BY <2>3 DEF StInv, Cut
    <3>2. disk[p] \in Seq(Octets)
      BY DEF StInv, Stored
    <3>3. \A d \in Seq(Octets) : Len(d) <= Len(d \o r) /\ SubSeq(d, 1, Len(d)) = SubSeq(d \o r, 1, Len(d))
      OBVIOUS
    <3>. QED  BY <3>1, <3>2, <3>3 DEF St!IsPrefix
  <2>. QED  BY <2>2, <2>3 DEF DiskIsPrefix, St!DiskIsPrefix
<1>. QED  BY <1>1, <1>2, <1>3, PTL DEF PartsSpec

\* As long as it is read in the reverse order of its writing, a File gives back every
\* value as it was, through a whole Save(), a Load() and a restart; and when none is left,
\* the index of the next >> wraps around.
THEOREM RoundTripHolds == PartsSpec => RoundTrip
<1>. DEFINE Back == \A n \in 1 .. MaxBytes : St!Take(n) /\ items # Mixed =>
                       /\ items = << >> => wrapped'
                       /\ items # << >> /\ SizeOf[St!Last(items)] = n =>
                             taken' = St!Bytes(St!Last(items))
<1>1. PartsInit => StInv
  BY StoredInit DEF PartsInit
<1>2. StInv /\ [PartsNext]_<<part, vars, inputVars, storageVars>> => StInv'
  BY StepOfStorage, StoredNext
<1>3. StInv => [Back]_(St!vars)
  <2>. SUFFICES ASSUME StInv, NEW n \in 1 .. MaxBytes, St!Take(n), items # Mixed
                PROVE  /\ items = << >> => wrapped'
                       /\ items # << >> /\ SizeOf[St!Last(items)] = n =>
                             taken' = St!Bytes(St!Last(items))
    OBVIOUS
  <2>1. n \in Nat /\ n > 0 /\ Len(data) \in Nat
    BY StorageAssumption DEF StInv, Stored
  <2>2. ASSUME items = << >> PROVE wrapped'
    <3>1. data = << >>
      BY <2>2, EncodedNone DEF StInv, Whole
    <3>2. ~(n <= Len(data))
      BY <2>1, <3>1
    <3>. QED  BY <3>2 DEF St!Take
  <2>3. ASSUME items # << >>, SizeOf[St!Last(items)] = n PROVE taken' = St!Bytes(St!Last(items))
    <3>1. n <= Len(data) /\ St!Split(n).read = St!Bytes(St!Last(items))
      BY <2>1, <2>3, TakeSplits
    <3>2. taken' = St!Split(n).read
      BY <2>1, <3>1 DEF St!Take
    <3>. QED  BY <3>1, <3>2
  <2>. QED  BY <2>2, <2>3
<1>. QED  BY <1>1, <1>2, <1>3, PTL DEF PartsSpec, RoundTrip, St!RoundTrip

-----------------------------------------------------------------------------
(* Input *)

InputOf(k, kp, kr, b, bp, br, en) ==
    [keys |-> k, keysPressed |-> kp, keysReleased |-> kr,
     buttons |-> b, buttonsPressed |-> bp, buttonsReleased |-> br, entries |-> en]

\* The flags tell what happened to what was down, for the keys and for the buttons.
Traces(in, h) ==
    /\ In!Told(h.keys, in.keys, in.keysPressed, in.keysReleased)
    /\ In!Told(h.buttons, in.buttons, in.buttonsPressed, in.buttonsReleased)

Traced(h) == {in \in In!Inputs : Traces(in, h)}

\* Its fields tell whether a record has these flags.
LEMMA TracedOf ==
    ASSUME NEW h,
           NEW k \in SUBSET Keys, NEW kp \in SUBSET Keys, NEW kr \in SUBSET Keys,
           NEW b \in SUBSET Buttons, NEW bp \in SUBSET Buttons, NEW br \in SUBSET Buttons,
           NEW en \in SUBSET Buttons,
           In!Told(h.keys, k, kp, kr), In!Told(h.buttons, b, bp, br)
    PROVE  InputOf(k, kp, kr, b, bp, br, en) \in Traced(h)
  BY DEF Traced, Traces, In!Inputs, InputOf

\* Input is a record of its fields.
LEMMA InputIs ==
    ASSUME NEW h, NEW in \in Traced(h)
    PROVE  /\ in.keys \in SUBSET Keys /\ in.keysPressed \in SUBSET Keys
           /\ in.keysReleased \in SUBSET Keys /\ in.buttons \in SUBSET Buttons
           /\ in.buttonsPressed \in SUBSET Buttons /\ in.buttonsReleased \in SUBSET Buttons
           /\ in.entries \in SUBSET Buttons /\ Traces(in, h)
           /\ in = InputOf(in.keys, in.keysPressed, in.keysReleased, in.buttons,
                           in.buttonsPressed, in.buttonsReleased, in.entries)
  BY DEF Traced, In!Inputs, InputOf

\* Of what is down at an _update() there is nothing to tell.
LEMMA ClearedTraced ==
    ASSUME NEW h, NEW in \in Traced(h), NEW g, g.keys = in.keys, g.buttons = in.buttons
    PROVE  In!Cleared(in) \in Traced(g)
<1>. DEFINE out == In!Cleared(in)
<1>0. DOMAIN in = {"keys", "keysPressed", "keysReleased", "buttons", "buttonsPressed",
                   "buttonsReleased", "entries"}
  BY DEF Traced, In!Inputs
<1>1. out.keys = in.keys /\ out.buttons = in.buttons
  BY <1>0 DEF In!Cleared
<1>2. out.keysPressed = {} /\ out.keysReleased = {}
  BY <1>0 DEF In!Cleared
<1>3. out.buttonsPressed = {} /\ out.buttonsReleased = {} /\ out.entries = Buttons
  BY <1>0 DEF In!Cleared
<1>4. out = [x \in DOMAIN in |-> out[x]]
  BY <1>0 DEF In!Cleared
<1>. HIDE DEF out
<1>5. out = InputOf(out.keys, out.keysPressed, out.keysReleased, out.buttons,
                    out.buttonsPressed, out.buttonsReleased, out.entries)
  BY <1>0, <1>4 DEF InputOf
<1>6. out = InputOf(in.keys, {}, {}, in.buttons, {}, {}, Buttons)
  BY <1>1, <1>2, <1>3, <1>5
<1>7. In!Told(g.keys, in.keys, {}, {}) /\ In!Told(g.buttons, in.buttons, {}, {})
  BY DEF In!Told
<1>. QED  BY <1>6, <1>7, InputIs, TracedOf DEF out

\* GetButtonUp() leaves the flags.
LEMMA AskedTraced ==
    ASSUME NEW h, NEW in \in Traced(h), NEW b \in Buttons PROVE In!Asked(in, b) \in Traced(h)
<1>1. In!Asked(in, b) = InputOf(in.keys, in.keysPressed, in.keysReleased, in.buttons,
                                in.buttonsPressed, in.buttonsReleased, in.entries \cup {b})
  BY DEF In!Asked, InputOf, Traced, In!Inputs
<1>. QED  BY <1>1, InputIs, TracedOf DEF Traces, In!Told

\* _poll() sets the flag of what it changes, unless it throws.
LEMMA PolledTraced ==
    ASSUME NEW h, NEW in \in Traced(h), NEW e \in In!Events
    PROVE  /\ In!Polled(in, e) \in In!Inputs
           /\ ~In!Throws(in, e) => In!Polled(in, e) \in Traced(h)
<1>. DEFINE k == in.keys      kp == in.keysPressed     kr == in.keysReleased
            b == in.buttons   bp == in.buttonsPressed  br == in.buttonsReleased
            c == e.code
<1>1. CASE c = Unknown
  BY <1>1 DEF In!Polled, In!Throws, Traced
<1>2. CASE c # Unknown /\ e.type = "KeyPressed"
  <2>1. c \in Keys
    BY <1>2 DEF In!Events
  <2>2. In!Polled(in, e) = [in EXCEPT !.keys = @ \cup {c}, !.keysPressed = @ \cup {c}]
    BY <1>2 DEF In!Polled
  <2>3. In!Polled(in, e) = InputOf(k \cup {c}, kp \cup {c}, kr, b, bp, br, in.entries)
    BY <2>2, InputIs DEF InputOf
  <2>4. In!Polled(in, e) \in Traced(h)
    BY <2>1, <2>3, InputIs, TracedOf DEF Traces, In!Told
  <2>. QED  BY <2>4 DEF Traced
<1>3. CASE c # Unknown /\ e.type = "KeyReleased"
  <2>1. c \in Keys
    BY <1>3 DEF In!Events
  <2>2. In!Polled(in, e) = [in EXCEPT !.keys = @ \ {c}, !.keysReleased = @ \cup {c}]
    BY <1>3 DEF In!Polled
  <2>3. In!Polled(in, e) = InputOf(k \ {c}, kp, kr \cup {c}, b, bp, br, in.entries)
    BY <2>2, InputIs DEF InputOf
  <2>4. In!Polled(in, e) \in Traced(h)
    BY <2>1, <2>3, InputIs, TracedOf DEF Traces, In!Told
  <2>. QED  BY <2>4 DEF Traced
<1>4. CASE c # Unknown /\ e.type = "MouseButtonPressed"
  <2>1. c \in Buttons
    BY <1>4 DEF In!Events
  <2>2. In!Polled(in, e) = [in EXCEPT !.buttons = @ \cup {c}, !.buttonsPressed = @ \cup {c}]
    BY <1>4 DEF In!Polled
  <2>3. In!Polled(in, e) = InputOf(k, kp, kr, b \cup {c}, bp \cup {c}, br, in.entries)
    BY <2>2, InputIs DEF InputOf
  <2>4. In!Polled(in, e) \in Traced(h)
    BY <2>1, <2>3, InputIs, TracedOf DEF Traces, In!Told
  <2>. QED  BY <2>4 DEF Traced
<1>5. CASE c # Unknown /\ e.type = "MouseButtonReleased"
  <2>1. c \in Buttons /\ (~In!Throws(in, e) => c \in in.entries)
    BY <1>5 DEF In!Events, In!Throws
  <2>2. In!Polled(in, e) = [in EXCEPT !.buttons = @ \ {c},
                                      !.buttonsReleased = @ \cup ({c} \cap in.entries)]
    BY <1>5 DEF In!Polled
  <2>3. In!Polled(in, e) = InputOf(k, kp, kr, b \ {c}, bp, br \cup ({c} \cap in.entries), in.entries)
    BY <2>2, InputIs DEF InputOf
  <2>4. In!Polled(in, e) \in In!Inputs
    BY <2>3, InputIs DEF InputOf, In!Inputs
  <2>5. c \in in.entries => In!Polled(in, e) \in Traced(h)
    BY <2>1, <2>3, InputIs, TracedOf DEF Traces, In!Told
  <2>. QED  BY <2>1, <2>4, <2>5
<1>6. e.type \in {"KeyPressed", "KeyReleased", "MouseButtonPressed", "MouseButtonReleased"}
  BY DEF In!Events
<1>. QED  BY <1>1, <1>2, <1>3, <1>4, <1>5, <1>6

\* After each call of Input's the flags still tell what happened, unless it throws.
LEMMA TapsNext ==
    ASSUME TapsVisible, [InputNext]_inputVars
    PROVE TapsVisible'
<1>. USE DEF TapsVisible, In!TypeOK, In!TapsVisible, Traced, Traces
<1>1. CASE UNCHANGED inputVars
  BY <1>1 DEF inputVars
<1>2. CASE InputNext
  <2>1. ~thrown /\ input \in Traced(held)
    BY <1>2 DEF InputNext
  <2>2. CASE In!Update /\ held' = In!Down
    <3>1. In!Down.keys = input.keys /\ In!Down.buttons = input.buttons
      BY DEF In!Down
    <3>2. input' \in Traced(In!Down) /\ thrown' = thrown
      BY <2>1, <2>2, <3>1, ClearedTraced DEF In!Update
    <3>. QED  BY <2>2, <3>2
  <2>3. ASSUME NEW b \in Buttons, In!GetButtonUp(b), UNCHANGED held PROVE TapsVisible'
    <3>1. input' \in Traced(held) /\ thrown' = thrown
      BY <2>1, <2>3, AskedTraced DEF In!GetButtonUp
    <3>. QED  BY <2>3, <3>1
  <2>4. ASSUME NEW e \in In!Events, In!Poll(e), UNCHANGED held PROVE TapsVisible'
    <3>1. input' \in In!Inputs /\ (~In!Throws(input, e) => input' \in Traced(held))
      BY <2>1, <2>4, PolledTraced DEF In!Poll
    <3>2. thrown' = In!Throws(input, e) /\ In!Throws(input, e) \in BOOLEAN
      BY <2>4 DEF In!Poll, In!Throws
    <3>. QED  BY <2>4, <3>1, <3>2
  <2>. QED  BY <1>2, <2>2, <2>3, <2>4 DEF InputNext
<1>. QED  BY <1>1, <1>2

\* Whoever uses Input, in any order: what happened to a key or to a button since the
\* last _update() can be told from its flags; and Input has its types.
THEOREM TapsVisibleHolds == PartsSpec => []TapsVisible
<1>1. PartsInit => TapsVisible
  <2>. SUFFICES ASSUME PartsInit PROVE TapsVisible
    OBVIOUS
  <2>1. input = In!Setup /\ thrown = FALSE /\ held = In!Down
    BY DEF PartsInit, In!Init
  <2>2. held.keys = {} /\ held.buttons = {} /\ In!Setup \in In!Inputs
    BY <2>1 DEF In!Down, In!Setup, In!Inputs
  <2>3. In!Told({}, {}, {}, {})
    BY DEF In!Told
  <2>. QED  BY <2>1, <2>2, <2>3 DEF TapsVisible, In!TypeOK, In!TapsVisible, In!Setup
<1>2. TapsVisible /\ [PartsNext]_<<part, vars, inputVars, storageVars>> => TapsVisible'
  <2>1. [PartsNext]_<<part, vars, inputVars, storageVars>> => [InputNext]_inputVars
    BY DEF PartsNext
  <2>. QED  BY <2>1, TapsNext
<1>. QED  BY <1>1, <1>2, PTL DEF PartsSpec
================================================================================
