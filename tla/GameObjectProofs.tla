---------------------------- MODULE GameObjectProofs ----------------------------
(***************************************************************************)
(* What holds of the object tree and the callbacks of the scripts, for any *)
(* number of objects, scripts and calls.                                   *)
(***************************************************************************)
EXTENDS GameObject, FiniteSetTheorems, SequenceTheorems, Recursion, TLAPS

LOCAL INSTANCE SequencesExt  \* ToSet

-----------------------------------------------------------------------------
(* What is below an object *)

Nodes == 0 .. N

\* f[n] is what can be reached from o by n edges of E, or fewer.
Reaches(f, o, E) ==
    /\ f \in [Nodes -> SUBSET Nodes] /\ f[0] = {o}
    /\ \A n \in 1 .. N : f[n] = f[n - 1] \cup UNION {E[x] : x \in f[n - 1]}

Closed(S, E) == \A x \in S : E[x] \subseteq S

\* There is such a function.
LEMMA ReachExists ==
    ASSUME NEW o \in Nodes, NEW E \in [Nodes -> SUBSET Nodes]
    PROVE  \E f : Reaches(f, o, E)
<1>. DEFINE V == SUBSET Nodes
            g == [n \in 1 .. N |-> [T \in V |-> T \cup UNION {E[x] : x \in T}]]
            a == {o}
<1>1. N \in Nat /\ a \in V /\ g \in [1 .. N -> [V -> V]]
  <2>1. ASSUME NEW T \in V PROVE T \cup UNION {E[x] : x \in T} \in V
    <3>1. \A x \in T : E[x] \subseteq Nodes
      OBVIOUS
    <3>. QED  BY <3>1
  <2>. QED  BY <2>1, TreeAssumption DEF Nodes
<1>2. PICK f \in [0 .. N -> V] : IsRecursion(f, N, a, g)
  <2>. HIDE DEF V, g, a
  <2>. QED  BY <1>1, RecursiveFunction
<1>3. \A n \in 1 .. N : f[n - 1] \in V /\ f[n] = g[n][f[n - 1]]
  <2>1. \A n \in 1 .. N : n - 1 \in 0 .. N
    BY <1>1
  <2>. QED  BY <1>2, <2>1 DEF IsRecursion
<1>4. \A n \in 1 .. N : f[n] = f[n - 1] \cup UNION {E[x] : x \in f[n - 1]}
  BY <1>3
<1>5. f \in [Nodes -> SUBSET Nodes] /\ f[0] = {o}
  BY <1>2 DEF IsRecursion, Nodes
<1>. QED  BY <1>4, <1>5 DEF Reaches

\* After N rounds nothing new can come: as long as there is, each round finds one more.
LEMMA RoundsEnough ==
    ASSUME NEW o \in Nodes, NEW E \in [Nodes -> SUBSET Nodes], NEW f, Reaches(f, o, E)
    PROVE  /\ f[N] \subseteq Nodes /\ o \in f[N] /\ Closed(f[N], E)
           /\ \A x \in f[N] \ {o} : \E y \in f[N] : x \in E[y]
           /\ \A S : o \in S /\ Closed(S, E) => f[N] \subseteq S
<1>. N \in Nat /\ Nodes = 0 .. N
  BY TreeAssumption DEF Nodes
<1>1. f[0] = {o} /\ \A n \in Nodes : f[n] \subseteq Nodes
  BY DEF Reaches
<1>2. \A n \in 1 .. N : n - 1 \in Nodes /\ f[n] = f[n - 1] \cup UNION {E[x] : x \in f[n - 1]}
  BY DEF Reaches
<1>3. IsFiniteSet(Nodes) /\ Cardinality(Nodes) = N + 1
  BY FS_Interval
<1>4. \A n \in Nodes : IsFiniteSet(f[n]) /\ Cardinality(f[n]) \in Nat
  BY <1>1, <1>3, FS_Subset, FS_CardinalityType
<1>5. Closed(f[N], E)
  <2>. DEFINE T == {n \in Nodes : Cardinality(f[n]) >= n + 1 \/ Closed(f[n], E)}
  <2>1. 0 \in T
    <3>1. Cardinality(f[0]) = 1
      BY <1>1, FS_Singleton
    <3>. QED  BY <3>1
  <2>2. ASSUME NEW n \in 1 .. N, n - 1 \in T PROVE n \in T
    <3>1. CASE Closed(f[n - 1], E)
      <4>1. \A x \in f[n - 1] : E[x] \subseteq f[n - 1]
        BY <3>1 DEF Closed
      <4>2. UNION {E[x] : x \in f[n - 1]} \subseteq f[n - 1]
        BY <4>1
      <4>3. f[n] = f[n - 1]
        BY <1>2, <4>2
      <4>. QED  BY <3>1, <4>3
    <3>2. CASE ~Closed(f[n - 1], E)
      <4>1. Cardinality(f[n - 1]) >= n
        BY <2>2, <3>2
      <4>2. f[n - 1] \subseteq f[n] /\ f[n - 1] # f[n]
        BY <1>2, <3>2 DEF Closed
      <4>3. Cardinality(f[n - 1]) <= Cardinality(f[n])
              /\ (Cardinality(f[n - 1]) = Cardinality(f[n]) => f[n - 1] = f[n])
        BY <1>4, <4>2, FS_Subset
      <4>. QED  BY <1>2, <1>4, <4>1, <4>2, <4>3
    <3>. QED  BY <3>1, <3>2
  <2>3. 0 .. N \subseteq T
    <3>. HIDE DEF T
    <3>. QED  BY <2>1, <2>2, InductionTo
  <2>4. CASE Cardinality(f[N]) >= N + 1
    <3>1. Cardinality(f[N]) <= Cardinality(Nodes)
            /\ (Cardinality(f[N]) = Cardinality(Nodes) => f[N] = Nodes)
      BY <1>1, <1>3, FS_Subset
    <3>2. f[N] = Nodes
      BY <1>3, <1>4, <2>4, <3>1
    <3>. QED  BY <3>2 DEF Closed
  <2>. QED  BY <2>3, <2>4
<1>6. o \in f[N] /\ \A x \in f[N] \ {o} : \E y \in f[N] : x \in E[y]
  <2>. DEFINE T == {n \in Nodes : o \in f[n] /\ \A x \in f[n] \ {o} : \E y \in f[n] : x \in E[y]}
  <2>1. 0 \in T
    BY <1>1
  <2>2. ASSUME NEW n \in 1 .. N, n - 1 \in T PROVE n \in T
    <3>1. /\ o \in f[n - 1] /\ \A x \in f[n - 1] \ {o} : \E y \in f[n - 1] : x \in E[y]
          /\ f[n] = f[n - 1] \cup UNION {E[x] : x \in f[n - 1]}
      BY <2>2, <1>2
    <3>. QED  BY <3>1
  <2>3. 0 .. N \subseteq T
    <3>. HIDE DEF T
    <3>. QED  BY <2>1, <2>2, InductionTo
  <2>. QED  BY <2>3
<1>7. ASSUME NEW S, o \in S, Closed(S, E) PROVE f[N] \subseteq S
  <2>. DEFINE T == {n \in Nodes : f[n] \subseteq S}
  <2>1. 0 \in T
    BY <1>1, <1>7
  <2>2. ASSUME NEW n \in 1 .. N, n - 1 \in T PROVE n \in T
    <3>1. f[n - 1] \subseteq S /\ \A x \in f[n - 1] : E[x] \subseteq S
      BY <2>2, <1>7 DEF Closed
    <3>2. UNION {E[x] : x \in f[n - 1]} \subseteq S
      BY <3>1
    <3>. QED  BY <1>2, <3>1, <3>2
  <2>3. 0 .. N \subseteq T
    <3>. HIDE DEF T
    <3>. QED  BY <2>1, <2>2, InductionTo
  <2>. QED  BY <2>3
<1>. QED  BY <1>1, <1>5, <1>6, <1>7

\* Reach(o, E) is the least set that has o and that E does not lead out of.
LEMMA ReachIs ==
    ASSUME NEW o \in Nodes, NEW E \in [Nodes -> SUBSET Nodes]
    PROVE  /\ Reach(o, E) \subseteq Nodes /\ o \in Reach(o, E) /\ Closed(Reach(o, E), E)
           /\ \A x \in Reach(o, E) \ {o} : \E y \in Reach(o, E) : x \in E[y]
           /\ \A S : o \in S /\ Closed(S, E) => Reach(o, E) \subseteq S
<1>. DEFINE W(f) == [n \in 0 .. N |-> IF n = 0 THEN {o}
                                      ELSE f[n - 1] \cup UNION {E[x] : x \in f[n - 1]}]
            within == CHOOSE f : f = W(f)
<1>. N \in Nat /\ Nodes = 0 .. N
  BY TreeAssumption DEF Nodes
<1>1. \E f : f = W(f)
  <2>1. PICK f : Reaches(f, o, E)
    BY ReachExists
  <2>2. f = [n \in Nodes |-> f[n]] /\ W(f) = [n \in Nodes |-> W(f)[n]]
    BY <2>1 DEF Reaches
  <2>3. \A n \in Nodes : f[n] = W(f)[n]
    <3>1. \A n \in 1 .. N : f[n] = f[n - 1] \cup UNION {E[x] : x \in f[n - 1]}
      BY <2>1 DEF Reaches
    <3>. QED  BY <2>1, <3>1 DEF Reaches
  <2>4. f = W(f)
    <3>. HIDE DEF W
    <3>. QED  BY <2>2, <2>3
  <2>. QED  BY <2>4
<1>2. within = W(within)
  <2>. HIDE DEF W
  <2>. QED  BY <1>1
<1>3. Reach(o, E) = within[N]
  BY DEF Reach
<1>. HIDE DEF within
<1>4. Reaches(within, o, E)
  <2>1. \A n \in Nodes : within[n] = W(within)[n]
    <3>. HIDE DEF W
    <3>. QED  BY <1>2
  <2>2. /\ within[0] = {o}
        /\ \A n \in 1 .. N : within[n] = within[n - 1] \cup UNION {E[x] : x \in within[n - 1]}
    <3>1. 0 \in Nodes /\ \A n \in 1 .. N : n \in Nodes /\ n # 0
      OBVIOUS
    <3>. QED  BY <2>1, <3>1
  <2>3. \A n \in Nodes : within[n] \subseteq Nodes
    <3>. DEFINE T == {n \in Nodes : within[n] \subseteq Nodes}
    <3>1. 0 \in T
      BY <2>2
    <3>2. ASSUME NEW n \in 1 .. N, n - 1 \in T PROVE n \in T
      <4>1. \A x \in within[n - 1] : E[x] \subseteq Nodes
        BY <3>2
      <4>. QED  BY <2>2, <3>2, <4>1
    <3>3. 0 .. N \subseteq T
      <4>. HIDE DEF T
      <4>. QED  BY <3>1, <3>2, InductionTo
    <3>. QED  BY <3>3
  <2>4. within = [n \in Nodes |-> within[n]]
    <3>1. \E h : within = [n \in Nodes |-> h[n]]
      BY <1>2
    <3>. QED  BY <3>1
  <2>. QED  BY <2>2, <2>3, <2>4 DEF Reaches
<1>. QED  BY <1>3, <1>4, RoundsEnough

Tree == children \in [Nodes -> SUBSET Objects]

\* Subtree(o) is o and what follows from it along children.
LEMMA SubtreeIs ==
    ASSUME Tree, NEW o \in Nodes
    PROVE  /\ Subtree(o) \subseteq Nodes /\ o \in Subtree(o) /\ Closed(Subtree(o), children)
           /\ \A x \in Subtree(o) \ {o} : \E y \in Subtree(o) : x \in children[y]
           /\ \A S : o \in S /\ Closed(S, children) => Subtree(o) \subseteq S
<1>1. children \in [Nodes -> SUBSET Nodes]
  BY DEF Tree, Objects, Nodes
<1>. QED  BY <1>1, ReachIs DEF Subtree

\* Below an object there are objects.
LEMMA BelowAreObjects ==
    ASSUME Tree, NEW o \in Nodes PROVE Subtree(o) \ {o} \subseteq Objects
<1>1. \A x \in Subtree(o) \ {o} : \E y \in Nodes : x \in children[y]
  BY SubtreeIs
<1>. QED  BY <1>1 DEF Tree

-----------------------------------------------------------------------------
(* The types *)

LoopFrames  == [loop : Loops, obj : Objects, i : Nat, it : -1 .. N + 1, back : BOOLEAN]
AddedFrames == [loop : {"added"}, obj : Objects, i : 1 .. 3, script : Scripts]
EraseFrames == [loop : {"erase"}, obj : Nodes, child : Objects]

\* The names of the loops, and what tells the kinds of frames apart
LEMMA Kinds ==
    /\ Loops = {"setup", "create", "start", "update", "destroy"}
    /\ Frame = LoopFrames \cup AddedFrames \cup EraseFrames
    /\ \A f \in Frame : /\ f.loop \in Loops => f \in LoopFrames
                        /\ f.loop = "added" => f \in AddedFrames
                        /\ f.loop = "erase" => f \in EraseFrames
                        /\ f.loop \in Loops \cup {"added", "erase"}
<1>1. Loops = {"setup", "create", "start", "update", "destroy"}
  BY DEF Loops, Method
<1>2. Frame = LoopFrames \cup AddedFrames \cup EraseFrames
  BY DEF Frame, LoopFrames, AddedFrames, EraseFrames, Nodes
<1>. QED  BY <1>1, <1>2 DEF LoopFrames, AddedFrames, EraseFrames

\* The stack as its top and the rest
LEMMA TopBelow ==
    ASSUME NEW S, NEW st \in Seq(S), st # << >>
    PROVE  /\ Head(st) \in S /\ Tail(st) \in Seq(S) /\ Head(st) = st[1]
           /\ Len(st) \in Nat \ {0} /\ Len(Tail(st)) = Len(st) - 1
           /\ \A k \in 1 .. Len(Tail(st)) : Tail(st)[k] = st[k + 1]
  OBVIOUS

\* A frame on top of others
LEMMA Pushed ==
    ASSUME NEW S, NEW f \in S, NEW st \in Seq(S)
    PROVE  /\ <<f>> \o st \in Seq(S) /\ <<f>> \o st # << >>
           /\ Len(st) \in Nat /\ Len(<<f>> \o st) = Len(st) + 1
           /\ (<<f>> \o st)[1] = f /\ \A k \in 1 .. Len(st) : (<<f>> \o st)[k + 1] = st[k]
           /\ \A k \in 2 .. Len(st) + 1 : (<<f>> \o st)[k] = st[k - 1]
  OBVIOUS

\* A loop begins as a frame.
LEMMA LoopIsFrame ==
    /\ \A name \in Loops, o \in Objects : Loop(name, o) \in LoopFrames /\ Loop(name, o) \in Frame
    /\ \A o \in Objects, s \in Scripts : Added(o, s) \in AddedFrames /\ Added(o, s) \in Frame
    /\ \A p \in Nodes, o \in Objects : Erase(p, o) \in EraseFrames /\ Erase(p, o) \in Frame
<1>. N \in Nat
  BY TreeAssumption
<1>1. \A name \in Loops, o \in Objects : Loop(name, o) \in LoopFrames
  BY DEF Loop, LoopFrames
<1>2. \A o \in Objects, s \in Scripts : Added(o, s) \in AddedFrames
  BY DEF Added, AddedFrames
<1>3. \A p \in Nodes, o \in Objects : Erase(p, o) \in EraseFrames
  BY DEF Erase, EraseFrames
<1>. QED  BY <1>1, <1>2, <1>3, Kinds

\* What an erased key does to the stack: iterators at it are marked, nothing else.
LEMMA WithoutIs ==
    ASSUME NEW st \in Seq(Frame), NEW p \in Nodes, NEW o \in Objects
    PROVE  LET w == Without(st, p, o)
           IN  /\ w \in Seq(Frame) /\ Len(w) = Len(st)
               /\ \A k \in 1 .. Len(st) :
                     \/ w[k] = st[k] /\ ~(st[k].loop \in Nested /\ st[k].obj = p /\ st[k].it = o)
                     \/ /\ st[k] \in LoopFrames /\ st[k].loop \in Nested /\ st[k].obj = p /\ st[k].it = o
                        /\ w[k] \in LoopFrames /\ w[k].loop = st[k].loop /\ w[k].obj = st[k].obj
                        /\ w[k].i = st[k].i /\ w[k].it = Erased /\ w[k].back = st[k].back
<1>. DEFINE w == Without(st, p, o)
            Hit(k) == st[k].loop \in Nested /\ st[k].obj = p /\ st[k].it = o
<1>. N \in Nat
  BY TreeAssumption
<1>1. w = [k \in 1 .. Len(st) |-> IF Hit(k) THEN [st[k] EXCEPT !.it = Erased] ELSE st[k]]
  BY DEF Without
<1>2. \A k \in 1 .. Len(st) : st[k] \in Frame
  OBVIOUS
<1>3. ASSUME NEW k \in 1 .. Len(st), Hit(k)
      PROVE  /\ st[k] \in LoopFrames /\ [st[k] EXCEPT !.it = Erased] \in LoopFrames
             /\ LET x == [st[k] EXCEPT !.it = Erased]
                IN  x.loop = st[k].loop /\ x.obj = st[k].obj /\ x.i = st[k].i /\ x.it = Erased /\ x.back = st[k].back
  <2>1. st[k] \in LoopFrames
    BY <1>2, <1>3, Kinds DEF Nested
  <2>. QED  BY <2>1 DEF LoopFrames, Erased
<1>4. Len(st) \in Nat
  OBVIOUS
<1>. HIDE DEF Hit
<1>5. \A k \in 1 .. Len(st) : w[k] = IF Hit(k) THEN [st[k] EXCEPT !.it = Erased] ELSE st[k]
  BY <1>1
<1>6. \A k \in 1 .. Len(st) : w[k] \in Frame
  BY <1>2, <1>3, <1>5, Kinds
<1>7. w \in Seq(Frame) /\ Len(w) = Len(st)
  <2>. HIDE DEF w
  <2>1. w \in [1 .. Len(st) -> Frame]
    BY <1>1, <1>6
  <2>. QED  BY <1>4, <2>1
<1>8. \A k \in 1 .. Len(st) : Hit(k) <=> st[k].loop \in Nested /\ st[k].obj = p /\ st[k].it = o
  BY DEF Hit
<1>. QED  BY <1>3, <1>5, <1>7, <1>8

\* The next key is one of the keys after c, or there is none.
LEMMA AfterIs ==
    ASSUME Tree, NEW p \in Nodes, NEW c \in -1 .. N + 1
    PROVE  /\ After(p, c) \in children[p] \cup {N + 1}
           /\ After(p, c) # N + 1 => After(p, c) > c
           /\ \A e \in children[p] : e > c => After(p, c) # N + 1 /\ After(p, c) <= e
           /\ After(p, c) \in 1 .. N + 1
<1>. N \in Nat
  BY TreeAssumption
<1>1. children[p] \subseteq 1 .. N
  BY DEF Tree, Objects
<1>2. CASE \E d \in children[p] : d > c
  <2>. DEFINE Least(d) == d \in children[p] /\ d > c /\ \A e \in children[p] : e > c => d <= e
  <2>1. \E d : Least(d)
    <3>. DEFINE S == {n \in Nat : n <= N => \A d \in children[p] : d > c /\ d <= n => \E x : Least(x)}
    <3>1. 0 \in S
      BY <1>1
    <3>2. ASSUME NEW n \in Nat, n \in S PROVE n + 1 \in S
      <4>. SUFFICES ASSUME n + 1 <= N, NEW d \in children[p], d > c, d <= n + 1
                    PROVE  \E x : Least(x)
        OBVIOUS
      <4>1. CASE \E e \in children[p] : e > c /\ e <= n
        BY <3>2, <4>1
      <4>2. CASE ~\E e \in children[p] : e > c /\ e <= n
        <5>1. Least(d)
          BY <1>1, <4>2
        <5>. QED  BY <5>1
      <4>. QED  BY <4>1, <4>2
    <3>3. Nat \subseteq S
      <4>. HIDE DEF S
      <4>. QED  BY <3>1, <3>2, SetInduction
    <3>4. N \in S
      BY <3>3
    <3>. QED  BY <1>1, <1>2, <3>4
  <2>2. After(p, c) = CHOOSE d : Least(d)
    BY <1>2 DEF After
  <2>3. Least(After(p, c))
    <3>. HIDE DEF Least
    <3>. QED  BY <2>1, <2>2
  <2>. QED  BY <1>1, <2>3
<1>3. CASE ~\E d \in children[p] : d > c
  BY <1>3 DEF After
<1>. QED  BY <1>2, <1>3

\* The part of TypeOK that calls of the program can change
CallTypes ==
    /\ Tree
    /\ parent \in [Objects -> -1 .. N]
    /\ components \in [Objects -> Seq(Scripts \cup {Transform})]
    /\ did \in [Objects -> SUBSET Flags]
    /\ enabled \subseteq Objects /\ early \subseteq Objects
    /\ due \subseteq Objects
    /\ calls \in 0 .. MaxCalls
    /\ fault \in {"none", "null", "wild", "iterator"}

\* A call leaves a stack of frames.
LEMMA SetUpIs ==
    ASSUME NEW o \in Objects
    PROVE  LET loops == SetUpLoops(o)
           IN  /\ loops \in Seq(LoopFrames)
               /\ \/ Len(loops) = 2 /\ "setup" \in did[o]
                  \/ Len(loops) = 3 /\ "setup" \notin did[o] /\ loops[1] = Loop("setup", o)
               /\ loops[Len(loops) - 1] = Loop("create", o) /\ loops[Len(loops)] = Loop("start", o)
<1>. DEFINE a == Loop("setup", o)
            b == Loop("create", o)
            c == Loop("start", o)
<1>1. a \in LoopFrames /\ b \in LoopFrames /\ c \in LoopFrames
  BY LoopIsFrame, Kinds
<1>2. SetUpLoops(o) = (IF "setup" \in did[o] THEN << >> ELSE <<a>>) \o <<b, c>>
  BY DEF SetUpLoops
<1>. HIDE DEF a, b, c
<1>3. CASE "setup" \in did[o]
  <2>1. SetUpLoops(o) = << >> \o <<b, c>>
    BY <1>2, <1>3
  <2>. QED  BY <1>1, <1>3, <2>1 DEF b, c
<1>4. CASE "setup" \notin did[o]
  <2>1. SetUpLoops(o) = <<a>> \o <<b, c>>
    BY <1>2, <1>4
  <2>2. /\ Len(<<a>> \o <<b, c>>) = 3 /\ <<a>> \o <<b, c>> \in Seq(LoopFrames)
        /\ (<<a>> \o <<b, c>>)[1] = a /\ (<<a>> \o <<b, c>>)[2] = b /\ (<<a>> \o <<b, c>>)[3] = c
    BY <1>1
  <2>. QED  BY <1>4, <2>1, <2>2 DEF a, b, c
<1>. QED  BY <1>3, <1>4

\* A call keeps the types of what calls change, and its stack is of frames.
LEMMA CallTyped ==
    ASSUME CallTypes, NEW st \in Seq(Frame), Call(st)
    PROVE  CallTypes' /\ stack' \in Seq(Frame)
<1>. N \in Nat /\ MaxCalls \in Nat
  BY TreeAssumption
<1>. USE DEF CallTypes
<1>0. calls' \in 0 .. MaxCalls
  BY DEF Call
<1>1. CASE AddComponent(st)
  <2>1. PICK o \in Objects, s \in Scripts :
            /\ components' = [components EXCEPT ![o] = Append(@, s)]
            /\ stack' = <<Added(o, s)>> \o st
    BY <1>1 DEF AddComponent
  <2>2. stack' \in Seq(Frame)
    BY <2>1, LoopIsFrame
  <2>3. components' \in [Objects -> Seq(Scripts \cup {Transform})]
    BY <2>1
  <2>. QED  BY <1>0, <1>1, <2>2, <2>3 DEF AddComponent, Tree
<1>2. CASE AddObject(st)
  <2>1. PICK o \in Objects, p \in Nodes :
            /\ Insert(p, o)
            /\ \/ early' = early \cup {o} /\ stack' = st /\ UNCHANGED did
               \/ /\ early' = early \ {o}
                  /\ did' = [did EXCEPT ![o] = @ \cup {"setup"}]
                  /\ stack' = SetUpLoops(o) \o st
            /\ due' = due \ Subtree(o)
            /\ UNCHANGED <<components, enabled, fault>>
    BY <1>2 DEF AddObject, Nodes
  <2>2. SetUpLoops(o) \in Seq(Frame)
    <3>1. LoopFrames \subseteq Frame
      BY Kinds
    <3>. QED  BY <3>1, SetUpIs
  <2>3. stack' \in Seq(Frame)
    <3>1. SetUpLoops(o) \o st \in Seq(Frame)
      BY <2>2
    <3>. QED  BY <2>1, <3>1
  <2>4. Tree' /\ parent' \in [Objects -> -1 .. N]
    BY <2>1 DEF Insert, Tree, Nodes
  <2>5. did' \in [Objects -> SUBSET Flags] /\ early' \subseteq Objects
    BY <2>1 DEF Flags
  <2>. QED  BY <1>0, <2>1, <2>3, <2>4, <2>5
<1>3. ASSUME NEW p \in Nodes, NEW o \in Objects, Removal(p, o, st), UNCHANGED fault
      PROVE  CallTypes' /\ stack' \in Seq(Frame)
  <2>1. stack' \in Seq(Frame)
    <3>1. Loop("destroy", o) \in Frame /\ Erase(p, o) \in Frame
      BY LoopIsFrame, Kinds
    <3>2. <<Loop("destroy", o), Erase(p, o)>> \o st \in Seq(Frame)
      BY <3>1
    <3>3. Without(st, p, o) \in Seq(Frame)
      BY WithoutIs
    <3>. QED  BY <1>3, <3>2, <3>3 DEF Removal
  <2>2. Tree'
    BY <1>3 DEF Removal, Tree, Nodes
  <2>. QED  BY <1>0, <1>3, <2>1, <2>2 DEF Removal
<1>4. CASE RemoveObject(st)
  <2>1. PICK p \in Nodes : \E o \in children[p] : Removal(p, o, st) /\ UNCHANGED fault
    BY <1>4 DEF RemoveObject, Nodes
  <2>. QED  BY <1>3, <2>1 DEF Tree
<1>5. CASE Destroy(st)
  <2>1. PICK o \in Objects :
            \/ parent[o] \in Objects /\ Removal(parent[o], o, st) /\ UNCHANGED fault
            \/ /\ fault' \in {"null", "wild"} /\ stack' = st /\ UNCHANGED <<tree, due>>
    BY <1>5 DEF Destroy
  <2>2. CASE parent[o] \in Objects /\ Removal(parent[o], o, st) /\ UNCHANGED fault
    <3>1. parent[o] \in Nodes
      BY <2>2 DEF Objects, Nodes
    <3>. QED  BY <1>3, <2>2, <3>1
  <2>. QED  BY <1>0, <2>1, <2>2 DEF tree, Tree
<1>6. CASE SetEnabled(st)
  BY <1>0, <1>6 DEF SetEnabled, Tree
<1>. QED  BY <1>1, <1>2, <1>4, <1>5, <1>6 DEF Call

\* At the start there are no children and no frames.
LEMMA TypeInit == Init => TypeOK
<1>. N \in Nat /\ MaxCalls \in Nat
  BY TreeAssumption
<1>. SUFFICES ASSUME Init PROVE TypeOK
  OBVIOUS
<1>1. components \in [Objects -> Seq(Scripts \cup {Transform})]
  BY DEF Init
<1>2. stack \in Seq(Frame)
  BY DEF Init
<1>. QED  BY <1>1, <1>2 DEF Init, TypeOK, Wild

\* A callback with one of these names, at a place in a loop
LEMMA CallBackTyped ==
    ASSUME TypeOK, NEW st \in Seq(Frame), NEW s, NEW m \in {"OnCreate", "Start", "Update", "OnDestroy"},
           CallBack(s, m, st), UNCHANGED listed
    PROVE  TypeOK'
<1>1. CallTypes
  BY DEF TypeOK, CallTypes, Tree, Nodes
<1>2. CallTypes' /\ stack' \in Seq(Frame)
  <2>1. CASE Call(st)
    BY <1>1, <2>1, CallTyped
  <2>2. CASE stack' = st /\ UNCHANGED <<tree, due, calls, fault>>
    BY <1>1, <2>2 DEF CallTypes, Tree, tree
  <2>. QED  BY <2>1, <2>2 DEF CallBack
<1>3. log' \in [Scripts -> SUBSET Marks]
  <2>1. \E T \in SUBSET Marks : log' = [log EXCEPT ![s] = @ \cup T]
    <3>. DEFINE A == IF m = "Update" /\ "Start" \notin log[s] THEN {"raw"} ELSE {}
                B == IF "OnDestroy" \in log[s] THEN {"late"} ELSE {}
    <3>1. log' = [log EXCEPT ![s] = log[s] \cup {m} \cup A \cup B]
      BY DEF CallBack
    <3>2. A \in SUBSET Marks /\ B \in SUBSET Marks /\ m \in Marks
      BY DEF Marks
    <3>. HIDE DEF A, B
    <3>3. log[s] \cup {m} \cup A \cup B = log[s] \cup ({m} \cup A \cup B)
      OBVIOUS
    <3>4. log' = [log EXCEPT ![s] = @ \cup ({m} \cup A \cup B)]
      <4>. DEFINE X == log[s] \cup {m} \cup A \cup B
                  Y == log[s] \cup ({m} \cup A \cup B)
      <4>1. log' = [log EXCEPT ![s] = X] /\ X = Y
        BY <3>1, <3>3
      <4>. HIDE DEF X, Y
      <4>2. log' = [log EXCEPT ![s] = Y]
        BY <4>1
      <4>. QED  BY <4>2 DEF Y
    <3>. DEFINE T == {m} \cup A \cup B
    <3>5. T \in SUBSET Marks /\ log' = [log EXCEPT ![s] = @ \cup T]
      BY <3>2, <3>4
    <3>. HIDE DEF T
    <3>. QED  BY <3>5
  <2>2. log \in [Scripts -> SUBSET Marks]
    BY DEF TypeOK
  <2>3. PICK T \in SUBSET Marks : log' = [log EXCEPT ![s] = @ \cup T]
    BY <2>1
  <2>. QED  BY <2>2, <2>3
<1>4. visits' \in [Objects -> 0 .. 2] /\ listed' \subseteq Objects
  BY DEF CallBack, TypeOK
<1>. QED  BY <1>2, <1>3, <1>4 DEF TypeOK, CallTypes, Tree, Nodes

\* The frame on top of a loop under way, and the stack as it is with that frame changed
LEMMA InLoop ==
    ASSUME stack \in Seq(Frame), stack # << >>
    PROVE  /\ Top \in Frame /\ Below \in Seq(Frame) /\ Top = stack[1]
           /\ Len(stack) \in Nat \ {0} /\ Len(Below) = Len(stack) - 1
           /\ \A k \in 1 .. Len(Below) : Below[k] = stack[k + 1]
           /\ Top.loop \in Loops => Top \in LoopFrames /\ Top.obj \in Objects
           /\ Top.loop = "added" => Top \in AddedFrames
           /\ Top.loop = "erase" => Top \in EraseFrames
<1>1. Top \in Frame /\ Below \in Seq(Frame) /\ Top = stack[1]
           /\ Len(stack) \in Nat \ {0} /\ Len(Below) = Len(stack) - 1
           /\ \A k \in 1 .. Len(Below) : Below[k] = stack[k + 1]
  BY TopBelow DEF Top, Below
<1>2. Top.loop \in Loops => Top \in LoopFrames /\ Top.obj \in Objects
  BY <1>1, Kinds DEF LoopFrames
<1>. QED  BY <1>1, <1>2, Kinds

\* Every step keeps the types.
LEMMA TypeNext == TypeOK /\ [Next]_vars => TypeOK'
<1>. SUFFICES ASSUME TypeOK, [Next]_vars PROVE TypeOK'
  OBVIOUS
<1>. N \in Nat /\ MaxCalls \in Nat
  BY TreeAssumption
<1>1. /\ Tree /\ components \in [Objects -> Seq(Scripts \cup {Transform})] /\ stack \in Seq(Frame)
      /\ did \in [Objects -> SUBSET Flags]
  BY DEF TypeOK, Tree, Nodes
<1>2. CASE UNCHANGED vars
  BY <1>2 DEF TypeOK, vars, tree, pass
<1>3. ASSUME NEW f \in Frame, Below \in Seq(Frame) PROVE <<f>> \o Below \in Seq(Frame)
  BY <1>3
<1>4. CASE Step
  <2>1. UNCHANGED listed
    BY <1>4 DEF Step
  <2>2. ASSUME NEW loops, In(loops)
        PROVE  /\ stack # << >> /\ Top \in Frame /\ Below \in Seq(Frame) /\ Top.loop \in loops
               /\ Top.loop \in Loops => Top \in LoopFrames /\ Top.obj \in Objects
               /\ Top.loop = "added" => Top \in AddedFrames
               /\ Top.loop = "erase" => Top \in EraseFrames
    BY <1>1, <2>2, InLoop DEF In
  <2>3. Nested \subseteq Loops
    BY Kinds DEF Nested
  <2>4. CASE Enter
    <3>. USE <2>4 DEF Enter
    <3>1. Top \in LoopFrames /\ Below \in Seq(Frame) /\ Top.obj \in Objects
      BY <2>2
    <3>2. [Top EXCEPT !.i = FirstScript(Top.obj)] \in LoopFrames
      BY <3>1 DEF LoopFrames, FirstScript
    <3>3. stack' \in Seq(Frame)
      BY <1>3, <3>1, <3>2, Kinds
    <3>4. did' \in [Objects -> SUBSET Flags]
      BY <1>1, <3>1 DEF Flags
    <3>. QED  BY <2>1, <3>3, <3>4 DEF TypeOK, pass
  <2>5. CASE Turn
    <3>. USE <2>5 DEF Turn
    <3>1. Top \in LoopFrames /\ Below \in Seq(Frame) /\ Top.obj \in Objects /\ Top.loop \in Loops
      BY <2>2
    <3>2. [Top EXCEPT !.i = @ + 1] \in LoopFrames
      BY <3>1 DEF LoopFrames
    <3>3. <<[Top EXCEPT !.i = @ + 1]>> \o Below \in Seq(Frame)
      BY <1>3, <3>1, <3>2, Kinds
    <3>4. Method[Top.loop] \in {"OnCreate", "Start", "Update", "OnDestroy"}
      BY <3>1, Kinds DEF Method
    <3>. QED  BY <2>1, <3>3, <3>4, CallBackTyped
  <2>6. CASE Return
    BY <2>1, <2>2, <2>6 DEF Return, TypeOK, tree, pass
  <2>7. CASE ToChildren
    <3>. USE <2>7 DEF ToChildren
    <3>1. Top \in LoopFrames /\ Below \in Seq(Frame) /\ Top.obj \in Objects
      BY <2>2, <2>3
    <3>2. After(Top.obj, 0) \in -1 .. N + 1
      <4>1. Top.obj \in Nodes /\ 0 \in -1 .. N + 1
        BY <3>1 DEF Objects, Nodes
      <4>2. After(Top.obj, 0) \in 1 .. N + 1
        BY <1>1, <4>1, AfterIs
      <4>. QED  BY <4>2
    <3>3. [Top EXCEPT !.it = After(Top.obj, 0)] \in LoopFrames
      BY <3>1, <3>2 DEF LoopFrames
    <3>4. stack' \in Seq(Frame)
      BY <1>3, <3>1, <3>3, Kinds
    <3>. QED  BY <2>1, <3>4 DEF TypeOK, tree, pass
  <2>8. CASE Child
    <3>. USE <2>8 DEF Child
    <3>1. Top \in LoopFrames /\ Below \in Seq(Frame) /\ Top.obj \in Objects /\ Top.loop \in Loops
      BY <2>2, <2>3
    <3>2. [Top EXCEPT !.back = TRUE] \in Frame /\ Loop(Top.loop, Top.it) \in Frame
      BY <3>1, LoopIsFrame, Kinds DEF LoopFrames
    <3>3. stack' \in Seq(Frame)
      BY <3>1, <3>2
    <3>4. visits' \in [Objects -> 0 .. 2]
      BY DEF TypeOK
    <3>. QED  BY <2>1, <3>3, <3>4 DEF TypeOK, tree
  <2>9. CASE NextChild
    <3>. USE <2>9 DEF NextChild
    <3>1. Top \in LoopFrames /\ Below \in Seq(Frame) /\ Top.obj \in Objects
      BY <2>2, <2>3
    <3>2. CASE Top.it # Erased /\ stack' = <<Advance(Top)>> \o Below /\ UNCHANGED fault
      <4>1. After(Top.obj, Top.it) \in -1 .. N + 1
        <5>1. Top.obj \in Nodes /\ Top.it \in -1 .. N + 1
          BY <3>1 DEF Objects, Nodes, LoopFrames
        <5>2. After(Top.obj, Top.it) \in 1 .. N + 1
          BY <1>1, <5>1, AfterIs
        <5>. QED  BY <5>2
      <4>2. Advance(Top) \in LoopFrames
        BY <3>1, <4>1 DEF LoopFrames, Advance
      <4>3. stack' \in Seq(Frame)
        BY <1>3, <3>1, <3>2, <4>2, Kinds
      <4>. QED  BY <2>1, <3>2, <4>3 DEF TypeOK, tree, pass
    <3>. QED  BY <2>1, <3>2 DEF TypeOK, tree, pass
  <2>10. CASE LastChild
    <3>. USE <2>10 DEF LastChild
    <3>1. Below \in Seq(Frame) /\ Top.obj \in Objects
      BY <2>2, <2>3
    <3>2. components' \in [Objects -> Seq(Scripts \cup {Transform})]
      BY <1>1, <3>1 DEF Cleared
    <3>. QED  BY <2>1, <3>1, <3>2 DEF TypeOK, pass
  <2>11. CASE EraseChild
    <3>. USE <2>11 DEF EraseChild
    <3>1. Below \in Seq(Frame) /\ Top.obj \in Nodes /\ Top.child \in Objects
      BY <2>2 DEF EraseFrames
    <3>2. stack' \in Seq(Frame)
      BY <3>1, WithoutIs
    <3>3. children' \in [Nodes -> SUBSET Objects]
      BY <1>1, <3>1 DEF Tree
    <3>. QED  BY <2>1, <3>2, <3>3 DEF TypeOK, pass, Nodes
  <2>12. CASE TurnOfAdded
    <3>. USE <2>12 DEF TurnOfAdded
    <3>1. Top \in AddedFrames /\ Below \in Seq(Frame)
      BY <2>2
    <3>2. Top.i \in {1, 2} /\ AddedCalls[Top.i].method \in {"OnCreate", "Start"}
      BY DEF AddedCalls
    <3>3. [Top EXCEPT !.i = @ + 1] \in AddedFrames
      BY <3>1, <3>2 DEF AddedFrames
    <3>4. <<[Top EXCEPT !.i = @ + 1]>> \o Below \in Seq(Frame)
      BY <1>3, <3>1, <3>3, Kinds
    <3>5. CASE CallBack(Top.script, AddedCalls[Top.i].method, <<[Top EXCEPT !.i = @ + 1]>> \o Below)
      BY <2>1, <3>2, <3>4, <3>5, CallBackTyped
    <3>6. CASE stack' = <<[Top EXCEPT !.i = @ + 1]>> \o Below /\ UNCHANGED <<tree, log, pass, calls, fault>>
      BY <2>1, <3>4, <3>6 DEF TypeOK, tree, pass
    <3>. QED  BY <3>5, <3>6
  <2>13. CASE ReturnFromAdd
    BY <2>1, <2>2, <2>13 DEF ReturnFromAdd, TypeOK, tree, pass
  <2>. QED  BY <1>4, <2>4, <2>5, <2>6, <2>7, <2>8, <2>9, <2>10, <2>11, <2>12, <2>13 DEF Step
<1>5. 0 \in Nodes /\ Subtree(App) \ {App} \subseteq Objects
  BY <1>1, BelowAreObjects DEF Nodes, App
<1>6. CASE Main
  <2>1. CallTypes /\ << >> \in Seq(Frame) /\ Call(<< >>)
    BY <1>6 DEF Main, TypeOK, CallTypes, Tree, Nodes
  <2>2. CallTypes' /\ stack' \in Seq(Frame)
    BY <2>1, CallTyped
  <2>. QED  BY <1>5, <1>6, <2>2 DEF Main, TypeOK, CallTypes, Tree, Nodes
<1>7. CASE Update
  <2>1. PICK o \in enabled \cap listed' :
          /\ stack' = <<Loop("update", o)>> /\ due' = Active(o)
          /\ visits' = [x \in Objects |-> IF x = o THEN 1 ELSE 0]
    BY <1>7 DEF Update
  <2>2. o \in Objects /\ Loop("update", o) \in Frame
    BY LoopIsFrame, Kinds DEF TypeOK
  <2>3. Active(o) \subseteq Objects
    <3>. DEFINE E == [p \in 0 .. N |-> children[p] \cap enabled]
    <3>1. E \in [Nodes -> SUBSET Nodes] /\ \A x \in Nodes : E[x] \subseteq Objects
      BY <1>1 DEF Tree, Nodes, Objects
    <3>2. o \in Nodes
      BY <2>2 DEF Nodes, Objects
    <3>. HIDE DEF E
    <3>3. \A x \in Reach(o, E) \ {o} : \E y \in Nodes : x \in E[y]
      BY <3>1, <3>2, ReachIs
    <3>4. Reach(o, E) \subseteq Objects
      BY <2>2, <3>1, <3>3
    <3>. QED  BY <3>4 DEF Active, E
  <2>4. stack' \in Seq(Frame) /\ visits' \in [Objects -> 0 .. 2]
    BY <2>1, <2>2
  <2>. QED  BY <1>5, <1>7, <2>1, <2>3, <2>4 DEF Update, TypeOK, tree
<1>. QED  BY <1>2, <1>4, <1>6, <1>7 DEF Next

-----------------------------------------------------------------------------
(* The tree: who holds whom *)

\* A parent's rank is below that of its children: there is such a rank where there is
\* no way back to an object from below it.
Ranks(ch) == {r \in [Nodes -> Nat] : \A p \in Nodes : \A o \in ch[p] : r[p] < r[o]}

Acyclic  == \E r : r \in Ranks(children)
ParentOk == \A p \in Nodes : \A o \in children[p] : parent[o] = p

TreeInv == TypeOK /\ Acyclic /\ ParentOk

Attaches(p, o) ==
    /\ p \in Nodes /\ o \in Objects /\ ~Placed(o) /\ p \notin Subtree(o)
    /\ children' = [children EXCEPT ![p] = @ \cup {o}]
    /\ parent' = [parent EXCEPT ![o] = p]

Detaches(p, o) ==
    /\ p \in Nodes /\ o \in Objects
    /\ children' = [children EXCEPT ![p] = @ \ {o}] /\ UNCHANGED parent

TreeStep ==
    \/ UNCHANGED <<children, parent>>
    \/ \E p, o : Attaches(p, o)
    \/ \E p, o : Detaches(p, o)

\* What a call does to the tree
LEMMA CallOnTree ==
    ASSUME Tree, NEW st, Call(st) PROVE TreeStep
<1>1. CASE AddComponent(st)
  BY <1>1 DEF AddComponent, TreeStep
<1>2. CASE AddObject(st)
  <2>1. PICK o \in Objects, p \in Nodes : ~Placed(o) /\ p \notin Subtree(o) /\ Insert(p, o)
    BY <1>2 DEF AddObject, Nodes
  <2>2. Attaches(p, o)
    BY <2>1 DEF Insert, Attaches
  <2>. QED  BY <2>2 DEF TreeStep
<1>3. ASSUME NEW p \in Nodes, NEW o \in Objects, Removal(p, o, st) PROVE TreeStep
  BY <1>3 DEF Removal, Detaches, TreeStep
<1>4. CASE RemoveObject(st)
  <2>1. PICK p \in Nodes : \E o \in children[p] : Removal(p, o, st)
    BY <1>4 DEF RemoveObject, Nodes
  <2>. QED  BY <1>3, <2>1 DEF Tree
<1>5. CASE Destroy(st)
  <2>1. PICK o \in Objects : \/ parent[o] \in Objects /\ Removal(parent[o], o, st)
                             \/ UNCHANGED tree
    BY <1>5 DEF Destroy
  <2>2. Objects \subseteq Nodes
    BY DEF Objects, Nodes
  <2>. QED  BY <1>3, <2>1, <2>2 DEF tree, TreeStep
<1>6. CASE SetEnabled(st)
  BY <1>6 DEF SetEnabled, TreeStep
<1>. QED  BY <1>1, <1>2, <1>4, <1>5, <1>6 DEF Call

\* What a step does to it
LEMMA StepOnTree == TypeOK /\ [Next]_vars => TreeStep
<1>. SUFFICES ASSUME TypeOK, [Next]_vars PROVE TreeStep
  OBVIOUS
<1>1. Tree /\ stack \in Seq(Frame)
  BY DEF TypeOK, Tree, Nodes
<1>2. CASE UNCHANGED vars
  BY <1>2 DEF vars, tree, TreeStep
<1>3. ASSUME NEW s, NEW m, NEW st, CallBack(s, m, st) PROVE TreeStep
  BY <1>1, <1>3, CallOnTree DEF CallBack, tree, TreeStep
<1>4. CASE Enter \/ Return \/ ToChildren \/ Child \/ NextChild \/ LastChild \/ ReturnFromAdd
  BY <1>4 DEF Enter, Return, ToChildren, Child, NextChild, LastChild, ReturnFromAdd, tree, TreeStep
<1>5. CASE Turn
  BY <1>3, <1>5 DEF Turn
<1>6. CASE EraseChild
  <2>1. Top \in EraseFrames
    BY <1>1, <1>6, InLoop DEF EraseChild, In
  <2>2. Detaches(Top.obj, Top.child)
    BY <1>6, <2>1 DEF EraseChild, Detaches, EraseFrames
  <2>. QED  BY <2>2 DEF TreeStep
<1>7. CASE TurnOfAdded
  BY <1>3, <1>7 DEF TurnOfAdded, tree, TreeStep
<1>8. CASE Main
  BY <1>1, <1>8, CallOnTree DEF Main
<1>9. CASE Update
  BY <1>9 DEF Update, tree, TreeStep
<1>. QED  BY <1>2, <1>4, <1>5, <1>6, <1>7, <1>8, <1>9 DEF Next, Step

\* Who is below an object has a higher rank.
LEMMA RankBelow ==
    ASSUME Tree, NEW r \in Ranks(children), NEW o \in Nodes, NEW x \in Subtree(o), x # o
    PROVE  x \in Nodes /\ r[o] < r[x]
<1>. DEFINE S == {y \in Nodes : y = o \/ r[o] < r[y]}
<1>. N \in Nat
  BY TreeAssumption
<1>1. r \in [Nodes -> Nat] /\ \A p \in Nodes : \A c \in children[p] : r[p] < r[c]
  BY DEF Ranks
<1>2. ASSUME NEW y \in S, NEW c \in children[y] PROVE c \in S
  <2>1. y \in Nodes /\ c \in Nodes
    BY DEF Tree, Objects, Nodes
  <2>2. r[y] < r[c] /\ r[y] \in Nat /\ r[c] \in Nat /\ r[o] \in Nat
    BY <1>1, <2>1
  <2>. QED  BY <2>1, <2>2
<1>3. Closed(S, children)
  BY <1>2 DEF Closed
<1>4. Subtree(o) \subseteq S
  BY <1>3, SubtreeIs
<1>. QED  BY <1>4

\* A rank for the tree with one more edge
LEMMA RankAttached ==
    ASSUME Tree, NEW p, NEW o, Attaches(p, o), Acyclic PROVE Acyclic'
<1>. N \in Nat
  BY TreeAssumption
<1>1. PICK r : r \in Ranks(children)
  BY DEF Acyclic
<1>2. r \in [Nodes -> Nat] /\ \A q \in Nodes : \A c \in children[q] : r[q] < r[c]
  BY <1>1 DEF Ranks
<1>3. p \in Nodes /\ o \in Nodes /\ Subtree(o) \subseteq Nodes /\ o \in Subtree(o) /\ p \notin Subtree(o)
      /\ Closed(Subtree(o), children)
  BY SubtreeIs DEF Attaches, Objects, Nodes
<1>. DEFINE s == [x \in Nodes |-> IF x \in Subtree(o) THEN r[x] + r[p] + 1 ELSE r[x]]
<1>4. s \in [Nodes -> Nat]
  BY <1>2, <1>3
<1>5. ASSUME NEW q \in Nodes, NEW c \in children'[q] PROVE s[q] < s[c]
  <2>1. CASE c \in children[q]
    <3>1. c \in Nodes /\ r[q] < r[c] /\ r[q] \in Nat /\ r[c] \in Nat /\ r[p] \in Nat
      BY <1>2, <1>3, <2>1 DEF Tree, Objects, Nodes
    <3>2. q \in Subtree(o) => c \in Subtree(o)
      BY <1>3, <2>1 DEF Closed
    <3>. QED  BY <3>1, <3>2
  <2>2. CASE c \notin children[q]
    <3>1. q = p /\ c = o
      BY <1>5, <2>2 DEF Attaches, Tree
    <3>2. r[p] \in Nat /\ r[o] \in Nat
      BY <1>2, <1>3
    <3>. QED  BY <1>3, <3>1, <3>2
  <2>. QED  BY <2>1, <2>2
<1>6. s \in Ranks(children')
  BY <1>4, <1>5 DEF Ranks
<1>. QED  BY <1>6 DEF Acyclic

\* Every step keeps the tree: typed, with a rank, parents and children in agreement.
LEMMA TreeNext == TreeInv /\ [Next]_vars => TreeInv'
<1>. SUFFICES ASSUME TreeInv, [Next]_vars PROVE TreeInv'
  OBVIOUS
<1>1. TypeOK /\ TypeOK' /\ Tree /\ Acyclic /\ ParentOk /\ TreeStep
  BY TypeNext, StepOnTree DEF TreeInv, TypeOK, Tree, Nodes
<1>2. CASE UNCHANGED <<children, parent>>
  BY <1>1, <1>2 DEF TreeInv, Acyclic, ParentOk
<1>3. ASSUME NEW p, NEW o, Attaches(p, o) PROVE TreeInv'
  <2>1. Acyclic'
    BY <1>1, <1>3, RankAttached
  <2>2. \A q \in Nodes : o \notin children[q]
    BY <1>3 DEF Attaches, Placed, Nodes
  <2>3. ParentOk'
    BY <1>1, <1>3, <2>2 DEF ParentOk, Attaches, Tree, TypeOK
  <2>. QED  BY <1>1, <2>1, <2>3 DEF TreeInv
<1>4. ASSUME NEW p, NEW o, Detaches(p, o) PROVE TreeInv'
  <2>1. \A q \in Nodes : children'[q] \subseteq children[q]
    BY <1>1, <1>4 DEF Detaches, Tree
  <2>2. Acyclic'
    BY <1>1, <2>1 DEF Acyclic, Ranks
  <2>3. ParentOk'
    BY <1>1, <1>4, <2>1 DEF ParentOk, Detaches
  <2>. QED  BY <1>1, <2>2, <2>3 DEF TreeInv
<1>. QED  BY <1>1, <1>2, <1>3, <1>4 DEF TreeStep

\* The tree of the beginning, in which nothing was added, is one.
LEMMA TreeInit == Init => TreeInv
<1>. SUFFICES ASSUME Init PROVE TreeInv
  OBVIOUS
<1>1. \A p \in Nodes : children[p] = {}
  BY DEF Init, Nodes
<1>2. [x \in Nodes |-> 0] \in Ranks(children)
  BY <1>1 DEF Ranks
<1>. QED  BY <1>1, <1>2, TypeInit DEF TreeInv, Acyclic, ParentOk

\* Whatever the callbacks do to the tree: Destroy() goes to the parent that holds the
\* object, and the state has its types.
THEOREM ParentHoldsAlways == Spec => []ParentHolds
<1>1. TreeInv => ParentHolds
  BY DEF TreeInv, ParentOk, ParentHolds, Nodes
<1>. QED  BY <1>1, TreeInit, TreeNext, PTL DEF Spec

-----------------------------------------------------------------------------
(* What happens to the stack: frames are put on top, the top frame is changed or *)
(* taken off, iterators are marked.                                              *)

\* new has d frames on top of st.
Above(new, d, st) ==
    /\ new \in Seq(Frame) /\ d \in Nat /\ Len(new) = d + Len(st)
    /\ \A k \in 1 .. Len(st) : new[k + d] = st[k]
    /\ \A k \in d + 1 .. Len(new) : k - d \in 1 .. Len(st) /\ new[k] = st[k - d]

\* new is st but for its top frame, which is f.
Retopped(new, f, st) ==
    /\ new \in Seq(Frame) /\ Len(new) = Len(st) /\ Len(st) >= 1
    /\ new[1] = f /\ \A k \in 2 .. Len(st) : new[k] = st[k]

\* new is st but for iterators at o in p's children, which are marked.
Marked(new, p, o, st) ==
    /\ new \in Seq(Frame) /\ Len(new) = Len(st)
    /\ \A k \in 1 .. Len(st) :
          \/ new[k] = st[k] /\ ~(st[k].loop \in Nested /\ st[k].obj = p /\ st[k].it = o)
          \/ /\ st[k] \in LoopFrames /\ st[k].loop \in Nested /\ st[k].obj = p /\ st[k].it = o
             /\ new[k] \in LoopFrames /\ new[k].loop = st[k].loop /\ new[k].obj = st[k].obj
             /\ new[k].i = st[k].i /\ new[k].it = Erased /\ new[k].back = st[k].back

\* A stack with one frame put on it.
LEMMA AboveOne ==
    ASSUME NEW f \in Frame, NEW st \in Seq(Frame)
    PROVE  Above(<<f>> \o st, 1, st) /\ (<<f>> \o st)[1] = f
BY DEF Above

\* A stack with two frames put on it.
LEMMA AboveTwo ==
    ASSUME NEW f \in Frame, NEW g \in Frame, NEW st \in Seq(Frame)
    PROVE  Above(<<f, g>> \o st, 2, st) /\ (<<f, g>> \o st)[1] = f /\ (<<f, g>> \o st)[2] = g
BY DEF Above

\* A stack with the loops on it that set an object up: _start() lowest, _create() above it.
LEMMA AboveSetUp ==
    ASSUME NEW o \in Objects, NEW st \in Seq(Frame)
    PROVE  LET loops == SetUpLoops(o)
               new   == loops \o st
           IN  /\ Above(new, Len(loops), st) /\ Len(loops) \in {2, 3}
               /\ \A k \in 1 .. Len(loops) :
                     /\ new[k] \in LoopFrames /\ new[k].loop \in {"setup", "create", "start"}
                     /\ new[k].obj = o /\ new[k].i = 0
               /\ new[Len(loops) - 1].loop = "create" /\ new[Len(loops)].loop = "start"
               /\ new[1].loop # "start" /\ (Len(loops) = 3 => new[1].loop = "setup")
<1>. DEFINE loops == SetUpLoops(o)
            L == Len(loops)
<1>1. /\ loops \in Seq(LoopFrames)
      /\ L = 2 \/ (L = 3 /\ loops[1] = Loop("setup", o))
      /\ loops[L - 1] = Loop("create", o) /\ loops[L] = Loop("start", o)
  BY SetUpIs
<1>2. loops \in Seq(Frame)
  BY <1>1, Kinds
<1>. HIDE DEF loops
<1>3. Above(loops \o st, L, st) /\ \A k \in 1 .. L : (loops \o st)[k] = loops[k]
  <2>1. L \in Nat /\ loops \o st \in Seq(Frame) /\ Len(loops \o st) = L + Len(st)
    BY <1>2
  <2>2. \A k \in 1 .. L : (loops \o st)[k] = loops[k]
    BY <1>2
  <2>3. \A k \in 1 .. Len(st) : (loops \o st)[k + L] = st[k]
    BY <1>2
  <2>4. \A k \in L + 1 .. L + Len(st) : k - L \in 1 .. Len(st) /\ (loops \o st)[k] = st[k - L]
    BY <1>2
  <2>. QED  BY <2>1, <2>2, <2>3, <2>4 DEF Above
<1>4. /\ \A k \in 1 .. L : loops[k] \in LoopFrames /\ loops[k].loop \in {"setup", "create", "start"}
                             /\ loops[k].obj = o /\ loops[k].i = 0
      /\ loops[L - 1].loop = "create" /\ loops[L].loop = "start" /\ loops[1].loop # "start"
      /\ L = 3 => loops[1].loop = "setup"
  <2>1. /\ loops[L - 1].loop = "create" /\ loops[L - 1].obj = o /\ loops[L - 1].i = 0
        /\ loops[L].loop = "start" /\ loops[L].obj = o /\ loops[L].i = 0
        /\ L = 3 => loops[1].loop = "setup" /\ loops[1].obj = o /\ loops[1].i = 0
    <3>1. \A name : Loop(name, o).loop = name /\ Loop(name, o).obj = o /\ Loop(name, o).i = 0
      BY DEF Loop
    <3>2. /\ loops[L - 1].loop = "create" /\ loops[L - 1].obj = o /\ loops[L - 1].i = 0
      BY <1>1, <3>1
    <3>3. /\ loops[L].loop = "start" /\ loops[L].obj = o /\ loops[L].i = 0
      BY <1>1, <3>1
    <3>4. L = 3 => loops[1] = Loop("setup", o)
      BY <1>1
    <3>5. L = 3 => loops[1].loop = "setup" /\ loops[1].obj = o /\ loops[1].i = 0
      BY <3>1, <3>4
    <3>. QED  BY <3>2, <3>3, <3>5
  <2>2. \A k \in 1 .. L : loops[k] \in LoopFrames /\ (k = L \/ k = L - 1 \/ (L = 3 /\ k = 1))
    BY <1>1
  <2>3. ASSUME NEW k \in 1 .. L
        PROVE  /\ loops[k] \in LoopFrames /\ loops[k].loop \in {"setup", "create", "start"}
               /\ loops[k].obj = o /\ loops[k].i = 0
    <3>1. CASE k = L
      BY <2>1, <2>2, <3>1
    <3>2. CASE k = L - 1
      BY <2>1, <2>2, <3>2
    <3>3. CASE L = 3 /\ k = 1
      BY <2>1, <2>2, <3>3
    <3>. QED  BY <2>2, <3>1, <3>2, <3>3
  <2>4. loops[1].loop # "start" /\ (L = 3 => loops[1].loop = "setup")
    <3>1. CASE L = 2
      BY <2>1, <3>1
    <3>2. CASE L = 3
      BY <2>1, <3>2
    <3>. QED  BY <1>1, <3>1, <3>2
  <2>. QED  BY <2>1, <2>3, <2>4
<1>5. L \in {2, 3}
  BY <1>1
<1>. QED  BY <1>3, <1>4, <1>5 DEF loops

\* The stack with another frame instead of its top.
LEMMA RetoppedIs ==
    ASSUME stack \in Seq(Frame), stack # << >>, NEW f \in Frame
    PROVE  Retopped(<<f>> \o Below, f, stack)
BY InLoop DEF Retopped

\* What erase() makes of the stack: the loops at the erased child have lost their iterator.
LEMMA MarkedIs ==
    ASSUME NEW st \in Seq(Frame), NEW p \in Nodes, NEW o \in Objects
    PROVE  Marked(Without(st, p, o), p, o, st)
BY WithoutIs DEF Marked

\* The child's loop, on top of its parent's
LEMMA ChildStack ==
    ASSUME TypeOK, Child
    PROVE  LET st == <<[Top EXCEPT !.back = TRUE]>> \o Below
               new == Loop(Top.loop, Top.it)
           IN  /\ Retopped(st, [Top EXCEPT !.back = TRUE], stack) /\ st \in Seq(Frame)
               /\ \/ stack' = st /\ Top.loop = "update" /\ Top.it \notin enabled /\ UNCHANGED visits
                  \/ /\ Above(stack', 1, st) /\ stack'[1] = new
                     /\ Top.loop = "update" =>
                           /\ Top.it \in enabled
                           /\ visits' = [visits EXCEPT ![Top.it] = IF @ = 0 THEN 1 ELSE 2]
                     /\ Top.loop # "update" => UNCHANGED visits
<1>. DEFINE f == [Top EXCEPT !.back = TRUE]
            st == <<f>> \o Below
            new == Loop(Top.loop, Top.it)
            skip == Top.loop = "update" /\ Top.it \notin enabled
<1>1. stack \in Seq(Frame) /\ stack # << >> /\ Top.loop \in Loops /\ Top.it \in Objects
  BY Kinds DEF Child, In, Nested, TypeOK
<1>2. f \in Frame /\ new \in Frame /\ Below \in Seq(Frame)
  BY <1>1, InLoop, LoopIsFrame, Kinds DEF LoopFrames
<1>3. stack' = (IF skip THEN << >> ELSE <<new>>) \o <<f>> \o Below
  BY DEF Child
<1>4. visits' = IF Top.loop = "update" /\ ~skip
                THEN [visits EXCEPT ![Top.it] = IF @ = 0 THEN 1 ELSE 2] ELSE visits
  BY DEF Child
<1>5. Retopped(st, f, stack) /\ st \in Seq(Frame)
  BY <1>1, <1>2, RetoppedIs DEF Retopped
<1>. HIDE DEF f, new
<1>6. CASE skip
  <2>1. stack' = << >> \o <<f>> \o Below
    BY <1>3, <1>6
  <2>2. << >> \o <<f>> = <<f>>
    BY <1>2, ConcatEmptySeq
  <2>. QED  BY <1>4, <1>5, <1>6, <2>1, <2>2 DEF f
<1>7. CASE ~skip
  <2>1. stack' = <<new>> \o <<f>> \o Below
    BY <1>3, <1>7
  <2>2. stack' = <<new>> \o st
    <3>1. <<new>> \in Seq(Frame) /\ <<f>> \in Seq(Frame)
      BY <1>2
    <3>. QED  BY <1>2, <2>1, <3>1, ConcatAssociative
  <2>. HIDE DEF st
  <2>3. Above(stack', 1, st) /\ stack'[1] = new
    BY <1>2, <1>5, <2>2, AboveOne
  <2>6. /\ Top.loop = "update" => /\ Top.it \in enabled
                                  /\ visits' = [visits EXCEPT ![Top.it] = IF @ = 0 THEN 1 ELSE 2]
        /\ Top.loop # "update" => UNCHANGED visits
    BY <1>4, <1>7
  <2>. QED  BY <1>5, <2>3, <2>6 DEF f, new, st
<1>. QED  BY <1>6, <1>7

\* The loops that set an object up, on top of st
Sets(o, d, st) ==
    /\ d \in {2, 3} /\ Above(stack', d, st)
    /\ \A k \in 1 .. d : /\ stack'[k] \in LoopFrames /\ stack'[k].loop \in {"setup", "create", "start"}
                         /\ stack'[k].obj = o /\ stack'[k].i = 0
    /\ stack'[d - 1].loop = "create" /\ stack'[d].loop = "start"
    /\ stack'[1].loop # "start" /\ (d = 3 => stack'[1].loop = "setup")

\* The cases of a call, with what each does to the stack
Adds(o, s, st) ==
    /\ o \in Objects /\ s \in Scripts
    /\ \A x \in Objects : s \notin ToSet(components[x])
    /\ log[s] = {}
    /\ components' = [components EXCEPT ![o] = Append(@, s)]
    /\ Above(stack', 1, st) /\ stack'[1] = Added(o, s)
    /\ UNCHANGED <<children, parent, did, enabled, early, due, fault>>

Joins(o, p, st) ==
    /\ Attaches(p, o)
    /\ \A k \in 1 .. Len(st) : st[k].loop = "destroy" => o \notin Subtree(st[k].obj)
    /\ due' = due \ Subtree(o)
    /\ UNCHANGED <<components, enabled, fault>>

JoinsEarly(o, p, st) ==
    Joins(o, p, st) /\ early' = early \cup {o} /\ stack' = st /\ UNCHANGED did

JoinsSetUp(o, p, d, st) ==
    /\ Joins(o, p, st) /\ early' = early \ {o}
    /\ did' = [did EXCEPT ![o] = @ \cup {"setup"}]
    /\ Sets(o, d, st)

Leaves(p, o, st) ==
    /\ p \in Nodes /\ o \in Objects
    /\ due' = due \ Subtree(o)
    /\ \/ /\ Above(stack', 2, st) /\ stack'[1] = Loop("destroy", o) /\ stack'[2] = Erase(p, o)
          /\ UNCHANGED children
       \/ /\ children' = [children EXCEPT ![p] = @ \ {o}]
          /\ Marked(stack', p, o, st)
    /\ UNCHANGED <<parent, components, did, enabled, early, fault>>

Switches(st) ==
    /\ \/ \E o \in enabled : enabled' = enabled \ {o} /\ due' = due \ Subtree(o)
       \/ enabled \subseteq enabled' /\ UNCHANGED due
    /\ stack' = st
    /\ UNCHANGED <<children, parent, components, did, early>>

\* What a call is
LEMMA CallCases ==
    ASSUME CallTypes, NEW st \in Seq(Frame), Call(st)
    PROVE  \/ \E o, s : Adds(o, s, st)
           \/ \E o, p : JoinsEarly(o, p, st)
           \/ \E o, p, d : JoinsSetUp(o, p, d, st)
           \/ \E p, o : Leaves(p, o, st)
           \/ Switches(st)
<1>. N \in Nat
  BY TreeAssumption
<1>0. DOMAIN st = 1 .. Len(st) /\ Objects \subseteq Nodes
  BY DEF Objects, Nodes
<1>1. CASE AddComponent(st)
  <2>1. PICK o \in Objects, s \in Scripts :
            /\ \A x \in Objects : s \notin ToSet(components[x])
            /\ log[s] = {}
            /\ components' = [components EXCEPT ![o] = Append(@, s)]
            /\ stack' = <<Added(o, s)>> \o st
    BY <1>1 DEF AddComponent
  <2>2. Above(stack', 1, st) /\ stack'[1] = Added(o, s)
    BY <2>1, LoopIsFrame, AboveOne
  <2>3. Adds(o, s, st)
    BY <1>1, <2>1, <2>2 DEF AddComponent, Adds
  <2>. QED  BY <2>3
<1>2. CASE AddObject(st)
  <2>1. PICK o \in Objects, p \in Nodes :
            /\ ~Placed(o) /\ p \notin Subtree(o)
            /\ \A k \in DOMAIN st : st[k].loop = "destroy" => o \notin Subtree(st[k].obj)
            /\ Insert(p, o)
            /\ \/ early' = early \cup {o} /\ stack' = st /\ UNCHANGED did
               \/ /\ early' = early \ {o}
                  /\ did' = [did EXCEPT ![o] = @ \cup {"setup"}]
                  /\ stack' = SetUpLoops(o) \o st
            /\ due' = due \ Subtree(o)
            /\ UNCHANGED <<components, enabled, fault>>
    BY <1>2 DEF AddObject, Nodes
  <2>2. Attaches(p, o)
    BY <2>1 DEF Insert, Attaches
  <2>3. Joins(o, p, st)
    BY <1>0, <2>1, <2>2 DEF Joins
  <2>4. CASE early' = early \cup {o} /\ stack' = st /\ UNCHANGED did
    <3>1. JoinsEarly(o, p, st)
      BY <2>3, <2>4 DEF JoinsEarly
    <3>. QED  BY <3>1
  <2>5. CASE /\ early' = early \ {o}
             /\ did' = [did EXCEPT ![o] = @ \cup {"setup"}]
             /\ stack' = SetUpLoops(o) \o st
    <3>. DEFINE d == Len(SetUpLoops(o))
    <3>1. Sets(o, d, st)
      <4>. DEFINE new == SetUpLoops(o) \o st
      <4>1. /\ Above(new, d, st) /\ d \in {2, 3}
            /\ \A k \in 1 .. d :
                  /\ new[k] \in LoopFrames /\ new[k].loop \in {"setup", "create", "start"}
                  /\ new[k].obj = o /\ new[k].i = 0
            /\ new[d - 1].loop = "create" /\ new[d].loop = "start"
            /\ new[1].loop # "start" /\ (d = 3 => new[1].loop = "setup")
        BY AboveSetUp
      <4>2. stack' = new
        BY <2>5
      <4>. HIDE DEF new, d
      <4>. QED  BY <4>1, <4>2 DEF Sets
    <3>. HIDE DEF d
    <3>2. JoinsSetUp(o, p, d, st)
      BY <2>3, <2>5, <3>1 DEF JoinsSetUp
    <3>. QED  BY <3>2
  <2>. QED  BY <2>1, <2>4, <2>5
<1>3. ASSUME NEW p \in Nodes, NEW o \in Objects, Removal(p, o, st), UNCHANGED fault
      PROVE  Leaves(p, o, st)
  <2>1. CASE stack' = <<Loop("destroy", o), Erase(p, o)>> \o st /\ UNCHANGED children
    <3>1. Loop("destroy", o) \in Frame /\ Erase(p, o) \in Frame
      BY LoopIsFrame, Kinds
    <3>2. Above(stack', 2, st) /\ stack'[1] = Loop("destroy", o) /\ stack'[2] = Erase(p, o)
      BY <2>1, <3>1, AboveTwo
    <3>. QED  BY <1>0, <1>3, <2>1, <3>2 DEF Removal, Leaves
  <2>2. CASE children' = [children EXCEPT ![p] = @ \ {o}] /\ stack' = Without(st, p, o)
    <3>1. Marked(stack', p, o, st)
      BY <2>2, MarkedIs
    <3>. QED  BY <1>0, <1>3, <2>2, <3>1 DEF Removal, Leaves
  <2>. QED  BY <1>3, <2>1, <2>2 DEF Removal
<1>4. CASE RemoveObject(st)
  <2>1. PICK p \in Nodes : \E o \in children[p] : Removal(p, o, st) /\ UNCHANGED fault
    BY <1>4 DEF RemoveObject, Nodes
  <2>. QED  BY <1>3, <1>4, <2>1 DEF CallTypes, Tree
<1>5. CASE Destroy(st)
  <2>1. PICK o \in Objects :
            \/ parent[o] \in Objects /\ Removal(parent[o], o, st) /\ UNCHANGED fault
            \/ stack' = st /\ UNCHANGED <<tree, due>>
    BY <1>5 DEF Destroy
  <2>2. CASE parent[o] \in Objects /\ Removal(parent[o], o, st) /\ UNCHANGED fault
    <3>1. parent[o] \in Nodes
      BY <1>0, <2>2
    <3>. QED  BY <1>3, <1>5, <2>2, <3>1
  <2>3. CASE stack' = st /\ UNCHANGED <<tree, due>>
    BY <2>3 DEF Switches, tree
  <2>. QED  BY <2>1, <2>2, <2>3
<1>6. CASE SetEnabled(st)
  <2>1. Switches(st)
    BY <1>6 DEF SetEnabled, Switches
  <2>. QED  BY <2>1
<1>. QED  BY <1>1, <1>2, <1>4, <1>5, <1>6 DEF Call

-----------------------------------------------------------------------------
(* The cases of a step, with what each does to the stack.  f is the frame on top, g *)
(* what becomes of it; where the program is called back, st is the stack that it is *)
(* called on.                                                                       *)

\* new is st without its top frame.
Popped(new, st) ==
    /\ new \in Seq(Frame) /\ Len(st) >= 1 /\ Len(new) = Len(st) - 1
    /\ \A k \in 1 .. Len(new) : new[k] = st[k + 1]

\* g is f at another place.
Moved(g, f) ==
    f \in LoopFrames /\ g \in LoopFrames /\ g.loop = f.loop /\ g.obj = f.obj

Enters(g) ==
    LET f == stack[1]
    IN  /\ Moved(g, f) /\ f.i = 0 /\ g.i \in {1, 2} /\ g.it = f.it /\ g.back = f.back
        /\ g.i = 2 => components[f.obj] # << >> /\ components[f.obj][1] = Transform
        /\ Retopped(stack', g, stack)
        /\ did' = [did EXCEPT ![f.obj] = @ \cup (IF f.loop = "create" THEN {"created"} ELSE {})
                                           \cup (IF f.loop = "start" THEN {"started"} ELSE {})]
        /\ UNCHANGED <<children, parent, components, enabled, early, log, due, visits, listed>>

Turns(g, st, s, m) ==
    LET f == stack[1]
    IN  /\ Moved(g, f) /\ f.i \in 1 .. Len(components[f.obj]) /\ g.i = f.i + 1
        /\ f.it = 0 /\ g.it = 0 /\ g.back = f.back
        /\ s = components[f.obj][f.i] /\ m = Method[f.loop]
        /\ st \in Seq(Frame) /\ Retopped(st, g, stack)
        /\ CallBack(s, m, st) /\ UNCHANGED listed

GoesOn(g) ==
    LET f == stack[1]
    IN  /\ Moved(g, f) /\ f.loop \in Nested /\ g.i = f.i
        /\ \/ /\ f.it = 0 /\ f.i > Len(components[f.obj]) /\ f.i > 0
              /\ g.it = After(f.obj, 0) /\ g.back = f.back
           \/ f.back /\ f.it # Erased /\ g.it = After(f.obj, f.it) /\ ~g.back
        /\ Retopped(stack', g, stack)
        /\ UNCHANGED <<children, parent, components, did, enabled, early, log, due, visits, listed>>

Descends(g, st) ==
    LET f == stack[1]
    IN  /\ Moved(g, f) /\ f.loop \in Nested /\ f.it \in Objects /\ ~f.back
        /\ g.i = f.i /\ g.it = f.it /\ g.back
        /\ st \in Seq(Frame) /\ Retopped(st, g, stack)
        /\ \/ stack' = st /\ f.loop = "update" /\ f.it \notin enabled /\ UNCHANGED visits
           \/ /\ Above(stack', 1, st) /\ stack'[1] = Loop(f.loop, f.it)
              /\ f.loop = "update" => /\ f.it \in enabled
                                      /\ visits' = [visits EXCEPT ![f.it] = IF @ = 0 THEN 1 ELSE 2]
              /\ f.loop # "update" => UNCHANGED visits
        /\ UNCHANGED <<children, parent, components, did, enabled, early, log, due, listed>>

Returns ==
    LET f == stack[1]
    IN  /\ Popped(stack', stack)
        /\ \/ /\ f \in LoopFrames /\ f.loop \notin Nested /\ f.i > Len(components[f.obj])
              /\ UNCHANGED components
           \/ f \in LoopFrames /\ f.loop = "update" /\ f.it = N + 1 /\ UNCHANGED components
           \/ /\ f \in LoopFrames /\ f.loop = "destroy" /\ f.it = N + 1
              /\ components' = [components EXCEPT ![f.obj] = << >>]
           \/ f \in AddedFrames /\ f.i = 3 /\ UNCHANGED components
        /\ UNCHANGED <<children, parent, did, enabled, early, log, due, visits, listed>>

Erases(st) ==
    LET f == stack[1]
    IN  /\ f \in EraseFrames /\ st \in Seq(Frame) /\ Popped(st, stack)
        /\ Marked(stack', f.obj, f.child, st)
        /\ children' = [children EXCEPT ![f.obj] = @ \ {f.child}]
        /\ UNCHANGED <<parent, components, did, enabled, early, log, due, visits, listed>>

TurnsAdded(g, st) ==
    LET f == stack[1]
    IN  /\ f \in AddedFrames /\ g \in AddedFrames /\ f.i \in {1, 2}
        /\ g.obj = f.obj /\ g.script = f.script /\ g.i = f.i + 1
        /\ st \in Seq(Frame) /\ Retopped(st, g, stack)
        /\ \/ f.i = 1 /\ "created" \in did[f.obj] /\ CallBack(f.script, "OnCreate", st)
           \/ f.i = 2 /\ "started" \in did[f.obj] /\ CallBack(f.script, "Start", st)
           \/ /\ (f.i = 1 /\ "created" \notin did[f.obj]) \/ (f.i = 2 /\ "started" \notin did[f.obj])
              /\ stack' = st
              /\ UNCHANGED <<children, parent, components, did, enabled, early, log, due, visits>>
        /\ UNCHANGED listed

Begins(o) ==
    /\ stack = << >> /\ stack' \in Seq(Frame) /\ Len(stack') = 1 /\ stack'[1] = Loop("update", o)
    /\ o \in enabled \cap listed' /\ listed' = listed \cup (Subtree(App) \ {App})
    /\ due' = Active(o) /\ visits' = [x \in Objects |-> IF x = o THEN 1 ELSE 0]
    /\ UNCHANGED <<children, parent, components, did, enabled, early, log>>

\* What a step is
LEMMA StepCases ==
    ASSUME TypeOK, [Next]_vars
    PROVE  \/ UNCHANGED <<stack, children, parent, components, did, enabled, early, log, due, visits, listed>>
           \/ stack # << >> /\ \E g : Enters(g)
           \/ stack # << >> /\ \E g, st, s, m : Turns(g, st, s, m)
           \/ stack # << >> /\ \E g : GoesOn(g)
           \/ stack # << >> /\ \E g, st : Descends(g, st)
           \/ stack # << >> /\ Returns
           \/ stack # << >> /\ \E st : Erases(st)
           \/ stack # << >> /\ \E g, st : TurnsAdded(g, st)
           \/ Main
           \/ \E o : Begins(o)
<1>. N \in Nat
  BY TreeAssumption
<1>1. stack \in Seq(Frame) /\ Tree
  BY DEF TypeOK, Tree, Nodes
<1>2. components \in [Objects -> Seq(Scripts \cup {Transform})]
  BY DEF TypeOK
<1>3. ASSUME NEW loops, In(loops), loops \subseteq Loops
      PROVE  /\ stack # << >> /\ Top = stack[1] /\ Top \in LoopFrames /\ Top.loop \in loops /\ Top.obj \in Objects
             /\ Below \in Seq(Frame) /\ components[Top.obj] \in Seq(Scripts \cup {Transform})
             /\ Popped(Below, stack)
  <2>1. stack # << >> /\ Top.loop \in loops
    BY <1>3 DEF In
  <2>2. Top = stack[1] /\ Top \in LoopFrames /\ Top.obj \in Objects /\ Below \in Seq(Frame)
    BY <1>1, <1>3, <2>1, InLoop
  <2>3. Popped(Below, stack)
    BY <1>1, <2>1, InLoop DEF Popped
  <2>. QED  BY <1>2, <2>1, <2>2, <2>3
<1>4. Nested \subseteq Loops
  BY Kinds DEF Nested
<1>5. CASE UNCHANGED vars
  BY <1>5 DEF vars, tree, pass
<1>6. ASSUME UNCHANGED listed, Enter PROVE stack # << >> /\ \E g : Enters(g)
  <2>1. /\ stack # << >> /\ Top = stack[1] /\ Top \in LoopFrames /\ Top.loop \in Loops /\ Top.obj \in Objects
        /\ components[Top.obj] \in Seq(Scripts \cup {Transform})
    BY <1>3, <1>6 DEF Enter
  <2>. DEFINE g == [Top EXCEPT !.i = FirstScript(Top.obj)]
  <2>2. FirstScript(Top.obj) \in {1, 2}
        /\ (FirstScript(Top.obj) = 2 => components[Top.obj] # << >> /\ components[Top.obj][1] = Transform)
    BY <2>1 DEF FirstScript
  <2>3. g \in LoopFrames /\ g.loop = Top.loop /\ g.obj = Top.obj /\ g.i = FirstScript(Top.obj)
        /\ g.it = Top.it /\ g.back = Top.back
    BY <2>1, <2>2 DEF LoopFrames
  <2>4. Retopped(stack', g, stack)
    BY <1>1, <1>6, <2>1, <2>3, RetoppedIs, Kinds DEF Enter
  <2>. DEFINE flags == CASE Top.loop = "create" -> {"created"} [] Top.loop = "start" -> {"started"} [] OTHER -> {}
  <2>5. flags = (IF Top.loop = "create" THEN {"created"} ELSE {})
                   \cup (IF Top.loop = "start" THEN {"started"} ELSE {})
    OBVIOUS
  <2>6. Top.i = 0 /\ UNCHANGED <<children, parent, components, enabled, early, log, due, visits>>
        /\ did' = [did EXCEPT ![Top.obj] = @ \cup flags]
    BY <1>6 DEF Enter, pass
  <2>. HIDE DEF g, flags
  <2>7. did' = [did EXCEPT ![Top.obj] = @ \cup (IF Top.loop = "create" THEN {"created"} ELSE {})
                                           \cup (IF Top.loop = "start" THEN {"started"} ELSE {})]
    BY <2>5, <2>6
  <2>8. Enters(g)
    BY <1>6, <2>1, <2>2, <2>3, <2>4, <2>6, <2>7 DEF Enters, Moved
  <2>. QED  BY <2>1, <2>8
<1>7. ASSUME UNCHANGED listed, Turn PROVE stack # << >> /\ \E g, st, s, m : Turns(g, st, s, m)
  <2>1. /\ stack # << >> /\ Top = stack[1] /\ Top \in LoopFrames /\ Top.loop \in Loops /\ Top.obj \in Objects
        /\ components[Top.obj] \in Seq(Scripts \cup {Transform})
    BY <1>3, <1>7 DEF Turn
  <2>. DEFINE g == [Top EXCEPT !.i = @ + 1]
              st == <<g>> \o Below
              s == components[Top.obj][Top.i]
              m == Method[Top.loop]
  <2>2. Top.i > 0 /\ Top.i <= Len(components[Top.obj]) /\ Top.it = 0 /\ CallBack(s, m, st)
    BY <1>7, <2>1 DEF Turn, AtEnd, LoopFrames
  <2>3. g \in LoopFrames /\ g.loop = Top.loop /\ g.obj = Top.obj /\ g.i = Top.i + 1
        /\ g.it = Top.it /\ g.back = Top.back
    BY <2>1 DEF LoopFrames
  <2>4. Retopped(st, g, stack) /\ st \in Seq(Frame)
    BY <1>1, <2>1, <2>3, RetoppedIs, Kinds DEF Retopped
  <2>. HIDE DEF g, st
  <2>5. Top.i \in 1 .. Len(components[Top.obj])
    BY <2>1, <2>2 DEF LoopFrames
  <2>6. Turns(g, st, s, m)
    BY <1>7, <2>1, <2>2, <2>3, <2>4, <2>5 DEF Turns, Moved
  <2>. QED  BY <2>1, <2>6
<1>8. ASSUME UNCHANGED listed, ToChildren PROVE stack # << >> /\ \E g : GoesOn(g)
  <2>1. /\ stack # << >> /\ Top = stack[1] /\ Top \in LoopFrames /\ Top.loop \in Nested /\ Top.obj \in Objects
        /\ components[Top.obj] \in Seq(Scripts \cup {Transform})
    BY <1>3, <1>4, <1>8 DEF ToChildren
  <2>. DEFINE g == [Top EXCEPT !.it = After(Top.obj, 0)]
  <2>2. /\ Top.i > 0 /\ Top.i > Len(components[Top.obj]) /\ Top.it = 0
        /\ UNCHANGED <<children, parent, components, did, enabled, early, log, due, visits>>
    BY <1>8 DEF ToChildren, AtEnd, tree, pass
  <2>3. After(Top.obj, 0) \in 1 .. N + 1
    <3>1. Top.obj \in Nodes /\ 0 \in -1 .. N + 1
      BY <2>1 DEF Nodes, Objects
    <3>. QED  BY <1>1, <3>1, AfterIs
  <2>4. g \in LoopFrames /\ g.loop = Top.loop /\ g.obj = Top.obj /\ g.i = Top.i
        /\ g.it = After(Top.obj, 0) /\ g.back = Top.back
    BY <2>1, <2>3 DEF LoopFrames
  <2>5. Retopped(stack', g, stack)
    BY <1>1, <1>8, <2>1, <2>4, RetoppedIs, Kinds DEF ToChildren
  <2>. HIDE DEF g
  <2>6. GoesOn(g)
    BY <1>8, <2>1, <2>2, <2>4, <2>5 DEF GoesOn, Moved
  <2>. QED  BY <2>1, <2>6
<1>9. ASSUME UNCHANGED listed, Child PROVE stack # << >> /\ \E g, st : Descends(g, st)
  <2>1. /\ stack # << >> /\ Top = stack[1] /\ Top \in LoopFrames /\ Top.loop \in Nested /\ Top.obj \in Objects
    BY <1>3, <1>4, <1>9 DEF Child
  <2>. DEFINE g == [Top EXCEPT !.back = TRUE]
              st == <<g>> \o Below
  <2>2. Top.it \in Objects /\ ~Top.back
        /\ UNCHANGED <<children, parent, components, did, enabled, early, log, due>>
    BY <1>9 DEF Child, tree
  <2>3. g \in LoopFrames /\ g.loop = Top.loop /\ g.obj = Top.obj /\ g.i = Top.i
        /\ g.it = Top.it /\ g.back
    BY <2>1 DEF LoopFrames
  <2>4. /\ Retopped(st, g, stack) /\ st \in Seq(Frame)
        /\ \/ stack' = st /\ Top.loop = "update" /\ Top.it \notin enabled /\ UNCHANGED visits
           \/ /\ Above(stack', 1, st) /\ stack'[1] = Loop(Top.loop, Top.it)
              /\ Top.loop = "update" => /\ Top.it \in enabled
                                       /\ visits' = [visits EXCEPT ![Top.it] = IF @ = 0 THEN 1 ELSE 2]
              /\ Top.loop # "update" => UNCHANGED visits
    BY <1>9, ChildStack
  <2>. HIDE DEF g, st
  <2>5. Descends(g, st)
    BY <1>9, <2>1, <2>2, <2>3, <2>4 DEF Descends, Moved
  <2>. QED  BY <2>1, <2>5
<1>10. ASSUME UNCHANGED listed, NextChild
       PROVE  \/ stack # << >> /\ \E g : GoesOn(g)
              \/ UNCHANGED <<stack, children, parent, components, did, enabled, early, log, due, visits>>
  <2>1. /\ stack # << >> /\ Top = stack[1] /\ Top \in LoopFrames /\ Top.loop \in Nested /\ Top.obj \in Objects
    BY <1>3, <1>4, <1>10 DEF NextChild
  <2>2. Top.back /\ UNCHANGED <<children, parent, components, did, enabled, early, log, due, visits>>
    BY <1>10 DEF NextChild, tree, pass
  <2>3. CASE UNCHANGED stack
    BY <2>2, <2>3
  <2>4. CASE Top.it # Erased /\ stack' = <<Advance(Top)>> \o Below
    <3>. DEFINE g == Advance(Top)
                a == After(Top.obj, Top.it)
    <3>1. After(Top.obj, Top.it) \in 1 .. N + 1
      <4>1. Top.obj \in Nodes /\ Top.it \in -1 .. N + 1
        BY <2>1 DEF Nodes, Objects, LoopFrames
      <4>. QED  BY <1>1, <4>1, AfterIs
    <3>2. g \in LoopFrames /\ g.loop = Top.loop /\ g.obj = Top.obj /\ g.i = Top.i
          /\ g.it = a /\ ~g.back
      <4>1. g = [Top EXCEPT !.it = a, !.back = FALSE]
        BY DEF Advance
      <4>2. Top \in LoopFrames /\ a \in -1 .. N + 1
        BY <2>1, <3>1
      <4>. HIDE DEF a, g
      <4>. QED  BY <4>1, <4>2 DEF LoopFrames
    <3>3. Retopped(stack', g, stack)
      BY <1>1, <2>1, <2>4, <3>2, RetoppedIs, Kinds
    <3>. HIDE DEF g
    <3>4. GoesOn(g)
      BY <1>10, <2>1, <2>2, <2>4, <3>2, <3>3 DEF GoesOn, Moved
    <3>. QED  BY <2>1, <3>4
  <2>. QED  BY <1>10, <2>3, <2>4 DEF NextChild
<1>11. ASSUME UNCHANGED listed, Return \/ LastChild PROVE stack # << >> /\ Returns
  <2>1. /\ stack # << >> /\ Top = stack[1] /\ Top \in LoopFrames /\ Top.obj \in Objects
        /\ components[Top.obj] \in Seq(Scripts \cup {Transform}) /\ Popped(Below, stack)
    <3>1. In(Loops)
      BY <1>4, <1>11 DEF Return, LastChild, In
    <3>. QED  BY <1>3, <3>1
  <2>2. stack' = Below /\ UNCHANGED <<children, parent, did, enabled, early, log, due, visits>>
    BY <1>11 DEF Return, LastChild, tree, pass
  <2>3. CASE Return
    <3>1. Top.loop \notin Nested /\ Top.i > Len(components[Top.obj]) /\ UNCHANGED components
      BY <2>1, <2>3 DEF Return, In, AtEnd, tree, LoopFrames
    <3>. QED  BY <1>11, <2>1, <2>2, <3>1 DEF Returns
  <2>4. CASE LastChild
    <3>1. Top.loop \in Nested /\ Top.it = N + 1
          /\ components' = IF Top.loop = "destroy" THEN Cleared(Top.obj) ELSE components
      BY <2>4 DEF LastChild, In
    <3>2. CASE Top.loop = "destroy"
      <4>1. components' = [components EXCEPT ![Top.obj] = << >>]
        BY <3>1, <3>2 DEF Cleared
      <4>. QED  BY <1>11, <2>1, <2>2, <3>1, <3>2, <4>1 DEF Returns
    <3>3. CASE Top.loop = "update"
      <4>1. UNCHANGED components
        BY <3>1, <3>3
      <4>. QED  BY <1>11, <2>1, <2>2, <3>1, <3>3, <4>1 DEF Returns
    <3>. QED  BY <3>1, <3>2, <3>3 DEF Nested
  <2>. QED  BY <1>11, <2>3, <2>4
<1>12. ASSUME UNCHANGED listed, EraseChild PROVE stack # << >> /\ \E st : Erases(st)
  <2>1. stack # << >> /\ Top.loop = "erase"
    BY <1>12 DEF EraseChild, In
  <2>2. Top = stack[1] /\ Top \in EraseFrames /\ Below \in Seq(Frame) /\ Popped(Below, stack)
    BY <1>1, <2>1, InLoop DEF Popped
  <2>3. Marked(stack', Top.obj, Top.child, Below)
    BY <1>12, <2>2, MarkedIs DEF EraseChild, EraseFrames
  <2>4. Erases(Below)
    BY <1>12, <2>2, <2>3 DEF EraseChild, Erases, pass
  <2>. QED  BY <2>1, <2>4
<1>13. ASSUME UNCHANGED listed, TurnOfAdded PROVE stack # << >> /\ \E g, st : TurnsAdded(g, st)
  <2>1. stack # << >> /\ Top.loop = "added"
    BY <1>13 DEF TurnOfAdded, In
  <2>2. Top = stack[1] /\ Top \in AddedFrames /\ Below \in Seq(Frame)
    BY <1>1, <2>1, InLoop
  <2>. DEFINE g == [Top EXCEPT !.i = @ + 1]
              st == <<g>> \o Below
              calls2 == AddedCalls[Top.i]
  <2>3. /\ Top.i \in {1, 2}
        /\ \/ calls2.flag \in did[Top.obj] /\ CallBack(Top.script, calls2.method, st)
           \/ calls2.flag \notin did[Top.obj] /\ stack' = st /\ UNCHANGED <<tree, log, pass>>
    BY <1>13 DEF TurnOfAdded, AddedCalls
  <2>4. (Top.i = 1 => calls2.flag = "created" /\ calls2.method = "OnCreate")
        /\ (Top.i = 2 => calls2.flag = "started" /\ calls2.method = "Start")
    BY DEF AddedCalls
  <2>5. g \in AddedFrames /\ g.obj = Top.obj /\ g.script = Top.script /\ g.i = Top.i + 1
    <3>1. Top.i \in {1, 2}
      BY <2>3
    <3>. QED  BY <2>2, <3>1 DEF AddedFrames
  <2>6. Retopped(st, g, stack) /\ st \in Seq(Frame)
    BY <1>1, <2>1, <2>2, <2>5, RetoppedIs, Kinds DEF Retopped
  <2>. HIDE DEF g, st, calls2
  <2>7. \/ Top.i = 1 /\ "created" \in did[Top.obj] /\ CallBack(Top.script, "OnCreate", st)
        \/ Top.i = 2 /\ "started" \in did[Top.obj] /\ CallBack(Top.script, "Start", st)
        \/ /\ (Top.i = 1 /\ "created" \notin did[Top.obj]) \/ (Top.i = 2 /\ "started" \notin did[Top.obj])
           /\ stack' = st /\ UNCHANGED <<tree, log, pass>>
    <3>1. CASE Top.i = 1
      <4>1. calls2.flag = "created" /\ calls2.method = "OnCreate"
        BY <2>4, <3>1
      <4>2. \/ "created" \in did[Top.obj] /\ CallBack(Top.script, "OnCreate", st)
            \/ "created" \notin did[Top.obj] /\ stack' = st /\ UNCHANGED <<tree, log, pass>>
        BY <2>3, <4>1, Zenon
      <4>. QED  BY <3>1, <4>2
    <3>2. CASE Top.i = 2
      <4>1. calls2.flag = "started" /\ calls2.method = "Start"
        BY <2>4, <3>2
      <4>. QED  BY <2>3, <3>2, <4>1, Zenon
    <3>3. Top.i \in {1, 2}
      BY <2>3
    <3>. QED  BY <3>1, <3>2, <3>3
  <2>8. TurnsAdded(g, st)
    BY <1>13, <2>2, <2>3, <2>5, <2>6, <2>7 DEF TurnsAdded, tree, pass
  <2>. QED  BY <2>1, <2>8
<1>14. ASSUME UNCHANGED listed, ReturnFromAdd PROVE stack # << >> /\ Returns
  <2>1. stack # << >> /\ Top.loop = "added" /\ Top.i > 2
    BY <1>14 DEF ReturnFromAdd, In, AddedCalls
  <2>2. Top = stack[1] /\ Top \in AddedFrames /\ Below \in Seq(Frame) /\ Popped(Below, stack)
    BY <1>1, <2>1, InLoop DEF Popped
  <2>3. Top.i = 3
    BY <2>1, <2>2 DEF AddedFrames
  <2>. QED  BY <1>14, <2>1, <2>2, <2>3 DEF Returns, ReturnFromAdd, tree, pass
<1>15. ASSUME Update PROVE \E o : Begins(o)
  <2>1. PICK o \in enabled \cap listed' :
            /\ stack' = <<Loop("update", o)>> /\ due' = Active(o)
            /\ visits' = [x \in Objects |-> IF x = o THEN 1 ELSE 0]
    BY <1>15 DEF Update
  <2>2. o \in Objects
    BY <2>1 DEF TypeOK
  <2>3. Loop("update", o) \in Frame
    BY <2>2, LoopIsFrame, Kinds
  <2>4. Begins(o)
    BY <1>15, <2>1, <2>3 DEF Update, Begins, tree
  <2>. QED  BY <2>4
<1>16. CASE Step
  <2>1. UNCHANGED listed
    BY <1>16 DEF Step
  <2>. QED  BY <1>6, <1>7, <1>8, <1>9, <1>10, <1>11, <1>12, <1>13, <1>14, <1>16, <2>1 DEF Step
<1>. QED  BY <1>5, <1>15, <1>16 DEF Next
-----------------------------------------------------------------------------
(* Where the iterators are.  st and ch stand for stack and children, or for what they *)
(* are in the middle of a step.                                                       *)

\* A loop below others has begun, and its iterator is at a child just while the child
\* has its turn.
SettledFrame(f) ==
    f.loop \in Nested => f.i > 0 /\ (f.it = 0 => ~f.back) /\ (f.it # 0 => f.back)

Settled(st) == \A k \in 1 .. Len(st) : SettledFrame(st[k])

\* The loop on top may be about to come to a child.
TopCursor(f, ch) ==
    f.loop \in Nested => /\ f.it = 0 => ~f.back
                         /\ f.it # 0 => f.i > 0
                         /\ f.it \in Objects /\ ~f.back => f.it \in ch[f.obj]

CursorOk(st, ch) == /\ \A k \in 2 .. Len(st) : SettledFrame(st[k])
                    /\ st # << >> => TopCursor(st[1], ch)

\* A loop that is settled can be on top.
LEMMA SettledOnTop ==
    ASSUME NEW st \in Seq(Frame), Settled(st), NEW ch PROVE CursorOk(st, ch)
<1>1. 0 \notin Objects
  BY DEF Objects
<1>2. \A k \in 2 .. Len(st) : SettledFrame(st[k])
  BY DEF Settled
<1>3. st # << >> => SettledFrame(st[1])
  BY DEF Settled
<1>. QED  BY <1>1, <1>2, <1>3 DEF CursorOk, SettledFrame, TopCursor

\* And others can be put on it.
LEMMA AboveSettled ==
    ASSUME NEW st \in Seq(Frame), Settled(st), NEW d \in Nat \ {0}, NEW new, Above(new, d, st),
           NEW ch, TopCursor(new[1], ch), \A k \in 2 .. d : SettledFrame(new[k])
    PROVE  CursorOk(new, ch)
<1>1. ASSUME NEW k \in 2 .. Len(new) PROVE SettledFrame(new[k])
  <2>1. CASE k <= d
    BY <2>1
  <2>2. CASE k > d
    <3>1. k \in d + 1 .. Len(new)
      BY <2>2
    <3>. QED  BY <3>1 DEF Above, Settled
  <2>. QED  BY <2>1, <2>2
<1>. QED  BY <1>1 DEF CursorOk

\* Losing an iterator does not unsettle a loop.
LEMMA MarkedSettled ==
    ASSUME NEW st \in Seq(Frame), Settled(st), NEW new, NEW p, NEW o \in Objects, Marked(new, p, o, st)
    PROVE  Settled(new)
<1>1. 0 \notin Objects
  BY DEF Objects
<1>. QED  BY <1>1 DEF Marked, Settled, SettledFrame, Erased

\* A call made over settled loops leaves no iterator but at its own start.
LEMMA CallCursor ==
    ASSUME CallTypes, NEW st \in Seq(Frame), Settled(st), Call(st)
    PROVE  CursorOk(stack', children')
<1>1. stack' \in Seq(Frame)
  BY CallTyped
<1>2. CASE stack' = st
  <2>1. Settled(stack')
    BY <1>2
  <2>. QED  BY <1>1, <2>1, SettledOnTop
<1>3. ASSUME NEW o, NEW s, Adds(o, s, st) PROVE CursorOk(stack', children')
  <2>1. Above(stack', 1, st) /\ stack'[1].loop = "added"
    BY <1>3 DEF Adds, Added
  <2>2. TopCursor(stack'[1], children')
    BY <2>1 DEF TopCursor, Nested
  <2>. QED  BY <2>1, <2>2, AboveSettled
<1>4. ASSUME NEW o, NEW d, Sets(o, d, st) PROVE CursorOk(stack', children')
  <2>1. d \in Nat \ {0} /\ Above(stack', d, st) /\ \A k \in 1 .. d : stack'[k].loop \notin Nested
    BY <1>4 DEF Sets, Nested
  <2>2. TopCursor(stack'[1], children') /\ \A k \in 2 .. d : SettledFrame(stack'[k])
    BY <2>1 DEF TopCursor, SettledFrame
  <2>. QED  BY <2>1, <2>2, AboveSettled
<1>5. ASSUME NEW p, NEW o, Leaves(p, o, st) PROVE CursorOk(stack', children')
  <2>1. CASE Above(stack', 2, st) /\ stack'[1] = Loop("destroy", o) /\ stack'[2] = Erase(p, o)
    <3>1. stack'[1].it = 0 /\ ~stack'[1].back /\ stack'[2].loop = "erase" /\ 0 \notin Objects
      BY <2>1 DEF Loop, Erase, Objects
    <3>2. TopCursor(stack'[1], children') /\ \A k \in 2 .. 2 : SettledFrame(stack'[k])
      BY <3>1 DEF TopCursor, SettledFrame, Nested
    <3>. QED  BY <2>1, <3>2, AboveSettled
  <2>2. CASE Marked(stack', p, o, st)
    <3>1. Settled(stack')
      BY <1>5, <2>2, MarkedSettled DEF Leaves
    <3>. QED  BY <1>1, <3>1, SettledOnTop
  <2>. QED  BY <1>5, <2>1, <2>2 DEF Leaves
<1>. QED  BY <1>2, <1>3, <1>4, <1>5, CallCases DEF JoinsEarly, JoinsSetUp, Switches

\* A callback may make a call; its loop, which is then below, is settled.
LEMMA CallBackCursor ==
    ASSUME CallTypes, NEW st \in Seq(Frame), Settled(st), NEW s, NEW m, CallBack(s, m, st)
    PROVE  CursorOk(stack', children')
<1>1. CASE stack' = st
  BY <1>1, SettledOnTop
<1>2. CASE Call(st)
  BY <1>2, CallCursor
<1>. QED  BY <1>1, <1>2 DEF CallBack

\* When the top is moved to where a call may be made, all loops are settled.
LEMMA RetoppedSettled ==
    ASSUME stack \in Seq(Frame), stack # << >>, CursorOk(stack, children),
           NEW st \in Seq(Frame), NEW g, Retopped(st, g, stack), SettledFrame(g)
    PROVE  Settled(st)
BY DEF Retopped, Settled, CursorOk

\* The types of what calls change are among the types.
LEMMA TypesOfCall == TypeOK => CallTypes
BY DEF TypeOK, CallTypes, Tree, Nodes

\* Every step keeps the iterators: only the top may be between two children.
LEMMA CursorNext ==
    ASSUME TypeOK, CursorOk(stack, children), [Next]_vars PROVE CursorOk(stack', children')
<1>. N \in Nat
  BY TreeAssumption
<1>1. stack \in Seq(Frame) /\ CallTypes /\ Tree /\ 0 \notin Objects
  <2>1. CallTypes
    BY TypesOfCall
  <2>. QED  BY <2>1 DEF CallTypes, TypeOK, Objects
<1>2. CASE UNCHANGED <<stack, children>>
  BY <1>2
<1>3. ASSUME stack # << >> PROVE TopCursor(stack[1], children)
  BY <1>3 DEF CursorOk
<1>4. ASSUME NEW g, Retopped(stack', g, stack), TopCursor(g, children), UNCHANGED children
      PROVE  CursorOk(stack', children')
  BY <1>1, <1>4 DEF CursorOk, Retopped
<1>5. ASSUME stack # << >>, NEW g, Enters(g) PROVE CursorOk(stack', children')
  <2>1. TopCursor(g, children)
    BY <1>3, <1>5 DEF Enters, Moved, TopCursor
  <2>. QED  BY <1>4, <1>5, <2>1 DEF Enters
<1>6. ASSUME stack # << >>, NEW g, NEW st, NEW s, NEW m, Turns(g, st, s, m) PROVE CursorOk(stack', children')
  <2>1. SettledFrame(g)
    BY <1>3, <1>6 DEF Turns, Moved, TopCursor, SettledFrame, LoopFrames
  <2>2. Settled(st) /\ st \in Seq(Frame)
    BY <1>1, <1>6, <2>1, RetoppedSettled DEF Turns
  <2>. QED  BY <1>1, <1>6, <2>2, CallBackCursor DEF Turns
<1>7. ASSUME stack # << >>, NEW g, GoesOn(g) PROVE CursorOk(stack', children')
  <2>. DEFINE f == stack[1]
  <2>1. f \in LoopFrames /\ f.loop \in Nested /\ TopCursor(f, children) /\ f.obj \in Nodes /\ f.it \in -1 .. N + 1
    BY <1>3, <1>7 DEF GoesOn, Moved, LoopFrames, Objects, Nodes
  <2>2. g.it \in children[f.obj] \cup {N + 1} /\ g.it # 0
    <3>1. \A c \in -1 .. N + 1 : After(f.obj, c) \in children[f.obj] \cup {N + 1} /\ After(f.obj, c) # 0
      BY <1>1, <2>1, AfterIs
    <3>2. \E c \in -1 .. N + 1 : g.it = After(f.obj, c)
      BY <1>7, <2>1 DEF GoesOn
    <3>. QED  BY <3>1, <3>2
  <2>3. N + 1 \notin Objects
    BY DEF Objects
  <2>4. f.i > 0 /\ g.i = f.i /\ g.obj = f.obj /\ ~g.back
    BY <1>7, <2>1 DEF GoesOn, TopCursor, Moved
  <2>5. TopCursor(g, children)
    BY <2>2, <2>3, <2>4 DEF TopCursor
  <2>. QED  BY <1>4, <1>7, <2>5 DEF GoesOn
<1>8. ASSUME stack # << >>, NEW g, NEW st, Descends(g, st) PROVE CursorOk(stack', children')
  <2>1. SettledFrame(g)
    BY <1>1, <1>3, <1>8 DEF Descends, Moved, TopCursor, SettledFrame
  <2>2. Settled(st) /\ st \in Seq(Frame)
    BY <1>1, <1>8, <2>1, RetoppedSettled DEF Descends
  <2>3. CASE stack' = st
    BY <2>2, <2>3, SettledOnTop
  <2>4. CASE Above(stack', 1, st) /\ stack'[1] = Loop(stack[1].loop, stack[1].it)
    <3>1. TopCursor(stack'[1], children')
      BY <1>1, <2>4 DEF Loop, TopCursor
    <3>. QED  BY <2>2, <2>4, <3>1, AboveSettled
  <2>. QED  BY <1>8, <2>3, <2>4 DEF Descends
<1>9. ASSUME NEW st, Popped(st, stack) PROVE Settled(st) /\ st \in Seq(Frame)
  BY <1>1, <1>9 DEF Popped, Settled, CursorOk
<1>10. ASSUME stack # << >>, NEW st, Erases(st) PROVE CursorOk(stack', children')
  <2>1. st \in Seq(Frame) /\ Settled(st) /\ stack[1].child \in Objects
        /\ Marked(stack', stack[1].obj, stack[1].child, st)
    BY <1>9, <1>10 DEF Erases, EraseFrames
  <2>2. Settled(stack')
    BY <2>1, MarkedSettled
  <2>3. stack' \in Seq(Frame)
    BY <2>1 DEF Marked
  <2>. QED  BY <2>2, <2>3, SettledOnTop
<1>11. ASSUME stack # << >>, NEW g, NEW st, TurnsAdded(g, st) PROVE CursorOk(stack', children')
  <2>1. SettledFrame(g)
    BY <1>11 DEF TurnsAdded, AddedFrames, SettledFrame, Nested
  <2>2. Settled(st) /\ st \in Seq(Frame)
    BY <1>1, <1>11, <2>1, RetoppedSettled DEF TurnsAdded
  <2>. QED  BY <1>1, <1>11, <2>2, SettledOnTop, CallBackCursor DEF TurnsAdded
<1>12. CASE Main
  <2>1. Settled(<< >>) /\ << >> \in Seq(Frame)
    BY DEF Settled
  <2>. QED  BY <1>1, <1>12, <2>1, CallCursor DEF Main
<1>13. ASSUME NEW o, Begins(o) PROVE CursorOk(stack', children')
  BY <1>1, <1>13 DEF Begins, Loop, CursorOk, TopCursor
<1>. QED  BY <1>2, <1>5, <1>6, <1>7, <1>8, <1>9, <1>10, <1>11, <1>12, <1>13, SettledOnTop, StepCases DEF Returns

-----------------------------------------------------------------------------
(* Which loops can be under way above which *)

\* What is below y is below x, if y is.
LEMMA ReachOnwards ==
    ASSUME NEW E \in [Nodes -> SUBSET Nodes], NEW x \in Nodes, NEW y \in Reach(x, E)
    PROVE  Reach(y, E) \subseteq Reach(x, E)
<1>1. y \in Nodes /\ Closed(Reach(x, E), E)
  BY ReachIs
<1>. QED  BY <1>1, ReachIs

\* More edges lead to more.
LEMMA ReachGrows ==
    ASSUME NEW E \in [Nodes -> SUBSET Nodes], NEW F \in [Nodes -> SUBSET Nodes],
           \A x \in Nodes : E[x] \subseteq F[x], NEW o \in Nodes
    PROVE  Reach(o, E) \subseteq Reach(o, F)
<1>1. Reach(o, F) \subseteq Nodes /\ o \in Reach(o, F) /\ Closed(Reach(o, F), F)
  BY ReachIs
<1>2. Closed(Reach(o, F), E)
  BY <1>1 DEF Closed
<1>. QED  BY <1>1, <1>2, ReachIs

\* f may be above g: updates are below all else, and above a loop that destroys there is none
\* that sets the same object up.  (There may be one more that destroys it.)
MayBeAbove(f, g) ==
    /\ f.loop = "update" => g.loop = "update"
    /\ f.loop \in {"setup", "create", "start"} /\ g.loop = "destroy" => f.obj # g.obj

Ordered(st) == \A j, k \in 1 .. Len(st) : j < k => MayBeAbove(st[j], st[k])

\* The same loops of the same objects
Alike(new, st) ==
    new \in Seq(Frame) /\ Len(new) = Len(st)
        /\ \A k \in 1 .. Len(st) : new[k].loop = st[k].loop /\ new[k].obj = st[k].obj

\* The order is of loops and their objects: it is not touched by what moves in them.
LEMMA AlikeOrdered ==
    ASSUME NEW st, Ordered(st), NEW new, Alike(new, st) PROVE Ordered(new)
BY DEF Ordered, Alike, MayBeAbove

\* A loop that moves on stays the loop of its object.
LEMMA RetoppedAlike ==
    ASSUME NEW st \in Seq(Frame), NEW new, NEW g, Retopped(new, g, st),
           g.loop = st[1].loop, g.obj = st[1].obj
    PROVE  Alike(new, st)
<1>1. \A k \in 1 .. Len(st) : k = 1 \/ k \in 2 .. Len(st)
  OBVIOUS
<1>. QED  BY <1>1 DEF Retopped, Alike

\* A loop that loses its iterator stays the loop of its object.
LEMMA MarkedAlike ==
    ASSUME NEW st, NEW new, NEW p, NEW o, Marked(new, p, o, st) PROVE Alike(new, st)
BY DEF Marked, Alike

\* A loop that ends leaves the order of the others.
LEMMA PoppedOrdered ==
    ASSUME NEW st \in Seq(Frame), Ordered(st), NEW new, Popped(new, st) PROVE Ordered(new)
<1>1. SUFFICES ASSUME NEW j \in 1 .. Len(new), NEW k \in 1 .. Len(new), j < k
               PROVE  MayBeAbove(new[j], new[k])
  BY DEF Ordered
<1>2. j + 1 \in 1 .. Len(st) /\ k + 1 \in 1 .. Len(st) /\ j + 1 < k + 1
      /\ new[j] = st[j + 1] /\ new[k] = st[k + 1]
  <2>1. Len(st) \in Nat /\ Len(new) = Len(st) - 1 /\ \A n \in 1 .. Len(new) : new[n] = st[n + 1]
    BY DEF Popped
  <2>. QED  BY <1>1, <2>1
<1>. QED  BY <1>2 DEF Ordered

\* Loops that may be above all loops there are can be put on them.
LEMMA AboveOrdered ==
    ASSUME NEW st \in Seq(Frame), Ordered(st), NEW d, NEW new, Above(new, d, st),
           \A j \in 1 .. d, k \in 1 .. Len(st) : MayBeAbove(new[j], st[k]),
           \A j, k \in 1 .. d : j < k => MayBeAbove(new[j], new[k])
    PROVE  Ordered(new)
<1>1. SUFFICES ASSUME NEW j \in 1 .. Len(new), NEW k \in 1 .. Len(new), j < k
               PROVE  MayBeAbove(new[j], new[k])
  BY DEF Ordered
<1>2. d \in Nat /\ Len(new) \in Nat /\ Len(new) = d + Len(st)
      /\ \A n \in d + 1 .. Len(new) : n - d \in 1 .. Len(st) /\ new[n] = st[n - d]
  BY DEF Above
<1>3. CASE k <= d
  <2>1. j \in 1 .. d /\ k \in 1 .. d
    BY <1>1, <1>2, <1>3
  <2>. QED  BY <1>1, <2>1
<1>4. CASE k > d
  <2>1. k - d \in 1 .. Len(st) /\ new[k] = st[k - d]
    BY <1>2, <1>4
  <2>2. CASE j <= d
    <3>1. j \in 1 .. d
      BY <1>2, <2>2
    <3>. QED  BY <2>1, <3>1
  <2>3. CASE j > d
    <3>1. j - d \in 1 .. Len(st) /\ new[j] = st[j - d] /\ j - d < k - d
      BY <1>1, <1>2, <2>3
    <3>. QED  BY <2>1, <3>1 DEF Ordered
  <2>. QED  BY <1>2, <2>2, <2>3
<1>. QED  BY <1>2, <1>3, <1>4

\* A call puts its loops where they may be.
LEMMA CallOrdered ==
    ASSUME CallTypes, NEW st \in Seq(Frame), Ordered(st), Call(st)
    PROVE  Ordered(stack')
<1>1. Tree /\ children \in [Nodes -> SUBSET Nodes] /\ Objects \subseteq Nodes
  BY DEF CallTypes, Tree, Objects, Nodes
<1>2. ASSUME NEW o, NEW s, Adds(o, s, st) PROVE Ordered(stack')
  <2>1. Above(stack', 1, st) /\ stack'[1].loop = "added"
    BY <1>2 DEF Adds, Added
  <2>. QED  BY <2>1, AboveOrdered DEF MayBeAbove
<1>3. ASSUME NEW o, NEW p, NEW d, JoinsSetUp(o, p, d, st) PROVE Ordered(stack')
  <2>1. d \in {2, 3} /\ Above(stack', d, st)
        /\ \A k \in 1 .. d : stack'[k].loop \in {"setup", "create", "start"} /\ stack'[k].obj = o
    BY <1>3 DEF JoinsSetUp, Sets
  <2>2. ASSUME NEW k \in 1 .. Len(st), st[k].loop = "destroy" PROVE st[k].obj # o
    <3>1. st[k] \in Frame
      OBVIOUS
    <3>2. st[k].obj \in Nodes
      BY <1>1, <2>2, <3>1, Kinds DEF LoopFrames
    <3>3. o \notin Subtree(st[k].obj)
      BY <1>3, <2>2 DEF JoinsSetUp, Joins
    <3>. QED  BY <1>1, <3>2, <3>3, SubtreeIs
  <2>. QED  BY <2>1, <2>2, AboveOrdered DEF MayBeAbove
<1>4. ASSUME NEW p, NEW o, Leaves(p, o, st) PROVE Ordered(stack')
  <2>1. CASE Above(stack', 2, st) /\ stack'[1] = Loop("destroy", o) /\ stack'[2] = Erase(p, o)
    <3>1. stack'[1].loop = "destroy" /\ stack'[2].loop = "erase"
      BY <2>1 DEF Loop, Erase
    <3>. QED  BY <2>1, <3>1, AboveOrdered DEF MayBeAbove
  <2>2. CASE Marked(stack', p, o, st)
    BY <2>2, MarkedAlike, AlikeOrdered
  <2>. QED  BY <1>4, <2>1, <2>2 DEF Leaves
<1>. QED  BY <1>2, <1>3, <1>4, CallCases DEF JoinsEarly, Switches

\* So does a callback with the call it makes.
LEMMA CallBackOrdered ==
    ASSUME CallTypes, NEW st \in Seq(Frame), Ordered(st), NEW s, NEW m, CallBack(s, m, st)
    PROVE  Ordered(stack')
<1>1. CASE stack' = st
  BY <1>1
<1>2. CASE Call(st)
  BY <1>2, CallOrdered
<1>. QED  BY <1>1, <1>2 DEF CallBack

\* Every step keeps the loops in order.
LEMMA OrderedNext ==
    ASSUME TypeOK, Ordered(stack), [Next]_vars
    PROVE  Ordered(stack')
<1>1. CallTypes /\ stack \in Seq(Frame)
  BY TypesOfCall DEF TypeOK
<1>2. ASSUME stack # << >>, NEW st, NEW g, Retopped(st, g, stack), g.loop = stack[1].loop, g.obj = stack[1].obj
      PROVE  st \in Seq(Frame) /\ Ordered(st)
  BY <1>1, <1>2, RetoppedAlike, AlikeOrdered DEF Alike
<1>3. CASE UNCHANGED stack
  BY <1>3
<1>4. ASSUME stack # << >>, NEW g, Enters(g) \/ GoesOn(g) PROVE Ordered(stack')
  BY <1>2, <1>4 DEF Enters, GoesOn, Moved
<1>5. ASSUME stack # << >>, NEW g, NEW st, NEW s, NEW m, Turns(g, st, s, m) PROVE Ordered(stack')
  BY <1>1, <1>2, <1>5, CallBackOrdered DEF Turns, Moved
<1>6. ASSUME stack # << >>, NEW g, NEW st, Descends(g, st) PROVE Ordered(stack')
  <2>. DEFINE f == stack[1]
              new == stack'[1]
  <2>1. st \in Seq(Frame) /\ Ordered(st)
    BY <1>2, <1>6 DEF Descends, Moved
  <2>2. CASE stack' = st
    BY <2>1, <2>2
  <2>3. CASE Above(stack', 1, st) /\ new = Loop(f.loop, f.it)
    <3>1. f.loop \in Nested /\ new.loop = f.loop /\ st[1].loop = f.loop /\ Len(st) >= 1
      BY <1>6, <2>3 DEF Descends, Moved, Retopped, Loop
    <3>2. ASSUME NEW k \in 1 .. Len(st) PROVE MayBeAbove(new, st[k])
      <4>1. CASE k = 1
        BY <3>1, <4>1 DEF MayBeAbove, Nested
      <4>2. CASE k > 1
        <5>1. MayBeAbove(st[1], st[k])
          BY <2>1, <3>1, <4>2 DEF Ordered
        <5>. QED  BY <3>1, <5>1 DEF MayBeAbove, Nested
      <4>. QED  BY <4>1, <4>2
    <3>. QED  BY <2>1, <2>3, <3>2, AboveOrdered
  <2>. QED  BY <1>6, <2>2, <2>3 DEF Descends
<1>7. CASE Returns
  BY <1>1, <1>7, PoppedOrdered DEF Returns
<1>8. ASSUME stack # << >>, NEW st, Erases(st) PROVE Ordered(stack')
  <2>1. Ordered(st)
    BY <1>1, <1>8, PoppedOrdered DEF Erases
  <2>. QED  BY <1>8, <2>1, MarkedAlike, AlikeOrdered DEF Erases
<1>9. ASSUME stack # << >>, NEW g, NEW st, TurnsAdded(g, st) PROVE Ordered(stack')
  <2>1. g.loop = stack[1].loop /\ g.obj = stack[1].obj
    BY <1>9 DEF TurnsAdded, AddedFrames
  <2>2. st \in Seq(Frame) /\ Ordered(st)
    BY <1>2, <1>9, <2>1 DEF TurnsAdded
  <2>. QED  BY <1>1, <1>9, <2>2, CallBackOrdered DEF TurnsAdded
<1>10. CASE Main
  <2>1. << >> \in Seq(Frame) /\ Ordered(<< >>)
    BY DEF Ordered
  <2>. QED  BY <1>1, <1>10, <2>1, CallOrdered DEF Main
<1>11. ASSUME NEW o, Begins(o) PROVE Ordered(stack')
  BY <1>11 DEF Begins, Ordered
<1>. QED  BY <1>1, <1>3, <1>4, <1>5, <1>6, <1>7, <1>8, <1>9, <1>10, <1>11, StepCases

-----------------------------------------------------------------------------
(* What the scripts have seen.  lg, cs and fl stand for log, components and did. *)

\* A component is at one place.
OnePlace(cs) ==
    \A o, p \in Objects : \A i \in DOMAIN cs[o], j \in DOMAIN cs[p] :
        cs[o][i] = cs[p][j] /\ cs[o][i] \in Scripts => o = p /\ i = j

\* AddComponent, below others: it has called OnCreate.
CreatedByAdd(f, lg, fl) ==
    f.loop = "added" =>
        /\ f.i # 1
        /\ f.i = 2 => "OnCreate" \in lg[f.script] /\ "created" \in fl[f.obj]

\* On top: OnCreate is next; or it was called, or was not for the object is not created.
AddedOnTop(f, lg, cs, fl) ==
    f.loop = "added" =>
        /\ f.i = 1 => lg[f.script] = {} /\ f.script \in ToSet(cs[f.obj])
        /\ f.i = 2 => \/ "OnCreate" \in lg[f.script] /\ "created" \in fl[f.obj]
                      \/ /\ lg[f.script] = {} /\ f.script \in ToSet(cs[f.obj])
                         /\ "created" \notin fl[f.obj]

AllCreated(st, lg, fl) == \A k \in 1 .. Len(st) : CreatedByAdd(st[k], lg, fl)

AddedOk(st, lg, cs, fl) ==
    /\ \A k \in 2 .. Len(st) : CreatedByAdd(st[k], lg, fl)
    /\ st # << >> => AddedOnTop(st[1], lg, cs, fl)

\* A loop of o that destroys has gone past i.
PastIt(f, o, i) == f.loop = "destroy" /\ f.obj = o /\ i < f.i

\* A script that has seen OnDestroy is behind the loop that destroys its object.
GoneOk(st, lg, cs) ==
    \A o \in Objects : \A i \in DOMAIN cs[o] :
        cs[o][i] \in Scripts /\ "OnDestroy" \in lg[cs[o][i]] =>
            \E k \in 1 .. Len(st) : PastIt(st[k], o, i)

ScriptsOk(st, lg, cs, fl) == OnePlace(cs) /\ AddedOk(st, lg, cs, fl) /\ GoneOk(st, lg, cs)

\* The same, where a callback calls
ScriptsCall(st, lg, cs, fl) == OnePlace(cs) /\ AllCreated(st, lg, fl) /\ GoneOk(st, lg, cs)

\* Each frame of st is in new, but for the iterators.
SameTurn(g, f) == g = f \/ (Moved(g, f) /\ g.i = f.i)
Keeps(new, st) == \A k \in 1 .. Len(st) : \E n \in 1 .. Len(new) : SameTurn(new[n], st[k])

\* Loops put on the stack keep the turns below them.
LEMMA AboveKeeps == ASSUME NEW st \in Seq(Frame), NEW d, NEW new, Above(new, d, st) PROVE Keeps(new, st)
<1>1. ASSUME NEW k \in 1 .. Len(st) PROVE \E n \in 1 .. Len(new) : SameTurn(new[n], st[k])
  <2>1. k + d \in 1 .. Len(new) /\ new[k + d] = st[k]
    BY DEF Above
  <2>. QED  BY <2>1 DEF SameTurn
<1>. QED  BY <1>1 DEF Keeps

\* Erasing keeps the turns of the loops.
LEMMA MarkedKeeps ==
    ASSUME NEW st \in Seq(Frame), NEW p, NEW o, NEW new, Marked(new, p, o, st) PROVE Keeps(new, st)
<1>1. ASSUME NEW k \in 1 .. Len(st) PROVE k \in 1 .. Len(new) /\ SameTurn(new[k], st[k])
  BY DEF Marked, SameTurn, Moved
<1>. QED  BY <1>1 DEF Keeps

\* As long as the turns are kept, gone scripts stay behind the loop that destroys.
LEMMA KeepsGone ==
    ASSUME NEW st, NEW new, Keeps(new, st), NEW lg, NEW cs, GoneOk(st, lg, cs) PROVE GoneOk(new, lg, cs)
<1>1. \A f, g, o, i : SameTurn(g, f) /\ PastIt(f, o, i) => PastIt(g, o, i)
  BY DEF SameTurn, PastIt, Moved
<1>. QED  BY <1>1 DEF Keeps, GoneOk

\* A script whose OnCreate has been called for asks nothing more of the stack.
LEMMA CreatedOnTop ==
    ASSUME NEW st \in Seq(Frame), NEW lg, NEW fl, AllCreated(st, lg, fl), NEW cs PROVE AddedOk(st, lg, cs, fl)
<1>1. \A k \in 2 .. Len(st) : CreatedByAdd(st[k], lg, fl)
  BY DEF AllCreated
<1>2. st # << >> => CreatedByAdd(st[1], lg, fl)
  BY DEF AllCreated
<1>. QED  BY <1>1, <1>2 DEF AddedOk, AddedOnTop, CreatedByAdd

\* Frames that are not AddComponent's, on top of others
LEMMA AboveCreated ==
    ASSUME NEW st \in Seq(Frame), NEW lg, NEW fl, AllCreated(st, lg, fl), NEW d, NEW new, Above(new, d, st),
           \A k \in 1 .. d : new[k].loop # "added"
    PROVE  AllCreated(new, lg, fl)
<1>1. ASSUME NEW k \in 1 .. Len(new) PROVE CreatedByAdd(new[k], lg, fl)
  <2>1. CASE k <= d
    BY <2>1 DEF Above, CreatedByAdd
  <2>2. CASE k > d
    <3>1. k \in d + 1 .. Len(new)
      BY <2>2 DEF Above
    <3>. QED  BY <3>1 DEF Above, AllCreated
  <2>. QED  BY <2>1, <2>2 DEF Above
<1>. QED  BY <1>1 DEF AllCreated

\* Erasing does not touch the frames of AddComponent.
LEMMA MarkedCreated ==
    ASSUME NEW st \in Seq(Frame), NEW lg, NEW fl, AllCreated(st, lg, fl), NEW p, NEW o, NEW new, Marked(new, p, o, st)
    PROVE  AllCreated(new, lg, fl)
BY DEF Marked, AllCreated, CreatedByAdd, Nested

\* A call leaves each component at its place, the added one next, and gone ones gone.
LEMMA CallScripts ==
    ASSUME CallTypes, NEW st \in Seq(Frame), NEW lg, ScriptsCall(st, lg, components, did), Call(st),
           \A s \in Scripts : log[s] = {} /\ (\A x \in Objects : s \notin ToSet(components[x])) => lg[s] = {}
    PROVE  ScriptsOk(stack', lg, components', did')
<1>. DEFINE Goal == ScriptsOk(stack', lg, components', did')
<1>1. stack' \in Seq(Frame) /\ did \in [Objects -> SUBSET Flags]
      /\ components \in [Objects -> Seq(Scripts \cup {Transform})]
  BY CallTyped DEF CallTypes
<1>2. OnePlace(components) /\ AllCreated(st, lg, did) /\ GoneOk(st, lg, components)
  BY DEF ScriptsCall
<1>3. ASSUME AllCreated(stack', lg, did), did' = did, components' = components, Keeps(stack', st)
      PROVE  Goal
  BY <1>1, <1>2, <1>3, CreatedOnTop, KeepsGone DEF ScriptsOk
<1>4. CASE stack' = st /\ did' = did /\ components' = components
  BY <1>1, <1>2, <1>4, CreatedOnTop DEF ScriptsOk
<1>5. ASSUME NEW o, NEW s, Adds(o, s, st) PROVE Goal
  <2>1. /\ o \in Objects /\ s \in Scripts /\ lg[s] = {} /\ UNCHANGED did
        /\ \A x \in Objects : s \notin ToSet(components[x])
        /\ components' = [components EXCEPT ![o] = Append(@, s)]
        /\ Above(stack', 1, st) /\ stack'[1] = Added(o, s)
    BY <1>5 DEF Adds
  <2>2. ASSUME NEW x \in Objects, NEW i \in DOMAIN components'[x]
        PROVE  \/ i \in DOMAIN components[x] /\ components'[x][i] = components[x][i] /\ components[x][i] # s
               \/ x = o /\ i = Len(components[o]) + 1 /\ components'[x][i] = s
    <3>1. components[x] \in Seq(Scripts \cup {Transform})
      BY <1>1
    <3>2. \A n \in DOMAIN components[x] : components[x][n] # s
      BY <2>1 DEF ToSet
    <3>3. components'[x] = IF x = o THEN Append(components[x], s) ELSE components[x]
      BY <1>1, <2>1
    <3>. QED  BY <2>2, <3>1, <3>2, <3>3
  <2>3. OnePlace(components')
    <3>1. SUFFICES ASSUME NEW x \in Objects, NEW y \in Objects, NEW i \in DOMAIN components'[x],
                          NEW j \in DOMAIN components'[y], components'[x][i] = components'[y][j],
                          components'[x][i] \in Scripts
                   PROVE  x = y /\ i = j
      BY DEF OnePlace
    <3>. QED  BY <1>2, <2>2, <3>1 DEF OnePlace
  <2>4. AddedOk(stack', lg, components', did')
    <3>1. \A k \in 2 .. Len(stack') : CreatedByAdd(stack'[k], lg, did')
      BY <1>2, <2>1 DEF Above, AllCreated
    <3>2. s \in ToSet(components'[o])
      <4>1. components[o] \in Seq(Scripts \cup {Transform}) /\ components'[o] = Append(components[o], s)
        BY <1>1, <2>1
      <4>2. Len(components[o]) + 1 \in DOMAIN components'[o] /\ components'[o][Len(components[o]) + 1] = s
        BY <4>1, <2>1
      <4>. QED  BY <4>2 DEF ToSet
    <3>3. stack'[1].loop = "added" /\ stack'[1].obj = o /\ stack'[1].script = s /\ stack'[1].i = 1
      BY <2>1 DEF Added
    <3>. QED  BY <2>1, <3>1, <3>2, <3>3 DEF AddedOk, AddedOnTop
  <2>5. GoneOk(stack', lg, components')
    <3>1. GoneOk(stack', lg, components)
      BY <1>2, <2>1, AboveKeeps, KeepsGone
    <3>. QED  BY <2>1, <2>2, <3>1 DEF GoneOk
  <2>. QED  BY <2>3, <2>4, <2>5 DEF ScriptsOk
<1>6. ASSUME NEW o, NEW p, NEW d, JoinsSetUp(o, p, d, st) PROVE Goal
  <2>1. /\ did' = [did EXCEPT ![o] = @ \cup {"setup"}] /\ UNCHANGED components
        /\ Above(stack', d, st) /\ \A k \in 1 .. d : stack'[k].loop # "added"
    BY <1>6 DEF JoinsSetUp, Joins, Sets
  <2>2. AllCreated(st, lg, did')
    <3>1. \A f \in Frame : f.loop = "added" => f.obj \in Objects
      BY Kinds DEF AddedFrames
    <3>2. \A x \in Objects : "created" \in did[x] => "created" \in did'[x]
      BY <1>1, <2>1
    <3>3. \A k \in 1 .. Len(st) : st[k] \in Frame
      OBVIOUS
    <3>. QED  BY <1>2, <3>1, <3>2, <3>3 DEF AllCreated, CreatedByAdd
  <2>3. AllCreated(stack', lg, did')
    BY <2>1, <2>2, AboveCreated
  <2>. QED  BY <1>1, <1>2, <2>1, <2>3, CreatedOnTop, AboveKeeps, KeepsGone DEF ScriptsOk
<1>7. ASSUME NEW p, NEW o, Leaves(p, o, st) PROVE Goal
  <2>1. CASE Above(stack', 2, st) /\ stack'[1] = Loop("destroy", o) /\ stack'[2] = Erase(p, o)
    <3>1. \A k \in 1 .. 2 : stack'[k].loop # "added"
      BY <2>1 DEF Loop, Erase
    <3>2. AllCreated(stack', lg, did)
      BY <1>2, <2>1, <3>1, AboveCreated
    <3>. QED  BY <1>3, <1>7, <2>1, <3>2, AboveKeeps DEF Leaves
  <2>2. CASE Marked(stack', p, o, st)
    <3>1. AllCreated(stack', lg, did)
      BY <1>2, <2>2, MarkedCreated
    <3>. QED  BY <1>3, <1>7, <2>2, <3>1, MarkedKeeps DEF Leaves
  <2>. QED  BY <1>7, <2>1, <2>2 DEF Leaves
<1>. QED  BY <1>4, <1>5, <1>6, <1>7, CallCases DEF JoinsEarly, Joins, Switches

\* What a callback adds to the log
LEMMA CallBackLog ==
    ASSUME log \in [Scripts -> SUBSET Marks], NEW s, NEW m, NEW st, CallBack(s, m, st)
    PROVE  \A x \in Scripts :
              /\ x # s => log'[x] = log[x]
              /\ x = s => /\ log[x] \subseteq log'[x] /\ m \in log'[x]
                          /\ log'[x] \subseteq log[x] \cup {m, "raw", "late"}
                          /\ "late" \in log'[x] \ log[x] => "OnDestroy" \in log[x] \/ m = "late"
                          /\ "raw" \in log'[x] \ log[x] => (m = "Update" /\ "Start" \notin log[x]) \/ m = "raw"
BY DEF CallBack

\* So does a callback with the call it makes.
LEMMA CallBackScripts ==
    ASSUME CallTypes, NEW st \in Seq(Frame), NEW s, NEW m, CallBack(s, m, st),
           ScriptsCall(st, log', components, did), log \in [Scripts -> SUBSET Marks],
           log[s] # {} \/ \E x \in Objects : s \in ToSet(components[x])
    PROVE  ScriptsOk(stack', log', components', did')
<1>1. CASE stack' = st /\ UNCHANGED tree
  BY <1>1, CreatedOnTop DEF ScriptsCall, ScriptsOk, tree
<1>2. CASE Call(st)
  <2>1. \A x \in Scripts : log[x] = {} /\ (\A y \in Objects : x \notin ToSet(components[y])) => log'[x] = {}
    BY CallBackLog
  <2>. QED  BY <1>2, <2>1, CallScripts
<1>. QED  BY <1>1, <1>2 DEF CallBack

\* Every step keeps what is known of the scripts.
LEMMA ScriptsNext ==
    ASSUME TypeOK, ScriptsOk(stack, log, components, did), [Next]_vars
    PROVE  ScriptsOk(stack', log', components', did')
<1>. DEFINE Goal == ScriptsOk(stack', log', components', did')
            f == stack[1]
<1>. N \in Nat
  BY TreeAssumption
<1>1. stack \in Seq(Frame) /\ CallTypes /\ log \in [Scripts -> SUBSET Marks] /\ did \in [Objects -> SUBSET Flags]
      /\ components \in [Objects -> Seq(Scripts \cup {Transform})]
  <2>1. CallTypes
    BY TypesOfCall
  <2>. QED  BY <2>1 DEF CallTypes, TypeOK
<1>2. OnePlace(components) /\ AddedOk(stack, log, components, did) /\ GoneOk(stack, log, components)
  BY DEF ScriptsOk
<1>3. CASE UNCHANGED <<stack, log, components, did>>
  BY <1>3
\* A frame on top that is not AddComponent's moves.
<1>4. ASSUME stack # << >>, NEW st, NEW g, Retopped(st, g, stack), g.loop # "added"
      PROVE  st \in Seq(Frame) /\ AllCreated(st, log, did)
  <2>1. st \in Seq(Frame) /\ Len(st) = Len(stack) /\ st[1] = g /\ \A k \in 2 .. Len(st) : st[k] = stack[k]
    BY <1>4 DEF Retopped
  <2>2. CreatedByAdd(st[1], log, did)
    BY <1>4, <2>1 DEF CreatedByAdd
  <2>3. \A k \in 1 .. Len(st) : k = 1 \/ k \in 2 .. Len(st)
    OBVIOUS
  <2>. QED  BY <1>2, <2>1, <2>2, <2>3 DEF AllCreated, AddedOk
<1>5. ASSUME stack # << >>, NEW st, NEW g, Retopped(st, g, stack), Moved(g, f), f.i <= g.i
      PROVE  GoneOk(st, log, components)
  <2>1. ASSUME NEW o, NEW i, NEW k \in 1 .. Len(stack), PastIt(stack[k], o, i), i \in Nat
        PROVE  k \in 1 .. Len(st) /\ PastIt(st[k], o, i)
    <3>1. CASE k = 1
      BY <1>5, <2>1, <3>1 DEF Retopped, Moved, PastIt, LoopFrames
    <3>2. CASE k # 1
      BY <1>5, <2>1, <3>2 DEF Retopped
    <3>. QED  BY <3>1, <3>2
  <2>2. \A o \in Objects : \A i \in DOMAIN components[o] : i \in Nat
    BY <1>1
  <2>. QED  BY <1>2, <2>1, <2>2 DEF GoneOk
\* More flags, more in the log
<1>6. ASSUME NEW st \in Seq(Frame), NEW lg, NEW fl, AllCreated(st, log, did),
             \A x \in Scripts : log[x] \subseteq lg[x], \A o \in Objects : did[o] \subseteq fl[o]
      PROVE  AllCreated(st, lg, fl)
  <2>1. ASSUME NEW k \in 1 .. Len(st) PROVE CreatedByAdd(st[k], lg, fl)
    <3>1. st[k] \in Frame
      OBVIOUS
    <3>2. st[k].loop = "added" => st[k].obj \in Objects /\ st[k].script \in Scripts
      BY <3>1, Kinds DEF AddedFrames
    <3>. QED  BY <1>6, <3>2 DEF AllCreated, CreatedByAdd
  <2>. QED  BY <2>1 DEF AllCreated
<1>7. ASSUME NEW st, Popped(st, stack) PROVE st \in Seq(Frame) /\ AllCreated(st, log, did)
  <2>1. ASSUME NEW k \in 1 .. Len(st) PROVE CreatedByAdd(st[k], log, did)
    <3>1. st[k] = stack[k + 1] /\ k + 1 \in 2 .. Len(stack)
      BY <1>1, <1>7 DEF Popped
    <3>. QED  BY <1>2, <3>1 DEF AddedOk
  <2>. QED  BY <1>7, <2>1 DEF AllCreated, Popped
<1>8. ASSUME NEW st, Popped(st, stack), NEW o, NEW i, \E k \in 1 .. Len(stack) : PastIt(stack[k], o, i), ~PastIt(f, o, i)
      PROVE  \E k \in 1 .. Len(st) : PastIt(st[k], o, i)
  <2>1. PICK k \in 1 .. Len(stack) : PastIt(stack[k], o, i)
    BY <1>8
  <2>2. k - 1 \in 1 .. Len(st) /\ st[k - 1] = stack[k]
    BY <1>1, <1>8, <2>1 DEF Popped
  <2>. QED  BY <2>1, <2>2
<1>9. ASSUME stack # << >>, NEW g, Enters(g) PROVE Goal
  <2>1. Moved(g, f) /\ f.i = 0 /\ g.i \in {1, 2} /\ Retopped(stack', g, stack) /\ UNCHANGED <<components, log>>
    BY <1>9 DEF Enters
  <2>2. \A o \in Objects : did[o] \subseteq did'[o]
    BY <1>1, <1>9 DEF Enters
  <2>3. f.i <= g.i /\ g.loop # "added"
    BY <2>1, Kinds DEF Moved, LoopFrames
  <2>4. GoneOk(stack', log, components)
    BY <1>5, <1>9, <2>1, <2>3
  <2>5. stack' \in Seq(Frame) /\ AllCreated(stack', log, did)
    BY <1>4, <1>9, <2>1, <2>3
  <2>6. AllCreated(stack', log', did')
    BY <1>6, <2>1, <2>2, <2>5
  <2>. QED  BY <1>2, <2>1, <2>4, <2>5, <2>6, CreatedOnTop DEF ScriptsOk
<1>10. ASSUME stack # << >>, NEW g, NEW st, NEW s, NEW m, Turns(g, st, s, m) PROVE Goal
  <2>1. /\ Moved(g, f) /\ f.i \in 1 .. Len(components[f.obj]) /\ g.i = f.i + 1
        /\ s = components[f.obj][f.i] /\ m = Method[f.loop]
        /\ st \in Seq(Frame) /\ Retopped(st, g, stack) /\ CallBack(s, m, st)
    BY <1>10 DEF Turns
  <2>2. f.obj \in Objects /\ f.loop \in Loops /\ g.loop # "added" /\ f.i <= g.i /\ f.i \in DOMAIN components[f.obj]
    BY <1>1, <2>1, Kinds DEF Moved, LoopFrames
  <2>3. m \notin {"raw", "late"} /\ (m = "OnDestroy" => f.loop = "destroy")
    BY <2>1, <2>2, Kinds DEF Method
  <2>4. \A x \in Scripts : /\ log[x] \subseteq log'[x]
                           /\ "OnDestroy" \in log'[x] => "OnDestroy" \in log[x] \/ (x = s /\ f.loop = "destroy")
    <3>1. \A x \in Scripts : /\ x # s => log'[x] = log[x]
                             /\ x = s => log[x] \subseteq log'[x] /\ log'[x] \subseteq log[x] \cup {m, "raw", "late"}
      BY <1>1, <2>1, CallBackLog
    <3>. QED  BY <2>3, <3>1
  <2>5. AllCreated(st, log', did)
    BY <1>4, <1>6, <1>10, <2>1, <2>2, <2>4
  <2>6. GoneOk(st, log', components)
    <3>1. SUFFICES ASSUME NEW o \in Objects, NEW i \in DOMAIN components[o], components[o][i] \in Scripts,
                          "OnDestroy" \in log'[components[o][i]]
                   PROVE  \E k \in 1 .. Len(st) : PastIt(st[k], o, i)
      BY DEF GoneOk
    <3>2. CASE "OnDestroy" \in log[components[o][i]]
      <4>1. GoneOk(st, log, components)
        BY <1>5, <1>10, <2>1, <2>2
      <4>. QED  BY <3>1, <3>2, <4>1 DEF GoneOk
    <3>3. CASE components[o][i] = s /\ f.loop = "destroy"
      <4>1. o = f.obj /\ i = f.i
        BY <1>2, <2>1, <2>2, <3>1, <3>3 DEF OnePlace
      <4>2. st[1] = g /\ 1 \in 1 .. Len(st) /\ f.i < g.i
        BY <2>1 DEF Retopped
      <4>. QED  BY <2>1, <3>3, <4>1, <4>2 DEF PastIt, Moved
    <3>. QED  BY <2>4, <3>1, <3>2, <3>3
  <2>7. s \in ToSet(components[f.obj])
    BY <2>1, <2>2 DEF ToSet
  <2>. QED  BY <1>1, <1>2, <2>1, <2>2, <2>5, <2>6, <2>7, CallBackScripts DEF ScriptsCall
<1>11. ASSUME stack # << >>, NEW g, GoesOn(g) PROVE Goal
  <2>1. Moved(g, f) /\ g.i = f.i /\ Retopped(stack', g, stack) /\ UNCHANGED <<components, log, did>>
    BY <1>11 DEF GoesOn
  <2>2. g.loop # "added" /\ f.i <= g.i
    BY <2>1, Kinds DEF Moved, LoopFrames
  <2>. QED  BY <1>2, <1>4, <1>5, <1>11, <2>1, <2>2, CreatedOnTop DEF ScriptsOk
<1>12. ASSUME stack # << >>, NEW g, NEW st, Descends(g, st) PROVE Goal
  <2>1. Moved(g, f) /\ g.i = f.i /\ Retopped(st, g, stack) /\ UNCHANGED <<components, log, did>>
        /\ (stack' = st \/ (Above(stack', 1, st) /\ stack'[1] = Loop(f.loop, f.it)))
    BY <1>12 DEF Descends
  <2>2. g.loop # "added" /\ f.i <= g.i /\ f.loop # "added"
    BY <2>1, Kinds DEF Moved, LoopFrames
  <2>3. st \in Seq(Frame) /\ AllCreated(st, log, did) /\ GoneOk(st, log, components)
    BY <1>4, <1>5, <1>12, <2>1, <2>2
  <2>4. CASE stack' = st
    BY <1>2, <2>1, <2>3, <2>4, CreatedOnTop DEF ScriptsOk
  <2>5. CASE Above(stack', 1, st) /\ stack'[1] = Loop(f.loop, f.it)
    <3>1. \A k \in 1 .. 1 : stack'[k].loop # "added"
      BY <2>2, <2>5 DEF Loop
    <3>2. stack' \in Seq(Frame) /\ AllCreated(stack', log, did)
      BY <2>3, <2>5, <3>1, AboveCreated DEF Above
    <3>3. GoneOk(stack', log, components)
      BY <2>3, <2>5, AboveKeeps, KeepsGone
    <3>. QED  BY <1>2, <2>1, <3>2, <3>3, CreatedOnTop DEF ScriptsOk
  <2>. QED  BY <2>1, <2>4, <2>5
<1>13. ASSUME stack # << >>, Returns PROVE Goal
  <2>1. Popped(stack', stack) /\ UNCHANGED <<log, did>>
    BY <1>13 DEF Returns
  <2>2. stack' \in Seq(Frame) /\ AllCreated(stack', log, did)
    BY <1>7, <2>1
  <2>3. CASE UNCHANGED components /\ f.loop # "destroy"
    <3>1. GoneOk(stack', log, components)
      <4>1. \A o, i : ~PastIt(f, o, i)
        BY <2>3 DEF PastIt
      <4>. QED  BY <1>2, <1>8, <2>1, <4>1 DEF GoneOk
    <3>. QED  BY <1>2, <2>1, <2>2, <2>3, <3>1, CreatedOnTop DEF ScriptsOk
  <2>4. CASE components' = [components EXCEPT ![f.obj] = << >>]
    <3>1. ASSUME NEW o \in Objects, NEW i \in DOMAIN components'[o]
          PROVE  o # f.obj /\ i \in DOMAIN components[o] /\ components'[o] = components[o]
      <4>1. CASE o = f.obj
        <5>1. components'[o] = << >>
          BY <1>1, <2>4, <4>1
        <5>. QED  BY <3>1, <5>1
      <4>2. CASE o # f.obj
        <5>1. components'[o] = components[o]
          BY <1>1, <2>4, <4>2
        <5>. QED  BY <3>1, <4>2, <5>1
      <4>. QED  BY <4>1, <4>2
    <3>2. OnePlace(components')
      BY <1>2, <3>1 DEF OnePlace
    <3>3. GoneOk(stack', log, components')
      <4>1. \A o, i : o # f.obj => ~PastIt(f, o, i)
        BY DEF PastIt
      <4>. QED  BY <1>2, <1>8, <2>1, <3>1, <4>1 DEF GoneOk
    <3>. QED  BY <2>1, <2>2, <3>2, <3>3, CreatedOnTop DEF ScriptsOk
  <2>5. f.loop = "destroy" => components' = [components EXCEPT ![f.obj] = << >>]
    BY <1>13 DEF Returns, Nested, AddedFrames
  <2>6. f.loop # "destroy" => UNCHANGED components
    BY <1>13 DEF Returns
  <2>. QED  BY <2>3, <2>4, <2>5, <2>6
<1>14. ASSUME stack # << >>, NEW st, Erases(st) PROVE Goal
  <2>1. Popped(st, stack) /\ Marked(stack', f.obj, f.child, st) /\ UNCHANGED <<log, did, components>> /\ f.loop = "erase"
    BY <1>14 DEF Erases, EraseFrames
  <2>2. st \in Seq(Frame) /\ AllCreated(st, log, did)
    BY <1>7, <2>1
  <2>3. GoneOk(st, log, components)
    <3>1. \A o, i : ~PastIt(f, o, i)
      BY <2>1 DEF PastIt
    <3>. QED  BY <1>2, <1>8, <2>1, <3>1 DEF GoneOk
  <2>4. stack' \in Seq(Frame) /\ AllCreated(stack', log, did) /\ GoneOk(stack', log, components)
    <3>1. AllCreated(stack', log, did)
      BY <2>1, <2>2, MarkedCreated
    <3>2. GoneOk(stack', log, components)
      BY <2>1, <2>2, <2>3, MarkedKeeps, KeepsGone
    <3>. QED  BY <2>1, <3>1, <3>2 DEF Marked
  <2>. QED  BY <1>2, <2>1, <2>4, CreatedOnTop DEF ScriptsOk
<1>15. ASSUME stack # << >>, NEW g, NEW st, TurnsAdded(g, st) PROVE Goal
  <2>1. /\ f \in AddedFrames /\ g \in AddedFrames /\ f.i \in {1, 2} /\ g.i = f.i + 1
        /\ g.obj = f.obj /\ g.script = f.script /\ st \in Seq(Frame) /\ Retopped(st, g, stack)
    BY <1>15 DEF TurnsAdded
  <2>2. f.loop = "added" /\ g.loop = "added" /\ f.obj \in Objects /\ f.script \in Scripts
    BY <2>1 DEF AddedFrames
  <2>3. AddedOnTop(f, log, components, did)
    BY <1>2, <1>15 DEF AddedOk
  <2>4. GoneOk(st, log, components)
    <3>1. \A o, i : ~PastIt(f, o, i)
      BY <2>2 DEF PastIt
    <3>2. ASSUME NEW o, NEW i, NEW k \in 1 .. Len(stack), PastIt(stack[k], o, i)
          PROVE  k \in 1 .. Len(st) /\ PastIt(st[k], o, i)
      BY <2>1, <3>1, <3>2 DEF Retopped
    <3>. QED  BY <1>2, <3>2 DEF GoneOk
  <2>5. Len(st) = Len(stack) /\ st[1] = g /\ \A k \in 2 .. Len(st) : st[k] = stack[k] /\ CreatedByAdd(st[k], log, did)
    BY <1>2, <2>1 DEF Retopped, AddedOk
  <2>6. ASSUME CreatedByAdd(g, log, did) PROVE AllCreated(st, log, did)
    <3>1. \A k \in 1 .. Len(st) : k = 1 \/ k \in 2 .. Len(st)
      OBVIOUS
    <3>. QED  BY <2>5, <2>6, <3>1 DEF AllCreated
  <2>7. CASE \/ f.i = 1 /\ "created" \in did[f.obj] /\ CallBack(f.script, "OnCreate", st)
             \/ f.i = 2 /\ "started" \in did[f.obj] /\ CallBack(f.script, "Start", st)
    <3>1. PICK m \in {"OnCreate", "Start"} :
              CallBack(f.script, m, st) /\ (f.i = 1 => m = "OnCreate" /\ "created" \in did[f.obj])
      BY <2>7
    <3>2. \A x \in Scripts : /\ log[x] \subseteq log'[x]
                             /\ "OnDestroy" \in log'[x] => "OnDestroy" \in log[x]
                             /\ x = f.script => m \in log'[x]
      <4>1. \A x \in Scripts :
                /\ x # f.script => log'[x] = log[x]
                /\ x = f.script => /\ log[x] \subseteq log'[x] /\ m \in log'[x]
                                   /\ log'[x] \subseteq log[x] \cup {m, "raw", "late"}
        BY <1>1, <3>1, CallBackLog
      <4>. QED  BY <4>1
    <3>3. GoneOk(st, log', components)
      BY <2>4, <3>2 DEF GoneOk
    <3>4. AllCreated(st, log', did)
      <4>1. CreatedByAdd(g, log', did)
        BY <2>1, <2>2, <3>1, <3>2 DEF CreatedByAdd
      <4>2. ASSUME NEW k \in 2 .. Len(st) PROVE CreatedByAdd(st[k], log', did)
        <5>1. st[k] \in Frame
          BY <2>1
        <5>2. st[k].loop = "added" => st[k].script \in Scripts
          BY <5>1, Kinds DEF AddedFrames
        <5>. QED  BY <2>5, <3>2, <5>2 DEF CreatedByAdd
      <4>3. \A k \in 1 .. Len(st) : k = 1 \/ k \in 2 .. Len(st)
        OBVIOUS
      <4>. QED  BY <2>5, <4>1, <4>2, <4>3 DEF AllCreated
    <3>5. log[f.script] # {} \/ \E x \in Objects : f.script \in ToSet(components[x])
      BY <2>1, <2>2, <2>3 DEF AddedOnTop
    <3>. QED  BY <1>1, <1>2, <2>1, <3>1, <3>3, <3>4, <3>5, CallBackScripts DEF ScriptsCall
  <2>8. CASE /\ (f.i = 1 /\ "created" \notin did[f.obj]) \/ (f.i = 2 /\ "started" \notin did[f.obj])
             /\ stack' = st /\ UNCHANGED <<components, did, log>>
    <3>1. AddedOnTop(g, log, components, did)
      BY <2>1, <2>2, <2>3, <2>8 DEF AddedOnTop
    <3>2. AddedOk(st, log, components, did)
      BY <2>5, <3>1 DEF AddedOk
    <3>. QED  BY <1>2, <2>4, <2>8, <3>2 DEF ScriptsOk
  <2>. QED  BY <1>15, <2>7, <2>8 DEF TurnsAdded
<1>16. CASE Main
  <2>1. stack = << >> /\ Call(<< >>) /\ UNCHANGED log
    BY <1>16 DEF Main
  <2>2. << >> \in Seq(Frame) /\ AllCreated(<< >>, log, did)
    BY DEF AllCreated
  <2>3. ScriptsCall(<< >>, log, components, did)
    BY <1>2, <2>1, <2>2 DEF ScriptsCall
  <2>. QED  BY <1>1, <2>1, <2>2, <2>3, CallScripts
<1>17. ASSUME NEW o, Begins(o) PROVE Goal
  <2>1. stack = << >> /\ stack' \in Seq(Frame) /\ Len(stack') = 1 /\ stack'[1] = Loop("update", o)
        /\ UNCHANGED <<components, log, did>>
    BY <1>17 DEF Begins
  <2>2. AllCreated(stack', log, did)
    BY <2>1 DEF AllCreated, CreatedByAdd, Loop
  <2>3. GoneOk(stack', log, components)
    BY <1>2, <2>1 DEF GoneOk
  <2>. QED  BY <1>2, <2>1, <2>2, <2>3, CreatedOnTop DEF ScriptsOk
<1>. QED  BY <1>3, <1>9, <1>10, <1>11, <1>12, <1>13, <1>14, <1>15, <1>16, <1>17, StepCases

\* The invariant: the types, the tree, and who can be called next
OrderInv ==
    /\ TreeInv /\ CursorOk(stack, children) /\ Ordered(stack)
    /\ ScriptsOk(stack, log, components, did)

\* OrderInv holds in the beginning, with an empty stack.
LEMMA OrderInit == Init => OrderInv
<1>. SUFFICES ASSUME Init PROVE OrderInv
  OBVIOUS
<1>1. stack = << >> /\ components = [o \in Objects |-> <<Transform>>] /\ log = [s \in Scripts |-> {}]
      /\ Transform \notin Scripts
  BY TreeAssumption DEF Init
<1>2. OnePlace(components)
  BY <1>1 DEF OnePlace
<1>3. GoneOk(stack, log, components)
  BY <1>1 DEF GoneOk
<1>4. CursorOk(stack, children) /\ Ordered(stack) /\ AddedOk(stack, log, components, did)
  BY <1>1 DEF CursorOk, Ordered, AddedOk
<1>. QED  BY <1>2, <1>3, <1>4, TreeInit DEF OrderInv, ScriptsOk

\* OrderInv is inductive.
LEMMA OrderNext == OrderInv /\ [Next]_vars => OrderInv'
<1>. SUFFICES ASSUME OrderInv, [Next]_vars PROVE OrderInv'
  OBVIOUS
<1>1. TypeOK /\ TreeInv /\ CursorOk(stack, children) /\ Ordered(stack)
      /\ ScriptsOk(stack, log, components, did)
  BY DEF OrderInv, TreeInv
<1>2. TreeInv'
  BY <1>1, TreeNext
<1>3. CursorOk(stack', children')
  BY <1>1, CursorNext
<1>4. Ordered(stack')
  BY <1>1, OrderedNext
<1>5. ScriptsOk(stack', log', components', did')
  BY <1>1, ScriptsNext
<1>. QED  BY <1>2, <1>3, <1>4, <1>5 DEF OrderInv

\* How a script that has seen OnDestroy is called again: as the property says.
LateCall(s) ==
    \/ /\ Top.loop = "added" /\ Top.i = 2 /\ Top.script = s
       /\ "created" \in did[Top.obj]
    \/ /\ Top.loop = "destroy"
       /\ \E k \in 2 .. Len(stack) : stack[k].loop = "destroy" /\ stack[k].obj = Top.obj

\* There is no other way.
LEMMA NotCalledAgain ==
    ASSUME OrderInv, [Next]_vars, NEW s \in Scripts, "late" \in log'[s] \ log[s]
    PROVE  LateCall(s)
<1>. DEFINE f == stack[1]
<1>1. TypeOK /\ stack \in Seq(Frame) /\ log \in [Scripts -> SUBSET Marks] /\ Ordered(stack)
      /\ ScriptsOk(stack, log, components, did)
  BY DEF OrderInv, TreeInv, TypeOK
<1>2. OnePlace(components) /\ AddedOk(stack, log, components, did) /\ GoneOk(stack, log, components)
      /\ components \in [Objects -> Seq(Scripts \cup {Transform})]
  BY <1>1 DEF ScriptsOk, TypeOK
<1>3. ASSUME UNCHANGED log PROVE FALSE
  BY <1>3
<1>4. ASSUME NEW g, NEW st, NEW c, NEW m, Turns(g, st, c, m) PROVE LateCall(s)
  <2>1. /\ f \in LoopFrames /\ f.i \in 1 .. Len(components[f.obj]) /\ c = components[f.obj][f.i]
        /\ m = Method[f.loop] /\ CallBack(c, m, st) /\ Len(stack) >= 1
    BY <1>4 DEF Turns, Moved, Retopped
  <2>2. f.obj \in Objects /\ f.i \in DOMAIN components[f.obj] /\ f.loop \in Loops
    BY <1>2, <2>1 DEF LoopFrames
  <2>3. m # "late"
    BY <2>1, <2>2, Kinds DEF Method
  <2>4. c = s /\ "OnDestroy" \in log[s]
    BY <1>1, <2>1, <2>3, CallBackLog
  <2>5. PICK k \in 1 .. Len(stack) : PastIt(stack[k], f.obj, f.i)
    BY <1>2, <2>1, <2>2, <2>4 DEF GoneOk
  <2>6. k # 1
    BY <2>1, <2>5 DEF PastIt, LoopFrames
  <2>7. MayBeAbove(f, stack[k])
    BY <1>1, <2>5, <2>6 DEF Ordered
  <2>8. f.loop = "destroy"
    BY <2>2, <2>5, <2>7, Kinds DEF PastIt, MayBeAbove
  <2>9. k \in 2 .. Len(stack) /\ f = Top
    BY <1>1, <2>1, <2>5, <2>6 DEF Top
  <2>. QED  BY <2>5, <2>8, <2>9 DEF PastIt, LateCall
<1>5. ASSUME stack # << >>, NEW g, NEW st, TurnsAdded(g, st)
      PROVE  LateCall(s)
  <2>1. f \in AddedFrames /\ f.i \in {1, 2} /\ f = Top
    BY <1>1, <1>5, InLoop DEF TurnsAdded
  <2>2. PICK m \in {"OnCreate", "Start"} : CallBack(f.script, m, st)
    BY <1>5, <1>3 DEF TurnsAdded
  <2>3. f.script = s /\ "OnDestroy" \in log[s]
    BY <1>1, <2>2, CallBackLog
  <2>4. AddedOnTop(f, log, components, did) /\ f.loop = "added"
    BY <1>2, <1>5, <2>1 DEF AddedOk, AddedFrames
  <2>. QED  BY <2>1, <2>3, <2>4 DEF AddedOnTop, LateCall
<1>. QED  BY <1>1, <1>3, <1>4, <1>5, StepCases DEF Enters, GoesOn, Descends, Returns, Erases, Begins, Main

\* Whatever the callbacks do, destroying calls from within OnDestroy included, and wherever the loops
\* stand: no script is called after OnDestroy, but by AddComponent when the OnCreate before it destroyed
\* the object, and by a second destruction of the object from within the first.
THEOREM NothingAfterDestroyHolds == Spec => NothingAfterDestroy
<1>. DEFINE Called == \A s \in Scripts : "late" \in log'[s] \ log[s] => LateCall(s)
<1>1. OrderInv /\ [Next]_vars => [Called]_vars
  BY NotCalledAgain
<1>2. Spec => [][Called]_vars
  BY <1>1, OrderInit, OrderNext, PTL DEF Spec
<1>. QED  BY <1>2 DEF NothingAfterDestroy, LateCall

-----------------------------------------------------------------------------
(* What is still to come for the scripts of an object that was set up *)

\* s has not seen m.
Lacks(s, m, lg) == s \in Scripts /\ m \notin lg[s]

\* _start() of o, or _onCreate(), which is still to begin
StartsAll(f, o)  == f.loop = "start" /\ f.obj = o /\ f.i = 0
CreatesAll(f, o) == f.loop = "create" /\ f.obj = o /\ f.i = 0

\* f will call s, component i of o: its Start, or its OnCreate.
WillStart(f, o, i, s, fl) ==
    \/ f.loop = "start" /\ f.obj = o /\ (f.i = 0 \/ f.i <= i)
    \/ f.loop = "added" /\ f.obj = o /\ f.script = s /\ f.i <= 2 /\ "started" \in fl[o]

WillCreate(f, o, i, s, fl) ==
    \/ f.loop = "create" /\ f.obj = o /\ (f.i = 0 \/ f.i <= i)
    \/ f.loop = "added" /\ f.obj = o /\ f.script = s /\ f.i = 1 /\ "created" \in fl[o]

\* What frame k, a _start(), comes to has been created when its turn comes.
StartOk(st, k, lg, cs, fl) ==
    LET o == st[k].obj
    IN  /\ "created" \in fl[o] \/ \E j \in 1 .. k - 1 : CreatesAll(st[j], o)
        /\ \A i \in DOMAIN cs[o] :
              Lacks(cs[o][i], "OnCreate", lg) => \E j \in 1 .. k - 1 : WillCreate(st[j], o, i, cs[o][i], fl)

LogOk(lg)   == \A s \in Scripts : "Start" \in lg[s] => "OnCreate" \in lg[s]
FlagsOk(fl) == \A o \in Objects : "started" \in fl[o] => "created" \in fl[o]

\* What an object that was set up has not had yet is on the stack.
ReadyOk(st, lg, cs, fl) ==
    /\ LogOk(lg) /\ FlagsOk(fl)
    /\ \A o \in Objects : "setup" \in fl[o] /\ "started" \notin fl[o] =>
          \E k \in 1 .. Len(st) : StartsAll(st[k], o)
    /\ \A o \in Objects : \A i \in DOMAIN cs[o] : "setup" \in fl[o] /\ Lacks(cs[o][i], "Start", lg) =>
          \E k \in 1 .. Len(st) : WillStart(st[k], o, i, cs[o][i], fl)
    /\ \A k \in 1 .. Len(st) : st[k].loop = "start" => StartOk(st, k, lg, cs, fl)

\* A step takes log, components and did to lg, cs and fl.  Then g does what f has left to do,
Serves(g, f, lg, cs, fl) ==
    \A o \in Objects :
        /\ StartsAll(f, o) /\ "started" \notin fl[o] => StartsAll(g, o)
        /\ CreatesAll(f, o) /\ "created" \notin fl[o] => CreatesAll(g, o)
        /\ \A i \in DOMAIN cs[o] :
              /\ WillStart(f, o, i, cs[o][i], did) /\ Lacks(cs[o][i], "Start", lg)
                    => WillStart(g, o, i, cs[o][i], fl)
              /\ WillCreate(f, o, i, cs[o][i], did) /\ Lacks(cs[o][i], "OnCreate", lg)
                    => WillCreate(g, o, i, cs[o][i], fl)

\* or f has nothing left.
Idle(f, lg, cs, fl) ==
    \A o \in Objects :
        /\ ~(StartsAll(f, o) /\ "started" \notin fl[o])
        /\ ~(CreatesAll(f, o) /\ "created" \notin fl[o])
        /\ \A i \in DOMAIN cs[o] :
              /\ ~(WillStart(f, o, i, cs[o][i], did) /\ Lacks(cs[o][i], "Start", lg))
              /\ ~(WillCreate(f, o, i, cs[o][i], did) /\ Lacks(cs[o][i], "OnCreate", lg))

\* There are more flags; components come only by AddComponent, objects are set up only by AddObject.
Onwards(cs, fl) ==
    /\ \A o \in Objects : did[o] \subseteq fl[o] /\ ("setup" \in fl[o] => "setup" \in did[o])
    /\ \A o \in Objects : \A i \in DOMAIN cs[o] : i \in DOMAIN components[o] /\ cs[o][i] = components[o][i]

Carries(new, st, lg, cs, fl) ==
    /\ \A k \in 1 .. Len(st) : Idle(st[k], lg, cs, fl) \/ \E n \in 1 .. Len(new) : Serves(new[n], st[k], lg, cs, fl)
    /\ \A n \in 1 .. Len(new) : new[n].loop = "start" =>
          \E k \in 1 .. Len(st) :
              /\ st[k].loop = "start" /\ st[k].obj = new[n].obj
              /\ \A j \in 1 .. k - 1 : \/ Idle(st[j], lg, cs, fl)
                                       \/ \E m \in 1 .. n - 1 : Serves(new[m], st[j], lg, cs, fl)

\* If every frame that served what an object lacks is carried over, or idle, ReadyOk stays.
LEMMA ReadyKept ==
    ASSUME NEW st \in Seq(Frame), NEW new \in Seq(Frame), NEW lg, NEW cs, NEW fl,
           NEW lg0, ReadyOk(st, lg0, components, did), \A s \in Scripts : lg0[s] \subseteq lg[s], LogOk(lg), FlagsOk(fl),
           Onwards(cs, fl), Carries(new, st, lg, cs, fl)
    PROVE  ReadyOk(new, lg, cs, fl)
<1>1. ASSUME NEW o \in Objects, "setup" \in fl[o], "started" \notin fl[o]
      PROVE  \E n \in 1 .. Len(new) : StartsAll(new[n], o)
  <2>1. PICK k \in 1 .. Len(st) : StartsAll(st[k], o)
    BY <1>1 DEF ReadyOk, Onwards
  <2>. QED  BY <1>1, <2>1 DEF Carries, Idle, Serves
<1>2. ASSUME NEW o \in Objects, NEW i \in DOMAIN cs[o], "setup" \in fl[o], Lacks(cs[o][i], "Start", lg)
      PROVE  \E n \in 1 .. Len(new) : WillStart(new[n], o, i, cs[o][i], fl)
  <2>1. i \in DOMAIN components[o] /\ cs[o][i] = components[o][i] /\ "setup" \in did[o]
        /\ Lacks(components[o][i], "Start", lg0)
    BY <1>2 DEF Onwards, Lacks
  <2>2. PICK k \in 1 .. Len(st) : WillStart(st[k], o, i, cs[o][i], did)
    BY <2>1 DEF ReadyOk
  <2>. QED  BY <1>2, <2>2 DEF Carries, Idle, Serves
<1>3. ASSUME NEW n \in 1 .. Len(new), new[n].loop = "start" PROVE StartOk(new, n, lg, cs, fl)
  <2>. DEFINE o == new[n].obj
  <2>1. PICK k \in 1 .. Len(st) :
              /\ st[k].loop = "start" /\ st[k].obj = o
              /\ \A j \in 1 .. k - 1 : \/ Idle(st[j], lg, cs, fl)
                                       \/ \E m \in 1 .. n - 1 : Serves(new[m], st[j], lg, cs, fl)
    BY <1>3 DEF Carries
  <2>2. StartOk(st, k, lg0, components, did)
    BY <2>1 DEF ReadyOk
  <2>3. o \in Objects
    <3>1. new[n] \in Frame
      OBVIOUS
    <3>. QED  BY <1>3, <3>1, Kinds DEF LoopFrames
  <2>4. "created" \in fl[o] \/ \E m \in 1 .. n - 1 : CreatesAll(new[m], o)
    <3>1. CASE "created" \in did[o]
      BY <2>3, <3>1 DEF Onwards
    <3>2. ASSUME NEW j \in 1 .. k - 1, CreatesAll(st[j], o), "created" \notin fl[o]
          PROVE  \E m \in 1 .. n - 1 : CreatesAll(new[m], o)
      BY <2>1, <2>3, <3>2 DEF Idle, Serves
    <3>. QED  BY <2>1, <2>2, <3>1, <3>2 DEF StartOk
  <2>5. ASSUME NEW i \in DOMAIN cs[o], Lacks(cs[o][i], "OnCreate", lg)
        PROVE  \E m \in 1 .. n - 1 : WillCreate(new[m], o, i, cs[o][i], fl)
    <3>1. i \in DOMAIN components[o] /\ cs[o][i] = components[o][i] /\ Lacks(components[o][i], "OnCreate", lg0)
      BY <2>3, <2>5 DEF Onwards, Lacks
    <3>2. PICK j \in 1 .. k - 1 : WillCreate(st[j], o, i, cs[o][i], did)
      BY <2>1, <2>2, <3>1 DEF StartOk
    <3>. QED  BY <2>1, <2>3, <2>5, <3>2 DEF Idle, Serves
  <2>. QED  BY <2>4, <2>5 DEF StartOk
<1>. QED  BY <1>1, <1>2, <1>3 DEF ReadyOk

\* A frame does what it has left to do itself.
LEMMA ServesItself ==
    ASSUME NEW lg, NEW cs, NEW fl, Onwards(cs, fl), NEW f PROVE Serves(f, f, lg, cs, fl)
BY DEF Serves, Onwards, WillStart, WillCreate

\* A top that moves on carries what it served, if its successor serves it still.
LEMMA RetoppedCarries ==
    ASSUME NEW lg, NEW cs, NEW fl, Onwards(cs, fl), NEW st \in Seq(Frame), NEW new, NEW g, Retopped(new, g, st),
           Idle(st[1], lg, cs, fl) \/ Serves(g, st[1], lg, cs, fl),
           g.loop = "start" => st[1].loop = "start" /\ st[1].obj = g.obj
    PROVE  Carries(new, st, lg, cs, fl)
<1>. DEFINE Done(j, n) == Idle(st[j], lg, cs, fl) \/ Serves(new[n], st[j], lg, cs, fl)
<1>1. new \in Seq(Frame) /\ Len(new) = Len(st) /\ Len(st) >= 1 /\ new[1] = g /\ \A k \in 2 .. Len(st) : new[k] = st[k]
  BY DEF Retopped
<1>2. \A k \in 1 .. Len(st) : k = 1 \/ k \in 2 .. Len(st)
  OBVIOUS
<1>3. \A k \in 1 .. Len(st) : Done(k, k)
  BY <1>1, <1>2, ServesItself
<1>4. \A n \in 1 .. Len(new) : new[n].loop = "start" => st[n].loop = "start" /\ st[n].obj = new[n].obj
  BY <1>1, <1>2
<1>5. \A n \in 1 .. Len(new) : \A j \in 1 .. n - 1 : j \in 1 .. Len(st)
  BY <1>1
<1>. HIDE DEF Done
<1>6. \A k \in 1 .. Len(st) : Idle(st[k], lg, cs, fl) \/ \E n \in 1 .. Len(new) : Serves(new[n], st[k], lg, cs, fl)
  BY <1>1, <1>3 DEF Done
<1>7. ASSUME NEW n \in 1 .. Len(new), new[n].loop = "start"
      PROVE  \E k \in 1 .. Len(st) :
              /\ st[k].loop = "start" /\ st[k].obj = new[n].obj
              /\ \A j \in 1 .. k - 1 : \/ Idle(st[j], lg, cs, fl)
                                       \/ \E m \in 1 .. n - 1 : Serves(new[m], st[j], lg, cs, fl)
  <2>1. \A j \in 1 .. n - 1 : Idle(st[j], lg, cs, fl) \/ \E m \in 1 .. n - 1 : Serves(new[m], st[j], lg, cs, fl)
    BY <1>3, <1>5 DEF Done
  <2>2. n \in 1 .. Len(st)
    BY <1>1
  <2>. QED  BY <1>4, <1>7, <2>1, <2>2
<1>. QED  BY <1>6, <1>7 DEF Carries

\* A loop that ends may go, if it is idle.
LEMMA PoppedCarries ==
    ASSUME NEW lg, NEW cs, NEW fl, Onwards(cs, fl), NEW st \in Seq(Frame), NEW new, Popped(new, st),
           Idle(st[1], lg, cs, fl)
    PROVE  Carries(new, st, lg, cs, fl)
<1>1. new \in Seq(Frame) /\ Len(st) \in Nat /\ Len(new) = Len(st) - 1 /\ \A n \in 1 .. Len(new) : new[n] = st[n + 1]
  BY DEF Popped
<1>2. ASSUME NEW k \in 1 .. Len(st), k # 1
      PROVE  k - 1 \in 1 .. Len(new) /\ new[k - 1] = st[k] /\ Serves(new[k - 1], st[k], lg, cs, fl)
  <2>1. k - 1 \in 1 .. Len(new) /\ (k - 1) + 1 = k
    BY <1>1, <1>2
  <2>. QED  BY <1>1, <2>1, ServesItself
<1>3. \A k \in 1 .. Len(st) : Idle(st[k], lg, cs, fl) \/ \E n \in 1 .. Len(new) : Serves(new[n], st[k], lg, cs, fl)
  BY <1>2
<1>4. ASSUME NEW n \in 1 .. Len(new), new[n].loop = "start"
      PROVE  \E k \in 1 .. Len(st) :
              /\ st[k].loop = "start" /\ st[k].obj = new[n].obj
              /\ \A j \in 1 .. k - 1 : \/ Idle(st[j], lg, cs, fl)
                                       \/ \E m \in 1 .. n - 1 : Serves(new[m], st[j], lg, cs, fl)
  <2>1. n + 1 \in 1 .. Len(st) /\ new[n] = st[n + 1]
    BY <1>1
  <2>2. ASSUME NEW j \in 1 .. (n + 1) - 1
        PROVE  \/ Idle(st[j], lg, cs, fl)
               \/ \E m \in 1 .. n - 1 : Serves(new[m], st[j], lg, cs, fl)
    <3>1. CASE j = 1
      BY <3>1
    <3>2. CASE j # 1
      <4>1. j \in 1 .. Len(st) /\ j - 1 \in 1 .. n - 1
        BY <1>1, <3>2
      <4>. QED  BY <1>2, <3>2, <4>1
    <3>. QED  BY <3>1, <3>2
  <2>. QED  BY <1>4, <2>1, <2>2
<1>. QED  BY <1>3, <1>4 DEF Carries

\* Loops other than _start() put on the stack disturb no service.
LEMMA AboveCarries ==
    ASSUME NEW lg, NEW cs, NEW fl, Onwards(cs, fl), NEW st \in Seq(Frame), NEW d, NEW new, Above(new, d, st),
           \A k \in 1 .. d : new[k].loop # "start"
    PROVE  Carries(new, st, lg, cs, fl)
<1>1. /\ new \in Seq(Frame) /\ d \in Nat /\ Len(new) = d + Len(st)
      /\ \A k \in 1 .. Len(st) : new[k + d] = st[k]
      /\ \A k \in d + 1 .. Len(new) : k - d \in 1 .. Len(st) /\ new[k] = st[k - d]
  BY DEF Above
<1>2. ASSUME NEW k \in 1 .. Len(st) PROVE k + d \in 1 .. Len(new) /\ Serves(new[k + d], st[k], lg, cs, fl)
  BY <1>1, ServesItself
<1>3. \A k \in 1 .. Len(st) : Idle(st[k], lg, cs, fl) \/ \E n \in 1 .. Len(new) : Serves(new[n], st[k], lg, cs, fl)
  BY <1>2
<1>4. ASSUME NEW n \in 1 .. Len(new), new[n].loop = "start"
      PROVE  \E k \in 1 .. Len(st) :
              /\ st[k].loop = "start" /\ st[k].obj = new[n].obj
              /\ \A j \in 1 .. k - 1 : \/ Idle(st[j], lg, cs, fl)
                                       \/ \E m \in 1 .. n - 1 : Serves(new[m], st[j], lg, cs, fl)
  <2>1. n > d
    BY <1>1, <1>4
  <2>2. n \in d + 1 .. Len(new)
    BY <1>1, <2>1
  <2>3. n - d \in 1 .. Len(st) /\ new[n] = st[n - d]
    BY <1>1, <2>2
  <2>4. ASSUME NEW j \in 1 .. (n - d) - 1 PROVE \E m \in 1 .. n - 1 : Serves(new[m], st[j], lg, cs, fl)
    <3>1. j \in 1 .. Len(st) /\ j + d \in 1 .. n - 1
      BY <1>1, <2>3
    <3>. QED  BY <1>2, <3>1
  <2>. QED  BY <1>4, <2>3, <2>4
<1>. QED  BY <1>3, <1>4 DEF Carries

\* Losing an iterator does not disturb the service of a loop.
LEMMA MarkedCarries ==
    ASSUME NEW lg, NEW cs, NEW fl, Onwards(cs, fl), NEW st \in Seq(Frame), NEW p, NEW o, NEW new, Marked(new, p, o, st)
    PROVE  Carries(new, st, lg, cs, fl)
<1>1. new \in Seq(Frame) /\ Len(new) = Len(st)
  BY DEF Marked
<1>2. ASSUME NEW k \in 1 .. Len(st)
      PROVE  /\ Idle(st[k], lg, cs, fl) \/ Serves(new[k], st[k], lg, cs, fl)
             /\ new[k].loop = st[k].loop /\ new[k].obj = st[k].obj
  <2>1. CASE new[k] = st[k]
    BY <2>1, ServesItself
  <2>2. CASE st[k].loop \in Nested /\ new[k].loop = st[k].loop /\ new[k].obj = st[k].obj
    BY <2>2 DEF Nested, Idle, StartsAll, CreatesAll, WillStart, WillCreate
  <2>. QED  BY <2>1, <2>2 DEF Marked
<1>3. \A k \in 1 .. Len(st) : Idle(st[k], lg, cs, fl) \/ \E n \in 1 .. Len(new) : Serves(new[n], st[k], lg, cs, fl)
  BY <1>1, <1>2
<1>4. ASSUME NEW n \in 1 .. Len(new), new[n].loop = "start"
      PROVE  \E k \in 1 .. Len(st) :
              /\ st[k].loop = "start" /\ st[k].obj = new[n].obj
              /\ \A j \in 1 .. k - 1 : \/ Idle(st[j], lg, cs, fl)
                                       \/ \E m \in 1 .. n - 1 : Serves(new[m], st[j], lg, cs, fl)
  <2>1. n \in 1 .. Len(st) /\ \A j \in 1 .. n - 1 : j \in 1 .. Len(st)
    BY <1>1
  <2>2. \A j \in 1 .. n - 1 : Idle(st[j], lg, cs, fl) \/ \E m \in 1 .. n - 1 : Serves(new[m], st[j], lg, cs, fl)
    BY <1>2, <2>1
  <2>. QED  BY <1>2, <1>4, <2>1, <2>2
<1>. QED  BY <1>3, <1>4 DEF Carries

\* A call that sets objects up brings the loops that serve them.
LEMMA CallReady ==
    ASSUME CallTypes, NEW st \in Seq(Frame), NEW lg, ReadyOk(st, lg, components, did), Call(st),
           \A s \in Scripts : log[s] = {} /\ (\A x \in Objects : s \notin ToSet(components[x])) => lg[s] = {}
    PROVE  ReadyOk(stack', lg, components', did')
<1>. DEFINE Goal == ReadyOk(stack', lg, components', did')
<1>1. stack' \in Seq(Frame) /\ did \in [Objects -> SUBSET Flags]
      /\ components \in [Objects -> Seq(Scripts \cup {Transform})]
  BY CallTyped DEF CallTypes
<1>2. LogOk(lg) /\ FlagsOk(did) /\ Onwards(components, did)
  BY DEF ReadyOk, Onwards
<1>3. ASSUME Carries(stack', st, lg, components, did) PROVE ReadyOk(stack', lg, components, did)
  BY <1>1, <1>2, <1>3, ReadyKept
<1>4. CASE stack' = st /\ did' = did /\ components' = components
  BY <1>4
<1>5. ASSUME NEW o, NEW s, Adds(o, s, st) PROVE Goal
  <2>1. /\ o \in Objects /\ s \in Scripts /\ lg[s] = {} /\ UNCHANGED did
        /\ \A x \in Objects : s \notin ToSet(components[x])
        /\ components' = [components EXCEPT ![o] = Append(@, s)]
        /\ Above(stack', 1, st) /\ stack'[1] = Added(o, s)
    BY <1>5 DEF Adds
  <2>2. stack'[1].loop = "added" /\ stack'[1].obj = o /\ stack'[1].script = s /\ stack'[1].i = 1 /\ Len(stack') \in Nat
        /\ 1 \in 1 .. Len(stack')
    BY <2>1 DEF Added, Above
  <2>3. ReadyOk(stack', lg, components, did)
    <3>1. \A k \in 1 .. 1 : stack'[k].loop # "start"
      BY <2>2
    <3>. QED  BY <1>2, <1>3, <2>1, <3>1, AboveCarries
  <2>4. ASSUME NEW x \in Objects, NEW i \in DOMAIN components'[x]
        PROVE  \/ i \in DOMAIN components[x] /\ components'[x][i] = components[x][i]
               \/ x = o /\ i \in Nat /\ components'[x][i] = s
    <3>1. components[x] \in Seq(Scripts \cup {Transform})
      BY <1>1
    <3>2. components'[x] = IF x = o THEN Append(components[x], s) ELSE components[x]
      BY <1>1, <2>1
    <3>. QED  BY <2>4, <3>1, <3>2
  <2>5. ASSUME NEW x \in Objects, NEW i \in DOMAIN components'[x],
               "setup" \in did[x], Lacks(components'[x][i], "Start", lg)
        PROVE  \E k \in 1 .. Len(stack') : WillStart(stack'[k], x, i, components'[x][i], did)
    <3>1. CASE i \in DOMAIN components[x] /\ components'[x][i] = components[x][i]
      BY <2>3, <2>5, <3>1 DEF ReadyOk
    <3>2. CASE x = o /\ components'[x][i] = s
      <4>1. CASE "started" \in did[o]
        <5>1. WillStart(stack'[1], x, i, components'[x][i], did)
          BY <2>2, <3>2, <4>1 DEF WillStart
        <5>. QED  BY <2>2, <5>1
      <4>2. CASE "started" \notin did[o]
        <5>1. PICK k \in 1 .. Len(stack') : StartsAll(stack'[k], o)
          BY <2>1, <2>3, <2>5, <3>2, <4>2 DEF ReadyOk
        <5>2. WillStart(stack'[k], x, i, components'[x][i], did)
          BY <3>2, <5>1 DEF StartsAll, WillStart
        <5>. QED  BY <5>2
      <4>. QED  BY <4>1, <4>2
    <3>. QED  BY <2>4, <3>1, <3>2
  <2>6. ASSUME NEW k \in 1 .. Len(stack'), stack'[k].loop = "start"
        PROVE  StartOk(stack', k, lg, components', did)
    <3>. DEFINE x == stack'[k].obj
    <3>1. StartOk(stack', k, lg, components, did)
      BY <2>3, <2>6 DEF ReadyOk
    <3>2. x \in Objects /\ 1 \in 1 .. k - 1
      <4>1. stack'[k] \in Frame /\ k # 1
        BY <1>1, <2>2, <2>6
      <4>. QED  BY <2>2, <2>6, <4>1, Kinds DEF LoopFrames
    <3>3. ASSUME NEW i \in DOMAIN components'[x], Lacks(components'[x][i], "OnCreate", lg)
          PROVE  \E j \in 1 .. k - 1 : WillCreate(stack'[j], x, i, components'[x][i], did)
      <4>1. CASE i \in DOMAIN components[x] /\ components'[x][i] = components[x][i]
        BY <3>1, <3>3, <4>1 DEF StartOk
      <4>2. CASE x = o /\ components'[x][i] = s
        <5>1. CASE "created" \in did[o]
          <6>1. WillCreate(stack'[1], x, i, components'[x][i], did)
            BY <2>2, <4>2, <5>1 DEF WillCreate
          <6>. QED  BY <3>2, <6>1
        <5>2. CASE "created" \notin did[o]
          <6>1. PICK j \in 1 .. k - 1 : CreatesAll(stack'[j], o)
            BY <3>1, <4>2, <5>2 DEF StartOk
          <6>2. WillCreate(stack'[j], x, i, components'[x][i], did)
            BY <4>2, <6>1 DEF CreatesAll, WillCreate
          <6>. QED  BY <6>2
        <5>. QED  BY <5>1, <5>2
      <4>. QED  BY <2>4, <3>2, <4>1, <4>2
    <3>. QED  BY <3>1, <3>3 DEF StartOk
  <2>7. \A x \in Objects : "setup" \in did[x] /\ "started" \notin did[x] =>
            \E k \in 1 .. Len(stack') : StartsAll(stack'[k], x)
    BY <2>3 DEF ReadyOk
  <2>8. ReadyOk(stack', lg, components', did)
    BY <1>2, <2>5, <2>6, <2>7 DEF ReadyOk
  <2>. QED  BY <2>1, <2>8
<1>6. ASSUME NEW o, NEW p, NEW d, JoinsSetUp(o, p, d, st) PROVE Goal
  <2>1. /\ did' = [did EXCEPT ![o] = @ \cup {"setup"}] /\ UNCHANGED components
        /\ d \in {2, 3} /\ Above(stack', d, st)
        /\ \A k \in 1 .. d : stack'[k].obj = o /\ stack'[k].i = 0
        /\ stack'[d - 1].loop = "create" /\ stack'[d].loop = "start"
        /\ stack'[1].loop # "start" /\ (d = 3 => stack'[1].loop = "setup")
    BY <1>6 DEF JoinsSetUp, Joins, Sets
  <2>2. o \in Objects
    BY <1>6 DEF JoinsSetUp, Joins, Attaches
  <2>3. /\ d - 1 \in 1 .. d - 1 /\ d \in 1 .. Len(stack') /\ d - 1 \in 1 .. d
        /\ \A k \in 1 .. Len(st) : k + d \in 1 .. Len(stack') /\ stack'[k + d] = st[k]
        /\ \A n \in 1 .. Len(stack') : n \in 1 .. d \/ (n - d \in 1 .. Len(st) /\ stack'[n] = st[n - d] /\ n > d)
    BY <2>1 DEF Above
  <2>4. StartsAll(stack'[d], o) /\ CreatesAll(stack'[d - 1], o)
    BY <2>1, <2>3 DEF StartsAll, CreatesAll
  <2>5. \A n \in 1 .. d : stack'[n].loop = "start" => n = d
    <3>1. ASSUME NEW n \in 1 .. d PROVE n = 1 \/ n = d - 1 \/ n = d
      BY <2>1
    <3>. QED  BY <2>1, <3>1
  <2>6. \A x \in Objects : /\ did[x] \subseteq did'[x]
                           /\ \A t \in {"created", "started"} : t \in did'[x] => t \in did[x]
                           /\ x # o => did'[x] = did[x]
    BY <1>1, <2>1, <2>2
  <2>7. FlagsOk(did')
    BY <1>2, <2>6 DEF FlagsOk
  <2>8. ASSUME NEW x \in Objects, NEW f, NEW i, NEW s
        PROVE  /\ WillStart(f, x, i, s, did) => WillStart(f, x, i, s, did')
               /\ WillCreate(f, x, i, s, did) => WillCreate(f, x, i, s, did')
    BY <2>6 DEF WillStart, WillCreate
  <2>9. ASSUME NEW x \in Objects, "setup" \in did'[x], "started" \notin did'[x]
        PROVE  \E n \in 1 .. Len(stack') : StartsAll(stack'[n], x)
    <3>1. CASE x = o
      BY <2>3, <2>4, <3>1
    <3>2. CASE x # o
      <4>1. PICK k \in 1 .. Len(st) : StartsAll(st[k], x)
        BY <2>6, <2>9, <3>2 DEF ReadyOk
      <4>. QED  BY <2>3, <4>1
    <3>. QED  BY <3>1, <3>2
  <2>10. ASSUME NEW x \in Objects, NEW i \in DOMAIN components[x],
                "setup" \in did'[x], Lacks(components[x][i], "Start", lg)
         PROVE  \E n \in 1 .. Len(stack') : WillStart(stack'[n], x, i, components[x][i], did')
    <3>1. CASE x = o
      <4>1. WillStart(stack'[d], x, i, components[x][i], did')
        BY <2>4, <3>1 DEF StartsAll, WillStart
      <4>. QED  BY <2>3, <4>1
    <3>2. CASE x # o
      <4>1. PICK k \in 1 .. Len(st) : WillStart(st[k], x, i, components[x][i], did)
        BY <2>6, <2>10, <3>2 DEF ReadyOk
      <4>. QED  BY <2>3, <2>8, <4>1
    <3>. QED  BY <3>1, <3>2
  <2>11. ASSUME NEW n \in 1 .. Len(stack'), stack'[n].loop = "start"
         PROVE  StartOk(stack', n, lg, components, did')
    <3>1. CASE n = d
      <4>1. \A i \in DOMAIN components[o] : WillCreate(stack'[d - 1], o, i, components[o][i], did')
        BY <2>4 DEF CreatesAll, WillCreate
      <4>2. stack'[n].obj = o
        BY <2>1, <2>3, <3>1
      <4>. QED  BY <2>3, <2>4, <3>1, <4>1, <4>2 DEF StartOk
    <3>2. CASE n \notin 1 .. d
      <4>. DEFINE x == stack'[n].obj
      <4>1. n - d \in 1 .. Len(st) /\ stack'[n] = st[n - d]
        BY <2>3, <3>2
      <4>2. StartOk(st, n - d, lg, components, did)
        BY <2>11, <4>1 DEF ReadyOk
      <4>3. x \in Objects
        <5>1. stack'[n] \in Frame
          BY <1>1
        <5>. QED  BY <2>11, <5>1, Kinds DEF LoopFrames
      <4>4. \A j \in 1 .. (n - d) - 1 : j + d \in 1 .. n - 1 /\ stack'[j + d] = st[j]
        <5>1. ASSUME NEW j \in 1 .. (n - d) - 1 PROVE j + d \in 1 .. n - 1 /\ j \in 1 .. Len(st)
          BY <2>1, <4>1
        <5>. QED  BY <2>3, <5>1
      <4>5. "created" \in did'[x] \/ \E m \in 1 .. n - 1 : CreatesAll(stack'[m], x)
        <5>1. "created" \in did[x] \/ \E j \in 1 .. (n - d) - 1 : CreatesAll(st[j], x)
          BY <4>1, <4>2 DEF StartOk
        <5>2. CASE "created" \in did[x]
          BY <2>6, <4>3, <5>2
        <5>3. ASSUME NEW j \in 1 .. (n - d) - 1, CreatesAll(st[j], x)
              PROVE  \E m \in 1 .. n - 1 : CreatesAll(stack'[m], x)
          BY <4>4, <5>3
        <5>. QED  BY <5>1, <5>2, <5>3
      <4>6. ASSUME NEW i \in DOMAIN components[x], Lacks(components[x][i], "OnCreate", lg)
            PROVE  \E m \in 1 .. n - 1 : WillCreate(stack'[m], x, i, components[x][i], did')
        <5>1. PICK j \in 1 .. (n - d) - 1 : WillCreate(st[j], x, i, components[x][i], did)
          BY <4>1, <4>2, <4>6 DEF StartOk
        <5>. QED  BY <2>8, <4>3, <4>4, <5>1
      <4>. QED  BY <4>5, <4>6 DEF StartOk
    <3>. QED  BY <2>5, <2>11, <3>1, <3>2
  <2>. QED  BY <1>2, <2>1, <2>7, <2>9, <2>10, <2>11 DEF ReadyOk
<1>7. ASSUME NEW p, NEW o, Leaves(p, o, st) PROVE Goal
  <2>1. UNCHANGED <<components, did>>
    BY <1>7 DEF Leaves
  <2>2. CASE Above(stack', 2, st) /\ stack'[1] = Loop("destroy", o) /\ stack'[2] = Erase(p, o)
    <3>1. \A k \in 1 .. 2 : stack'[k].loop # "start"
      BY <2>2 DEF Loop, Erase
    <3>. QED  BY <1>2, <1>3, <2>1, <2>2, <3>1, AboveCarries
  <2>3. CASE Marked(stack', p, o, st)
    BY <1>2, <1>3, <2>1, <2>3, MarkedCarries
  <2>. QED  BY <1>7, <2>2, <2>3 DEF Leaves
<1>. QED  BY <1>4, <1>5, <1>6, <1>7, CallCases DEF JoinsEarly, Joins, Switches

\* A callback takes its loop past a script that has now been called, and may make a call.
LEMMA CallBackReady ==
    ASSUME CallTypes, NEW st \in Seq(Frame), NEW s, NEW m, CallBack(s, m, st),
           ReadyOk(st, log', components, did), log \in [Scripts -> SUBSET Marks],
           log[s] # {} \/ \E x \in Objects : s \in ToSet(components[x])
    PROVE  ReadyOk(stack', log', components', did')
<1>1. CASE stack' = st /\ UNCHANGED tree
  BY <1>1 DEF tree
<1>2. CASE Call(st)
  <2>1. \A x \in Scripts : log[x] = {} /\ (\A y \in Objects : x \notin ToSet(components[y])) => log'[x] = {}
    BY CallBackLog
  <2>. QED  BY <1>2, <2>1, CallReady
<1>. QED  BY <1>1, <1>2 DEF CallBack

\* Loops over the children have nothing to create or to start.
LEMMA OthersIdle ==
    ASSUME NEW lg, NEW cs, NEW fl, NEW f, f.loop \notin {"create", "start", "added"} PROVE Idle(f, lg, cs, fl)
BY DEF Idle, StartsAll, CreatesAll, WillStart, WillCreate

\* Every step keeps ReadyOk.
LEMMA ReadyNext ==
    ASSUME TypeOK, ScriptsOk(stack, log, components, did), ReadyOk(stack, log, components, did), [Next]_vars
    PROVE  ReadyOk(stack', log', components', did')
<1>. DEFINE Goal == ReadyOk(stack', log', components', did')
            f == stack[1]
<1>. N \in Nat /\ Transform \notin Scripts
  BY TreeAssumption
<1>1. stack \in Seq(Frame) /\ CallTypes /\ log \in [Scripts -> SUBSET Marks] /\ did \in [Objects -> SUBSET Flags]
      /\ components \in [Objects -> Seq(Scripts \cup {Transform})]
  <2>1. CallTypes
    BY TypesOfCall
  <2>. QED  BY <2>1 DEF CallTypes, TypeOK
<1>2. LogOk(log) /\ FlagsOk(did) /\ Onwards(components, did)
  BY DEF ReadyOk, Onwards
<1>3. ASSUME NEW new, Carries(new, stack, log, components, did), new \in Seq(Frame)
      PROVE  ReadyOk(new, log, components, did)
  BY <1>1, <1>2, <1>3, ReadyKept
<1>4. CASE UNCHANGED <<stack, log, components, did>>
  BY <1>4
\* What the top frame has to do comes now.
<1>5. ASSUME stack # << >>, f.loop = "start" PROVE StartOk(stack, 1, log, components, did)
  <2>1. 1 \in 1 .. Len(stack)
    BY <1>1, <1>5
  <2>. QED  BY <1>5, <2>1 DEF ReadyOk
<1>6. ASSUME stack # << >>, NEW g, Enters(g) PROVE Goal
  <2>1. /\ Moved(g, f) /\ f.i = 0 /\ g.i \in {1, 2} /\ Retopped(stack', g, stack) /\ UNCHANGED <<components, log>>
        /\ g.i = 2 => components[f.obj][1] = Transform
        /\ did' = [did EXCEPT ![f.obj] = @ \cup (IF f.loop = "create" THEN {"created"} ELSE {})
                                           \cup (IF f.loop = "start" THEN {"started"} ELSE {})]
    BY <1>6 DEF Enters
  <2>2. f.obj \in Objects /\ g.loop = f.loop /\ g.obj = f.obj
    BY <2>1 DEF Moved, LoopFrames
  <2>3. \A o \in Objects :
            /\ did[o] \subseteq did'[o] /\ ("setup" \in did'[o] => "setup" \in did[o])
            /\ "started" \in did'[o] => "started" \in did[o] \/ (o = f.obj /\ f.loop = "start")
            /\ o = f.obj /\ f.loop = "start" => "started" \in did'[o]
            /\ o = f.obj /\ f.loop = "create" => "created" \in did'[o]
    BY <1>1, <2>1, <2>2
  <2>4. FlagsOk(did')
    <3>1. f.loop = "start" => "created" \in did[f.obj]
      BY <1>5, <1>6 DEF StartOk
    <3>. QED  BY <1>2, <2>2, <2>3, <3>1 DEF FlagsOk
  <2>5. Onwards(components, did')
    BY <2>3 DEF Onwards
  <2>6. ASSUME f.loop \in {"create", "start"} PROVE Serves(g, f, log, components, did')
    <3>1. ASSUME NEW i \in DOMAIN components[f.obj], components[f.obj][i] \in Scripts PROVE g.i <= i
      <4>1. i \in Nat \ {0}
        BY <1>1, <2>2
      <4>. QED  BY <2>1, <3>1, <4>1
    <3>2. ASSUME NEW o \in Objects
          PROVE  /\ ~(StartsAll(f, o) /\ "started" \notin did'[o])
                 /\ ~(CreatesAll(f, o) /\ "created" \notin did'[o])
      BY <2>3, <3>2 DEF StartsAll, CreatesAll
    <3>3. ASSUME NEW o \in Objects, NEW i \in DOMAIN components[o]
          PROVE  /\ WillStart(f, o, i, components[o][i], did) /\ Lacks(components[o][i], "Start", log)
                        => WillStart(g, o, i, components[o][i], did')
                 /\ WillCreate(f, o, i, components[o][i], did) /\ Lacks(components[o][i], "OnCreate", log)
                        => WillCreate(g, o, i, components[o][i], did')
      BY <2>2, <2>6, <3>1 DEF WillStart, WillCreate, Lacks
    <3>. QED  BY <3>2, <3>3 DEF Serves
  <2>7. Idle(f, log, components, did') \/ Serves(g, f, log, components, did')
    <3>1. f.loop # "added"
      BY <2>1, Kinds DEF Moved, LoopFrames
    <3>. QED  BY <2>6, <3>1, OthersIdle
  <2>8. Carries(stack', stack, log, components, did') /\ stack' \in Seq(Frame)
    BY <1>1, <2>1, <2>2, <2>5, <2>7, RetoppedCarries DEF Retopped
  <2>9. ReadyOk(stack', log, components, did')
    BY <1>1, <1>2, <2>4, <2>5, <2>8, ReadyKept
  <2>. QED  BY <2>1, <2>9
<1>7. ASSUME stack # << >>, NEW g, NEW st, NEW s, NEW m, Turns(g, st, s, m) PROVE Goal
  <2>1. /\ Moved(g, f) /\ f.i \in 1 .. Len(components[f.obj]) /\ g.i = f.i + 1
        /\ s = components[f.obj][f.i] /\ m = Method[f.loop]
        /\ st \in Seq(Frame) /\ Retopped(st, g, stack) /\ CallBack(s, m, st)
    BY <1>7 DEF Turns
  <2>2. f.obj \in Objects /\ f.loop \in Loops /\ f.i \in DOMAIN components[f.obj] /\ g.loop = f.loop /\ g.obj = f.obj
    BY <1>1, <2>1 DEF Moved, LoopFrames
  <2>3. /\ m \notin {"raw", "late"} /\ (m = "Start" <=> f.loop = "start")
        /\ f.loop = "create" => m = "OnCreate"
    BY <2>1, <2>2, Kinds DEF Method
  <2>4. \A x \in Scripts : /\ log[x] \subseteq log'[x]
                           /\ x = s => m \in log'[x]
                           /\ "Start" \in log'[x] => "Start" \in log[x] \/ (x = s /\ f.loop = "start")
    <3>1. \A x \in Scripts :
              /\ x # s => log'[x] = log[x]
              /\ x = s => log[x] \subseteq log'[x] /\ m \in log'[x] /\ log'[x] \subseteq log[x] \cup {m, "raw", "late"}
      BY <1>1, <2>1, CallBackLog
    <3>. QED  BY <2>3, <3>1
  <2>5. LogOk(log')
    <3>1. f.loop = "start" /\ s \in Scripts => "OnCreate" \in log[s]
      <4>1. ASSUME f.loop = "start", s \in Scripts, "OnCreate" \notin log[s] PROVE FALSE
        <5>1. StartOk(stack, 1, log, components, did) /\ Lacks(components[f.obj][f.i], "OnCreate", log)
          BY <1>5, <1>7, <2>1, <4>1 DEF Lacks
        <5>2. \E j \in 1 .. 1 - 1 : WillCreate(stack[j], f.obj, f.i, components[f.obj][f.i], did)
          BY <2>2, <5>1 DEF StartOk
        <5>. QED  BY <5>2
      <4>. QED  BY <4>1
    <3>. QED  BY <1>2, <2>4, <3>1 DEF LogOk
  <2>6. Idle(f, log', components, did) \/ Serves(g, f, log', components, did)
    <3>1. CASE f.loop \in {"create", "start"}
      <4>1. ASSUME NEW o \in Objects PROVE ~StartsAll(f, o) /\ ~CreatesAll(f, o)
        BY <2>1 DEF StartsAll, CreatesAll
      <4>2. ASSUME NEW o \in Objects, NEW i \in DOMAIN components[o], components[o][i] \in Scripts, f.obj = o,
                   m \notin log'[components[o][i]], f.i <= i
            PROVE  g.i <= i
        <5>1. i # f.i
          BY <2>1, <2>4, <4>2
        <5>2. i \in Nat /\ f.i \in Nat
          BY <1>1, <2>1
        <5>. QED  BY <2>1, <4>2, <5>1, <5>2
      <4>3. ASSUME NEW o \in Objects, NEW i \in DOMAIN components[o]
            PROVE  /\ WillStart(f, o, i, components[o][i], did) /\ Lacks(components[o][i], "Start", log')
                          => WillStart(g, o, i, components[o][i], did)
                   /\ WillCreate(f, o, i, components[o][i], did) /\ Lacks(components[o][i], "OnCreate", log')
                          => WillCreate(g, o, i, components[o][i], did)
        <5>1. f.i # 0
          BY <2>1
        <5>. QED  BY <2>2, <2>3, <3>1, <4>2, <5>1 DEF WillStart, WillCreate, Lacks
      <4>. QED  BY <4>1, <4>3 DEF Serves
    <3>2. CASE f.loop \notin {"create", "start"}
      <4>1. f.loop # "added"
        BY <2>2, Kinds
      <4>. QED  BY <3>2, <4>1, OthersIdle
    <3>. QED  BY <3>1, <3>2
  <2>7. Carries(st, stack, log', components, did)
    BY <1>1, <1>2, <2>1, <2>2, <2>6, RetoppedCarries
  <2>8. ReadyOk(st, log', components, did)
    BY <1>1, <1>2, <2>1, <2>4, <2>5, <2>7, ReadyKept
  <2>9. s \in ToSet(components[f.obj])
    BY <2>1, <2>2 DEF ToSet
  <2>. QED  BY <1>1, <2>1, <2>2, <2>8, <2>9, CallBackReady
<1>8. ASSUME stack # << >>, NEW g, NEW st, Moved(g, f), f.loop \in Nested, Retopped(st, g, stack)
      PROVE  st \in Seq(Frame) /\ ReadyOk(st, log, components, did)
  <2>1. Idle(f, log, components, did) /\ g.loop # "start"
    BY <1>8, OthersIdle DEF Nested, Moved
  <2>. QED  BY <1>1, <1>2, <1>3, <1>8, <2>1, RetoppedCarries DEF Retopped
<1>9. ASSUME stack # << >>, NEW g, GoesOn(g) PROVE Goal
  BY <1>8, <1>9 DEF GoesOn
<1>10. ASSUME stack # << >>, NEW g, NEW st, Descends(g, st) PROVE Goal
  <2>1. st \in Seq(Frame) /\ ReadyOk(st, log, components, did) /\ UNCHANGED <<log, components, did>>
        /\ f.loop \in Nested /\ (stack' = st \/ (Above(stack', 1, st) /\ stack'[1] = Loop(f.loop, f.it)))
    BY <1>8, <1>10 DEF Descends
  <2>2. CASE Above(stack', 1, st) /\ stack'[1] = Loop(f.loop, f.it)
    <3>1. \A k \in 1 .. 1 : stack'[k].loop # "start"
      BY <2>1, <2>2 DEF Loop, Nested
    <3>2. Carries(stack', st, log, components, did) /\ stack' \in Seq(Frame)
      BY <1>2, <2>1, <2>2, <3>1, AboveCarries DEF Above
    <3>3. ReadyOk(stack', log, components, did)
      BY <1>2, <2>1, <3>2, ReadyKept
    <3>. QED  BY <2>1, <3>3
  <2>. QED  BY <2>1, <2>2
<1>11. ASSUME stack # << >>, Returns PROVE Goal
  <2>1. Popped(stack', stack) /\ UNCHANGED <<log, did>> /\ stack' \in Seq(Frame)
    BY <1>11 DEF Returns, Popped
  <2>2. f.loop = "destroy" \/ UNCHANGED components
    BY <1>11 DEF Returns
  <2>3. CASE UNCHANGED components
    <3>1. Idle(f, log, components, did)
      <4>1. CASE f \in LoopFrames /\ f.loop \notin Nested /\ f.i > Len(components[f.obj])
        <5>1. f.i # 0 /\ \A i \in DOMAIN components[f.obj] : ~(f.i <= i)
          BY <1>1, <4>1 DEF LoopFrames
        <5>2. f.loop # "added"
          BY <4>1, Kinds DEF LoopFrames
        <5>. QED  BY <5>1, <5>2 DEF Idle, StartsAll, CreatesAll, WillStart, WillCreate
      <4>2. CASE f \in LoopFrames /\ f.loop \in Nested
        BY <4>2, OthersIdle DEF Nested
      <4>3. CASE f \in AddedFrames /\ f.i = 3
        BY <4>3 DEF Idle, StartsAll, CreatesAll, WillStart, WillCreate, AddedFrames
      <4>. QED  BY <1>11, <4>1, <4>2, <4>3 DEF Returns, Nested
    <3>. QED  BY <1>1, <1>2, <1>3, <2>1, <2>3, <3>1, PoppedCarries
  <2>4. CASE f.loop = "destroy" /\ components' = [components EXCEPT ![f.obj] = << >>]
    <3>. DEFINE cs == components'
    <3>1. Onwards(cs, did)
      <4>1. ASSUME NEW o \in Objects, NEW i \in DOMAIN cs[o] PROVE i \in DOMAIN components[o] /\ cs[o][i] = components[o][i]
        <5>1. CASE o = f.obj
          <6>1. cs[o] = << >>
            BY <1>1, <2>4, <5>1
          <6>. QED  BY <4>1, <6>1
        <5>2. CASE o # f.obj
          <6>1. cs[o] = components[o]
            BY <1>1, <2>4, <5>2
          <6>. QED  BY <4>1, <6>1
        <5>. QED  BY <5>1, <5>2
      <4>. QED  BY <4>1 DEF Onwards
    <3>2. Idle(f, log, cs, did)
      BY <2>4, OthersIdle
    <3>. HIDE DEF cs
    <3>3. Carries(stack', stack, log, cs, did)
      BY <1>1, <2>1, <3>1, <3>2, PoppedCarries
    <3>4. ReadyOk(stack', log, cs, did)
      BY <1>1, <1>2, <2>1, <3>1, <3>3, ReadyKept
    <3>. QED  BY <2>1, <3>4 DEF cs
  <2>5. f.loop = "destroy" => components' = [components EXCEPT ![f.obj] = << >>]
    BY <1>11 DEF Returns, Nested, AddedFrames
  <2>. QED  BY <2>2, <2>3, <2>4, <2>5
<1>12. ASSUME stack # << >>, NEW st, Erases(st) PROVE Goal
  <2>1. Popped(st, stack) /\ Marked(stack', f.obj, f.child, st) /\ UNCHANGED <<log, did, components>> /\ f.loop = "erase"
        /\ st \in Seq(Frame)
    BY <1>12 DEF Erases, EraseFrames
  <2>2. Idle(f, log, components, did)
    BY <2>1, OthersIdle
  <2>3. ReadyOk(st, log, components, did)
    BY <1>1, <1>2, <1>3, <2>1, <2>2, PoppedCarries
  <2>4. Carries(stack', st, log, components, did)
    BY <1>2, <2>1, MarkedCarries
  <2>5. ReadyOk(stack', log, components, did)
    <3>1. stack' \in Seq(Frame)
      BY <2>1 DEF Marked
    <3>. QED  BY <1>2, <2>1, <2>3, <2>4, <3>1, ReadyKept
  <2>. QED  BY <2>1, <2>5
<1>13. ASSUME stack # << >>, NEW g, NEW st, TurnsAdded(g, st) PROVE Goal
  <2>1. /\ f \in AddedFrames /\ g \in AddedFrames /\ f.i \in {1, 2} /\ g.i = f.i + 1
        /\ g.obj = f.obj /\ g.script = f.script /\ st \in Seq(Frame) /\ Retopped(st, g, stack)
    BY <1>13 DEF TurnsAdded
  <2>2. f.loop = "added" /\ g.loop = "added" /\ f.obj \in Objects /\ f.script \in Scripts
    BY <2>1 DEF AddedFrames
  <2>3. AddedOnTop(f, log, components, did)
    BY <1>13 DEF ScriptsOk, AddedOk
  <2>4. ASSUME NEW lg, (f.i = 1 /\ ("created" \in did[f.obj] => "OnCreate" \in lg[f.script]))
                       \/ (f.i = 2 /\ ("started" \in did[f.obj] => "Start" \in lg[f.script]))
        PROVE  Carries(st, stack, lg, components, did)
    <3>1. Serves(g, f, lg, components, did)
      BY <2>1, <2>2, <2>4 DEF Serves, StartsAll, CreatesAll, WillStart, WillCreate, Lacks
    <3>. QED  BY <1>1, <1>2, <2>1, <2>2, <3>1, RetoppedCarries
  <2>5. CASE \/ f.i = 1 /\ "created" \in did[f.obj] /\ CallBack(f.script, "OnCreate", st)
             \/ f.i = 2 /\ "started" \in did[f.obj] /\ CallBack(f.script, "Start", st)
    <3>1. PICK m \in {"OnCreate", "Start"} :
              /\ CallBack(f.script, m, st)
              /\ f.i = 1 => m = "OnCreate" /\ "created" \in did[f.obj]
              /\ f.i = 2 => m = "Start" /\ "started" \in did[f.obj]
      BY <2>5
    <3>2. \A x \in Scripts : /\ log[x] \subseteq log'[x]
                             /\ x = f.script => m \in log'[x]
                             /\ "Start" \in log'[x] => "Start" \in log[x] \/ (x = f.script /\ m = "Start")
      <4>1. \A x \in Scripts :
                /\ x # f.script => log'[x] = log[x]
                /\ x = f.script => /\ log[x] \subseteq log'[x] /\ m \in log'[x]
                                   /\ log'[x] \subseteq log[x] \cup {m, "raw", "late"}
        BY <1>1, <3>1, CallBackLog
      <4>. QED  BY <4>1
    <3>3. LogOk(log')
      <4>1. m = "Start" => "OnCreate" \in log[f.script]
        BY <1>2, <2>1, <2>2, <2>3, <3>1 DEF AddedOnTop, FlagsOk
      <4>. QED  BY <1>2, <2>2, <3>2, <4>1 DEF LogOk
    <3>4. Carries(st, stack, log', components, did)
      BY <2>1, <2>2, <2>4, <3>1, <3>2
    <3>5. ReadyOk(st, log', components, did)
      BY <1>1, <1>2, <2>1, <3>2, <3>3, <3>4, ReadyKept
    <3>6. log[f.script] # {} \/ \E x \in Objects : f.script \in ToSet(components[x])
      BY <2>1, <2>2, <2>3 DEF AddedOnTop
    <3>. QED  BY <1>1, <2>1, <3>1, <3>5, <3>6, CallBackReady
  <2>6. CASE /\ (f.i = 1 /\ "created" \notin did[f.obj]) \/ (f.i = 2 /\ "started" \notin did[f.obj])
             /\ stack' = st /\ UNCHANGED <<components, did, log>>
    <3>1. Carries(st, stack, log, components, did)
      BY <2>4, <2>6
    <3>. QED  BY <1>3, <2>1, <2>6, <3>1
  <2>. QED  BY <1>13, <2>5, <2>6 DEF TurnsAdded
<1>14. CASE Main
  BY <1>1, <1>14, CallReady DEF Main
<1>15. ASSUME NEW o, Begins(o) PROVE Goal
  <2>1. stack = << >> /\ stack' \in Seq(Frame) /\ Len(stack') = 1 /\ stack'[1].loop = "update"
        /\ UNCHANGED <<components, log, did>>
    BY <1>15 DEF Begins, Loop
  <2>2. Carries(stack', stack, log, components, did)
    BY <2>1 DEF Carries
  <2>. QED  BY <1>3, <2>1, <2>2
<1>. QED  BY <1>4, <1>6, <1>7, <1>9, <1>10, <1>11, <1>12, <1>13, <1>14, <1>15, StepCases

-----------------------------------------------------------------------------
(* Who is not set up *)

\* o was set up, or was added too early.
Known(o, er, fl) == o \in er \/ "setup" \in fl[o]

\* Whoever is in a map or in a list, or is being updated
EarlyOk(st, ch, lst, er, fl) ==
    /\ \A p \in Nodes : \A o \in ch[p] : Known(o, er, fl)
    /\ \A o \in lst : Known(o, er, fl)
    /\ \A k \in 1 .. Len(st) : st[k].loop = "update" => Known(st[k].obj, er, fl)

\* EarlyOk is of loops and their objects only.
LEMMA AlikeEarly ==
    ASSUME NEW st, NEW new, Alike(new, st), NEW ch, NEW lst, NEW er, NEW fl, EarlyOk(st, ch, lst, er, fl)
    PROVE  EarlyOk(new, ch, lst, er, fl)
BY DEF Alike, EarlyOk

\* Loops put on the stack keep EarlyOk, if the objects they update are known.
LEMMA AboveEarly ==
    ASSUME NEW st, NEW d, NEW new, Above(new, d, st), NEW ch, NEW lst, NEW er, NEW fl, EarlyOk(st, ch, lst, er, fl),
           \A k \in 1 .. d : new[k].loop = "update" => Known(new[k].obj, er, fl)
    PROVE  EarlyOk(new, ch, lst, er, fl)
<1>1. ASSUME NEW k \in 1 .. Len(new), new[k].loop = "update" PROVE Known(new[k].obj, er, fl)
  <2>1. CASE k \in 1 .. d
    BY <1>1, <2>1
  <2>2. CASE k \notin 1 .. d
    <3>1. k \in d + 1 .. Len(new)
      BY <2>2 DEF Above
    <3>. QED  BY <1>1, <3>1 DEF Above, EarlyOk
  <2>. QED  BY <2>1, <2>2
<1>. QED  BY <1>1 DEF EarlyOk

\* A call that puts an object into the tree sets it up or notes it as early.
LEMMA CallEarly ==
    ASSUME CallTypes, NEW st \in Seq(Frame), NEW lst \in SUBSET Objects,
           EarlyOk(st, children, lst, early, did), Call(st)
    PROVE  EarlyOk(stack', children', lst, early', did')
<1>. DEFINE Goal == EarlyOk(stack', children', lst, early', did')
<1>1. Tree /\ Tree' /\ did \in [Objects -> SUBSET Flags]
  BY CallTyped DEF CallTypes
<1>2. \A k \in 1 .. Len(st) : st[k].loop = "update" => st[k].obj \in Objects
  <2>1. \A k \in 1 .. Len(st) : st[k] \in Frame
    OBVIOUS
  <2>. QED  BY <2>1, Kinds DEF LoopFrames
<1>3. ASSUME NEW o, NEW p, Joins(o, p, st), o \in early' \/ "setup" \in did'[o],
             \A x \in Objects : Known(x, early, did) => Known(x, early', did')
      PROVE  EarlyOk(st, children', lst, early', did')
  <2>1. p \in Nodes /\ children' = [children EXCEPT ![p] = @ \cup {o}]
    BY <1>3 DEF Joins, Attaches
  <2>2. ASSUME NEW q \in Nodes, NEW x \in children'[q] PROVE Known(x, early', did')
    <3>1. x \in children[q] \/ x = o
      BY <1>1, <2>1, <2>2 DEF Tree
    <3>2. CASE x \in children[q]
      <4>1. x \in Objects /\ Known(x, early, did)
        BY <1>1, <2>2, <3>2 DEF Tree, EarlyOk
      <4>. QED  BY <1>3, <4>1
    <3>. QED  BY <1>3, <3>1, <3>2 DEF Known
  <2>. QED  BY <1>2, <1>3, <2>2 DEF EarlyOk
<1>4. ASSUME NEW o, NEW p, JoinsEarly(o, p, st) PROVE Goal
  <2>1. \A x \in Objects : Known(x, early, did) => Known(x, early', did')
    BY <1>4 DEF JoinsEarly, Known
  <2>. QED  BY <1>3, <1>4, <2>1 DEF JoinsEarly
<1>5. ASSUME NEW o, NEW p, NEW d, JoinsSetUp(o, p, d, st) PROVE Goal
  <2>1. o \in Objects /\ Joins(o, p, st) /\ early' = early \ {o} /\ did' = [did EXCEPT ![o] = @ \cup {"setup"}]
        /\ Above(stack', d, st) /\ \A k \in 1 .. d : stack'[k].loop # "update"
    BY <1>5 DEF JoinsSetUp, Joins, Attaches, Sets
  <2>2. "setup" \in did'[o] /\ \A x \in Objects : Known(x, early, did) => Known(x, early', did')
    BY <1>1, <2>1 DEF Known
  <2>. QED  BY <1>3, <2>1, <2>2, AboveEarly
<1>6. ASSUME NEW p, NEW o, Leaves(p, o, st) PROVE Goal
  <2>1. \A q \in Nodes : children'[q] \subseteq children[q]
    BY <1>1, <1>6 DEF Leaves, Tree
  <2>2. EarlyOk(st, children', lst, early', did')
    BY <1>6, <2>1 DEF Leaves, EarlyOk
  <2>3. CASE Above(stack', 2, st) /\ stack'[1] = Loop("destroy", o) /\ stack'[2] = Erase(p, o)
    <3>1. \A k \in 1 .. 2 : stack'[k].loop # "update"
      BY <2>3 DEF Loop, Erase
    <3>. QED  BY <2>2, <2>3, <3>1, AboveEarly
  <2>4. CASE Marked(stack', p, o, st)
    BY <2>2, <2>4, MarkedAlike, AlikeEarly
  <2>. QED  BY <1>6, <2>3, <2>4 DEF Leaves
<1>7. ASSUME NEW o, NEW s, Adds(o, s, st) PROVE Goal
  <2>1. Above(stack', 1, st) /\ stack'[1].loop = "added" /\ UNCHANGED <<children, early, did>>
    BY <1>7 DEF Adds, Added
  <2>2. \A k \in 1 .. 1 : stack'[k].loop # "update"
    BY <2>1
  <2>. QED  BY <2>1, <2>2, AboveEarly
<1>8. CASE Switches(st)
  BY <1>8 DEF Switches
<1>. QED  BY <1>4, <1>5, <1>6, <1>7, <1>8, CallCases

\* So does a callback with the call it makes.
LEMMA CallBackEarly ==
    ASSUME CallTypes, NEW st \in Seq(Frame), NEW s, NEW m, CallBack(s, m, st), listed \subseteq Objects,
           EarlyOk(st, children, listed, early, did)
    PROVE  EarlyOk(stack', children', listed, early', did')
<1>1. CASE stack' = st /\ UNCHANGED tree
  BY <1>1 DEF tree
<1>2. CASE Call(st)
  BY <1>2, CallEarly
<1>. QED  BY <1>1, <1>2 DEF CallBack

\* Every step keeps EarlyOk.
LEMMA EarlyNext ==
    ASSUME TypeOK, CursorOk(stack, children), EarlyOk(stack, children, listed, early, did), [Next]_vars
    PROVE  EarlyOk(stack', children', listed', early', did')
<1>. DEFINE Goal == EarlyOk(stack', children', listed', early', did')
            f == stack[1]
<1>1. stack \in Seq(Frame) /\ CallTypes /\ Tree /\ did \in [Objects -> SUBSET Flags] /\ listed \subseteq Objects
      /\ enabled \subseteq Objects
  <2>1. CallTypes
    BY TypesOfCall
  <2>. QED  BY <2>1 DEF CallTypes, TypeOK
<1>2. CASE UNCHANGED <<stack, children, listed, early, did>>
  BY <1>2
<1>3. ASSUME stack # << >>, NEW st, NEW g, Retopped(st, g, stack), g.loop = f.loop, g.obj = f.obj
      PROVE  EarlyOk(st, children, listed, early, did)
  BY <1>1, <1>3, RetoppedAlike, AlikeEarly
<1>4. ASSUME stack # << >>, NEW g, Enters(g) PROVE Goal
  <2>1. Moved(g, f) /\ Retopped(stack', g, stack) /\ UNCHANGED <<children, listed, early>>
    BY <1>4 DEF Enters
  <2>2. EarlyOk(stack', children, listed, early, did)
    BY <1>3, <1>4, <2>1 DEF Moved
  <2>3. \A x \in Objects : did[x] \subseteq did'[x]
    BY <1>1, <1>4 DEF Enters
  <2>4. ASSUME NEW k \in 1 .. Len(stack'), stack'[k].loop = "update" PROVE stack'[k].obj \in Objects
    <3>1. stack'[k] \in Frame
      BY <2>1 DEF Retopped
    <3>. QED  BY <2>4, <3>1, Kinds DEF LoopFrames
  <2>5. \A x \in Objects : Known(x, early, did) => Known(x, early', did')
    BY <2>1, <2>3 DEF Known
  <2>. QED  BY <1>1, <2>1, <2>2, <2>4, <2>5 DEF EarlyOk, Tree
<1>5. ASSUME stack # << >>, NEW g, NEW st, NEW s, NEW m, Turns(g, st, s, m) PROVE Goal
  BY <1>1, <1>3, <1>5, CallBackEarly DEF Turns, Moved
<1>6. ASSUME stack # << >>, NEW g, GoesOn(g) PROVE Goal
  BY <1>3, <1>6 DEF GoesOn, Moved
<1>7. ASSUME stack # << >>, NEW g, NEW st, Descends(g, st) PROVE Goal
  <2>1. EarlyOk(st, children, listed, early, did) /\ UNCHANGED <<children, listed, early, did>>
    BY <1>3, <1>7 DEF Descends, Moved
  <2>2. CASE stack' = st
    BY <2>1, <2>2
  <2>3. CASE Above(stack', 1, st) /\ stack'[1] = Loop(f.loop, f.it)
    <3>1. f \in LoopFrames /\ f.loop \in Nested /\ f.it \in Objects /\ ~f.back
      BY <1>7 DEF Descends, Moved
    <3>2. f.it \in children[f.obj] /\ f.obj \in Nodes
      BY <1>7, <3>1 DEF CursorOk, TopCursor, LoopFrames, Objects, Nodes
    <3>3. Known(f.it, early, did)
      BY <3>2 DEF EarlyOk
    <3>4. stack'[1].obj = f.it
      BY <2>3 DEF Loop
    <3>. QED  BY <2>1, <2>3, <3>3, <3>4, AboveEarly
  <2>. QED  BY <1>7, <2>2, <2>3 DEF Descends
<1>8. ASSUME NEW st, Popped(st, stack) PROVE EarlyOk(st, children, listed, early, did)
  <2>1. ASSUME NEW k \in 1 .. Len(st) PROVE k + 1 \in 1 .. Len(stack) /\ st[k] = stack[k + 1]
    BY <1>1, <1>8, <2>1 DEF Popped
  <2>. QED  BY <2>1 DEF EarlyOk
<1>9. ASSUME Returns PROVE Goal
  BY <1>8, <1>9 DEF Returns
<1>10. ASSUME stack # << >>, NEW st, Erases(st) PROVE Goal
  <2>1. Popped(st, stack) /\ Marked(stack', f.obj, f.child, st) /\ UNCHANGED <<listed, early, did>>
        /\ children' = [children EXCEPT ![f.obj] = @ \ {f.child}]
    BY <1>10 DEF Erases
  <2>2. EarlyOk(stack', children, listed, early, did)
    BY <1>8, <2>1, MarkedAlike, AlikeEarly
  <2>3. \A q \in Nodes : children'[q] \subseteq children[q]
    BY <1>1, <2>1 DEF Tree
  <2>. QED  BY <2>1, <2>2, <2>3 DEF EarlyOk
<1>11. ASSUME stack # << >>, NEW g, NEW st, TurnsAdded(g, st) PROVE Goal
  <2>1. g.loop = f.loop /\ g.obj = f.obj /\ Retopped(st, g, stack) /\ UNCHANGED listed /\ st \in Seq(Frame)
    BY <1>11 DEF TurnsAdded, AddedFrames
  <2>2. EarlyOk(st, children, listed, early, did)
    BY <1>3, <1>11, <2>1
  <2>. QED  BY <1>1, <1>11, <2>1, <2>2, CallBackEarly DEF TurnsAdded
\* Whoever is below the Application is in a map.
<1>12. \A o \in Subtree(App) \ {App} : o \in Objects /\ Known(o, early, did)
  <2>1. App \in Nodes
    BY TreeAssumption DEF App, Nodes
  <2>2. \A o \in Subtree(App) \ {App} : \E p \in Nodes : o \in children[p]
    BY <1>1, <2>1, SubtreeIs
  <2>. QED  BY <1>1, <2>2 DEF EarlyOk, Tree
<1>13. ASSUME listed' = listed \cup (Subtree(App) \ {App})
       PROVE  EarlyOk(<< >>, children, listed', early, did) /\ listed' \in SUBSET Objects
  BY <1>1, <1>12, <1>13 DEF EarlyOk
<1>14. CASE Main
  <2>1. Call(<< >>) /\ << >> \in Seq(Frame) /\ EarlyOk(<< >>, children, listed', early, did) /\ listed' \in SUBSET Objects
    BY <1>13, <1>14 DEF Main
  <2>. HIDE DEF Main
  <2>. QED  BY <1>1, <2>1, CallEarly
<1>15. ASSUME NEW o, Begins(o) PROVE Goal
  <2>1. /\ stack' \in Seq(Frame) /\ Len(stack') = 1 /\ stack'[1] = Loop("update", o) /\ o \in listed'
        /\ UNCHANGED <<children, early, did>> /\ EarlyOk(<< >>, children, listed', early, did)
    BY <1>13, <1>15 DEF Begins
  <2>2. stack'[1].obj = o
    BY <2>1 DEF Loop
  <2>. QED  BY <2>1, <2>2 DEF EarlyOk
<1>. QED  BY <1>2, <1>4, <1>5, <1>6, <1>7, <1>9, <1>10, <1>11, <1>14, <1>15, StepCases

\* The invariant, with what is still to come
ReadyInv ==
    /\ OrderInv
    /\ ReadyOk(stack, log, components, did)
    /\ EarlyOk(stack, children, listed, early, did)

\* ReadyInv holds in the beginning, with nothing set up.
LEMMA ReadyInit == Init => ReadyInv
<1>. SUFFICES ASSUME Init PROVE ReadyInv
  OBVIOUS
<1>1. /\ stack = << >> /\ log = [s \in Scripts |-> {}] /\ did = [o \in Objects |-> {}]
      /\ components = [o \in Objects |-> <<Transform>>] /\ listed = {} /\ children = [p \in Nodes |-> {}]
  BY DEF Init, Nodes
<1>2. ReadyOk(stack, log, components, did)
  BY <1>1 DEF ReadyOk, LogOk, FlagsOk
<1>3. EarlyOk(stack, children, listed, early, did)
  BY <1>1 DEF EarlyOk
<1>. QED  BY <1>2, <1>3, OrderInit DEF ReadyInv

\* ReadyInv is inductive.
LEMMA ReadyInvNext == ReadyInv /\ [Next]_vars => ReadyInv'
<1>. SUFFICES ASSUME ReadyInv, [Next]_vars PROVE ReadyInv'
  OBVIOUS
<1>1. /\ OrderInv /\ TypeOK /\ CursorOk(stack, children) /\ ScriptsOk(stack, log, components, did)
      /\ ReadyOk(stack, log, components, did) /\ EarlyOk(stack, children, listed, early, did)
  BY DEF ReadyInv, OrderInv, TreeInv
<1>2. OrderInv'
  BY <1>1, OrderNext
<1>3. ReadyOk(stack', log', components', did')
  BY <1>1, ReadyNext
<1>4. EarlyOk(stack', children', listed', early', did')
  BY <1>1, EarlyNext
<1>. QED  BY <1>2, <1>3, <1>4 DEF ReadyInv

\* Between the program's calls the objects in the tree and their components are ready, however components
\* and objects came together, but for those that were added too early.
THEOREM ReadyAtRestHolds == Spec => []ReadyAtRest
<1>1. ReadyInv => ReadyAtRest
  <2>. SUFFICES ASSUME ReadyInv PROVE ReadyAtRest
    OBVIOUS
  <2>1. /\ TypeOK /\ ReadyOk(stack, log, components, did) /\ EarlyOk(stack, children, listed, early, did)
        /\ did \in [Objects -> SUBSET Flags] /\ components \in [Objects -> Seq(Scripts \cup {Transform})]
        /\ Tree
    BY DEF ReadyInv, OrderInv, TreeInv, TypeOK, Tree, Nodes
  <2>2. LogOk(log) /\ FlagsOk(did)
    BY <2>1 DEF ReadyOk
  <2>3. ASSUME stack = << >>, NEW o \in Subtree(App) \ ({App} \cup early)
        PROVE  did[o] = Flags /\ \A s \in ToSet(components[o]) \ {Transform} : {"OnCreate", "Start"} \subseteq log[s]
    <3>1. App \in Nodes
      BY TreeAssumption DEF App, Nodes
    <3>2. \E p \in Nodes : o \in children[p]
      BY <2>1, <3>1, SubtreeIs
    <3>3. o \in Objects /\ "setup" \in did[o]
      BY <2>1, <2>3, <3>2 DEF EarlyOk, Known, Tree
    <3>4. "started" \in did[o] /\ "created" \in did[o]
      BY <2>1, <2>2, <2>3, <3>3 DEF ReadyOk, FlagsOk
    <3>5. did[o] = Flags
      BY <2>1, <3>3, <3>4 DEF Flags
    <3>6. ASSUME NEW s \in ToSet(components[o]) \ {Transform} PROVE {"OnCreate", "Start"} \subseteq log[s]
      <4>1. PICK i \in DOMAIN components[o] : components[o][i] = s
        BY DEF ToSet
      <4>2. s \in Scripts
        BY <2>1, <3>3, <4>1
      <4>3. ~Lacks(s, "Start", log)
        BY <2>1, <2>3, <3>3, <4>1 DEF ReadyOk
      <4>. QED  BY <2>2, <4>2, <4>3 DEF Lacks, LogOk
    <3>. QED  BY <3>5, <3>6
  <2>. QED  BY <2>2, <2>3 DEF ReadyAtRest, LogOk
<1>. QED  BY <1>1, ReadyInit, ReadyInvNext, PTL DEF Spec

\* Who sees an update before its Start
LEMMA RawIsEarly ==
    ASSUME ReadyInv, [Next]_vars, NEW s \in Scripts, "raw" \in log'[s] \ log[s]
    PROVE  \E o \in early : s \in ToSet(components[o])
<1>. DEFINE f == stack[1]
<1>1. /\ TypeOK /\ stack \in Seq(Frame) /\ log \in [Scripts -> SUBSET Marks] /\ Ordered(stack)
      /\ ReadyOk(stack, log, components, did) /\ EarlyOk(stack, children, listed, early, did)
      /\ components \in [Objects -> Seq(Scripts \cup {Transform})]
  BY DEF ReadyInv, OrderInv, TreeInv, TypeOK
<1>2. ASSUME UNCHANGED log PROVE FALSE
  BY <1>2
<1>3. ASSUME NEW g, NEW st, NEW c, NEW m, Turns(g, st, c, m) PROVE \E o \in early : s \in ToSet(components[o])
  <2>1. /\ f \in LoopFrames /\ f.i \in 1 .. Len(components[f.obj]) /\ c = components[f.obj][f.i]
        /\ m = Method[f.loop] /\ CallBack(c, m, st) /\ 1 \in 1 .. Len(stack)
    BY <1>3 DEF Turns, Moved, Retopped
  <2>2. f.obj \in Objects /\ f.i \in DOMAIN components[f.obj] /\ f.loop \in Loops
    BY <1>1, <2>1 DEF LoopFrames
  <2>3. m # "raw" /\ (m = "Update" => f.loop = "update")
    BY <2>1, <2>2, Kinds DEF Method
  <2>4. c = s /\ m = "Update" /\ "Start" \notin log[s]
    BY <1>1, <2>1, <2>3, CallBackLog
  <2>5. \A k \in 1 .. Len(stack) : stack[k].loop = "update"
    <3>1. ASSUME NEW k \in 1 .. Len(stack), k # 1 PROVE stack[k].loop = "update"
      <4>1. MayBeAbove(f, stack[k])
        BY <1>1, <2>1, <3>1 DEF Ordered
      <4>. QED  BY <2>3, <2>4, <4>1 DEF MayBeAbove
    <3>. QED  BY <2>3, <2>4, <3>1
  <2>6. "setup" \notin did[f.obj]
    <3>1. ASSUME "setup" \in did[f.obj] PROVE FALSE
      <4>1. PICK k \in 1 .. Len(stack) : WillStart(stack[k], f.obj, f.i, components[f.obj][f.i], did)
        BY <1>1, <2>1, <2>2, <2>4, <3>1 DEF ReadyOk, Lacks
      <4>. QED  BY <2>5, <4>1 DEF WillStart
    <3>. QED  BY <3>1
  <2>7. f.obj \in early
    BY <1>1, <2>1, <2>3, <2>4, <2>6 DEF EarlyOk, Known
  <2>. QED  BY <2>1, <2>2, <2>4, <2>7 DEF ToSet
<1>4. ASSUME NEW g, NEW st, TurnsAdded(g, st) PROVE FALSE
  <2>1. PICK m \in {"OnCreate", "Start"} : CallBack(f.script, m, st)
    BY <1>2, <1>4 DEF TurnsAdded
  <2>. QED  BY <1>1, <2>1, CallBackLog
<1>. QED  BY <1>1, <1>2, <1>3, <1>4, StepCases DEF Enters, GoesOn, Descends, Returns, Erases, Begins, Main

\* Whatever the callbacks do: a script is updated before its Start only if it is a component of an object
\* that was added too early.
THEOREM UpdateAfterStartHolds == Spec => UpdateAfterStart
<1>. DEFINE Started == \A s \in Scripts : "raw" \in log'[s] \ log[s] =>
                          \E o \in early : s \in ToSet(components[o])
<1>1. ReadyInv /\ [Next]_vars => [Started]_vars
  BY RawIsEarly
<1>2. Spec => [][Started]_vars
  BY <1>1, ReadyInit, ReadyInvNext, PTL DEF Spec
<1>. QED  BY <1>2 DEF UpdateAfterStart

-----------------------------------------------------------------------------
(* The update under way: of root, and of all that is due below it.  st, ch, en, du, *)
(* vi stand for stack, children, enabled, due, visits, or for what they are in the  *)
(* middle of a step.                                                                *)

\* The iterator of f has yet to come to child c.
Comes(f, c) == f.it = 0 \/ (f.it = c /\ ~f.back) \/ (0 < f.it /\ f.it < c)

Updates(f, p) == f.loop = "update" /\ f.obj = p

\* The loop of p has lost its iterator; it will not return.
Lost(st, p) == \E k \in 1 .. Len(st) : Updates(st[k], p) /\ st[k].it = Erased

WillCome(st, p, c) == \E k \in 1 .. Len(st) : Updates(st[k], p) /\ Comes(st[k], c)

\* Whoever is due is below root, through others that are due, and has had no turn
\* before them.
DueBelow(ch, en, du, vi, root) ==
    /\ du \subseteq en
    /\ root \in du => vi[root] = 1
    /\ \A x \in du : vi[x] \in {0, 1} /\ (x = root \/ \E p \in du : x \in ch[p])
    /\ \A p \in du : \A c \in ch[p] \cap du : vi[p] = 0 => vi[c] = 0

\* Where p has had its turn, its children have had theirs but for those that its loop
\* has yet to come to.
Passed(st, ch, du, vi) ==
    \A p \in du : \A c \in ch[p] \cap du :
        vi[p] = 1 => \/ Lost(st, p)
                     \/ vi[c] = 0 /\ WillCome(st, p, c)
                     \/ vi[c] = 1 /\ ~WillCome(st, p, c)

\* One loop at a time updates who is due; no loop but root's own will come to root, and none erases
\* who is due.
DueLoops(st, ch, du, vi, root) ==
    /\ \A j, k \in 1 .. Len(st) :
          j < k /\ st[j].loop = "update" /\ st[k].loop = "update" /\ st[j].obj = st[k].obj => st[k].obj \notin du
    /\ \A k \in 1 .. Len(st) : st[k].loop = "update" =>
          /\ st[k].obj \in du => vi[st[k].obj] = 1
          /\ root \in du => st[k].obj = root \/ root \notin Reach(st[k].obj, ch)
    /\ \A k \in 1 .. Len(st) : st[k].loop = "erase" => st[k].child \notin du

DueOk(st, ch, en, du, vi, root) ==
    DueBelow(ch, en, du, vi, root) /\ Passed(st, ch, du, vi) /\ DueLoops(st, ch, du, vi, root)

\* The loops are those of st, at the same place as far as the children that are due can tell.
SamePlaces(new, st, ch, du) ==
    /\ Len(new) = Len(st)
    /\ \A k \in 1 .. Len(st) :
          /\ new[k].loop = st[k].loop
          /\ st[k].loop = "update" =>
                /\ new[k].obj = st[k].obj
                /\ \/ new[k].it = Erased
                   \/ /\ st[k].it # Erased
                      /\ \A c \in ch[st[k].obj] \cap du : Comes(new[k], c) <=> Comes(st[k], c)
          /\ st[k].loop = "erase" => new[k].child = st[k].child

\* Loops that keep their places keep DueOk.
LEMMA SamePlacesDue ==
    ASSUME NEW st \in Seq(Frame), NEW new \in Seq(Frame), NEW ch, NEW en, NEW du, NEW vi, NEW root,
           SamePlaces(new, st, ch, du), DueOk(st, ch, en, du, vi, root)
    PROVE  DueOk(new, ch, en, du, vi, root)
<1>1. Len(new) = Len(st) /\ Len(st) \in Nat /\ \A k \in 1 .. Len(st) : new[k].loop = st[k].loop
  BY DEF SamePlaces
<1>2. \A k \in 1 .. Len(st) : st[k].loop = "update" => new[k].obj = st[k].obj
  BY DEF SamePlaces
<1>3. DueLoops(new, ch, du, vi, root)
  <2>1. \A k \in 1 .. Len(st) : st[k].loop = "erase" => new[k].child = st[k].child
    BY DEF SamePlaces
  <2>. QED  BY <1>1, <1>2, <2>1 DEF DueLoops, DueOk
<1>4. ASSUME NEW p \in du, NEW c \in ch[p] \cap du, vi[p] = 1, ~Lost(new, p)
      PROVE  (vi[c] = 0 /\ WillCome(new, p, c)) \/ (vi[c] = 1 /\ ~WillCome(new, p, c))
  <2>1. ASSUME NEW k \in 1 .. Len(st), Updates(st[k], p)
        PROVE  Updates(new[k], p) /\ st[k].it # Erased /\ (Comes(new[k], c) <=> Comes(st[k], c))
    <3>1. st[k].loop = "update" /\ st[k].obj = p
      BY <2>1 DEF Updates
    <3>2. Updates(new[k], p)
      BY <1>1, <1>2, <3>1 DEF Updates
    <3>3. new[k].it # Erased
      BY <1>1, <1>4, <3>2 DEF Lost
    <3>. QED  BY <3>1, <3>2, <3>3 DEF SamePlaces
  <2>2. ASSUME NEW k \in 1 .. Len(st), Updates(new[k], p) PROVE Updates(st[k], p)
    BY <1>1, <1>2, <2>2 DEF Updates
  <2>3. ~Lost(st, p)
    BY <2>1 DEF Lost
  <2>4. WillCome(new, p, c) <=> WillCome(st, p, c)
    BY <1>1, <2>1, <2>2 DEF WillCome
  <2>. QED  BY <1>4, <2>3, <2>4 DEF DueOk, Passed
<1>5. Passed(new, ch, du, vi)
  BY <1>4 DEF Passed
<1>. QED  BY <1>3, <1>5 DEF DueOk

\* Loops can be put on them that update nobody who is due, and will not come to root.
LEMMA AboveDue ==
    ASSUME NEW st \in Seq(Frame), NEW d, NEW new, Above(new, d, st), NEW ch, NEW en, NEW du, NEW vi, NEW root,
           DueOk(st, ch, en, du, vi, root),
           \A k \in 1 .. d :
               /\ new[k].loop = "update" =>
                     /\ new[k].obj \notin du
                     /\ root \in du => new[k].obj = root \/ root \notin Reach(new[k].obj, ch)
               /\ new[k].loop = "erase" => new[k].child \notin du
    PROVE  DueOk(new, ch, en, du, vi, root)
<1>1. d \in Nat /\ Len(st) \in Nat /\ Len(new) = d + Len(st)
  BY DEF Above
<1>2. ASSUME NEW k \in 1 .. Len(new)
      PROVE  k \in 1 .. d \/ (k - d \in 1 .. Len(st) /\ new[k] = st[k - d])
  BY <1>1 DEF Above
<1>3. ASSUME NEW k \in 1 .. Len(st) PROVE k + d \in 1 .. Len(new) /\ new[k + d] = st[k]
  BY <1>1 DEF Above
<1>4. ASSUME NEW k \in 1 .. Len(new), new[k].loop = "update", new[k].obj \in du
      PROVE  k - d \in 1 .. Len(st) /\ new[k] = st[k - d]
  BY <1>2, <1>4
<1>5. ASSUME NEW p \in du PROVE Lost(new, p) <=> Lost(st, p)
  BY <1>3, <1>4 DEF Lost, Updates
<1>6. ASSUME NEW p \in du, NEW c PROVE WillCome(new, p, c) <=> WillCome(st, p, c)
  BY <1>3, <1>4 DEF WillCome, Updates
<1>7. Passed(new, ch, du, vi)
  BY <1>5, <1>6 DEF DueOk, Passed
<1>8. ASSUME NEW j \in 1 .. Len(new), NEW k \in 1 .. Len(new), j < k, new[j].loop = "update",
             new[k].loop = "update", new[j].obj = new[k].obj, new[k].obj \in du
      PROVE  FALSE
  <2>1. j - d \in 1 .. Len(st) /\ new[j] = st[j - d] /\ k - d \in 1 .. Len(st) /\ new[k] = st[k - d] /\ j - d < k - d
    BY <1>1, <1>4, <1>8
  <2>. QED  BY <1>8, <2>1 DEF DueOk, DueLoops
<1>9. ASSUME NEW k \in 1 .. Len(new), new[k].loop = "update"
      PROVE  /\ new[k].obj \in du => vi[new[k].obj] = 1
             /\ root \in du => new[k].obj = root \/ root \notin Reach(new[k].obj, ch)
  BY <1>2, <1>9 DEF DueOk, DueLoops
<1>10. ASSUME NEW k \in 1 .. Len(new), new[k].loop = "erase" PROVE new[k].child \notin du
  BY <1>2, <1>10 DEF DueOk, DueLoops
<1>11. DueLoops(new, ch, du, vi, root)
  BY <1>8, <1>9, <1>10 DEF DueLoops
<1>. QED  BY <1>7, <1>11 DEF DueOk

\* The top can go, if it is not of an update, or past the last child.
LEMMA PoppedDue ==
    ASSUME NEW st \in Seq(Frame), NEW new, Popped(new, st), NEW ch, NEW en, NEW du \in SUBSET Objects, NEW vi, NEW root,
           DueOk(st, ch, en, du, vi, root), st[1].loop = "update" => st[1].it = N + 1
    PROVE  DueOk(new, ch, en, du, vi, root)
<1>. N \in Nat
  BY TreeAssumption
<1>1. new \in Seq(Frame) /\ Len(st) \in Nat /\ Len(st) >= 1 /\ Len(new) = Len(st) - 1 /\ Len(new) \in Nat
  BY DEF Popped
<1>2. ASSUME NEW k \in 1 .. Len(new) PROVE k + 1 \in 1 .. Len(st) /\ new[k] = st[k + 1]
  BY <1>1 DEF Popped
<1>3. ASSUME NEW k \in 1 .. Len(st), k # 1 PROVE k - 1 \in 1 .. Len(new) /\ st[k] = new[k - 1]
  <2>1. k - 1 \in 1 .. Len(new) /\ (k - 1) + 1 = k
    BY <1>1, <1>3
  <2>. QED  BY <1>2, <2>1
<1>4. ASSUME NEW p PROVE Lost(new, p) <=> Lost(st, p)
  <2>1. ~(st[1].loop = "update" /\ st[1].it = Erased)
    BY DEF Erased
  <2>. QED  BY <1>2, <1>3, <2>1 DEF Lost, Updates
<1>5. ASSUME NEW p, NEW c \in du PROVE WillCome(new, p, c) <=> WillCome(st, p, c)
  <2>1. ~(st[1].loop = "update" /\ Comes(st[1], c))
    <3>1. c \in 1 .. N
      BY DEF Objects
    <3>. QED  BY <3>1 DEF Comes
  <2>2. \A k \in 1 .. Len(st) : Updates(st[k], p) /\ Comes(st[k], c) => k # 1
    BY <2>1 DEF Updates
  <2>3. WillCome(new, p, c) => WillCome(st, p, c)
    BY <1>2 DEF WillCome
  <2>4. WillCome(st, p, c) => WillCome(new, p, c)
    BY <1>3, <2>2 DEF WillCome
  <2>. QED  BY <2>3, <2>4
<1>6. Passed(new, ch, du, vi)
  BY <1>4, <1>5 DEF DueOk, Passed
<1>7. DueLoops(new, ch, du, vi, root)
  <2>1. ASSUME NEW j \in 1 .. Len(new), NEW k \in 1 .. Len(new), j < k, new[j].loop = "update",
               new[k].loop = "update", new[j].obj = new[k].obj
        PROVE  new[k].obj \notin du
    <3>1. j + 1 < k + 1
      BY <1>1, <2>1
    <3>. QED  BY <1>2, <2>1, <3>1 DEF DueOk, DueLoops
  <2>2. ASSUME NEW k \in 1 .. Len(new), new[k].loop = "update"
        PROVE  /\ new[k].obj \in du => vi[new[k].obj] = 1
               /\ root \in du => new[k].obj = root \/ root \notin Reach(new[k].obj, ch)
    BY <1>2, <2>2 DEF DueOk, DueLoops
  <2>3. ASSUME NEW k \in 1 .. Len(new), new[k].loop = "erase" PROVE new[k].child \notin du
    BY <1>2, <2>3 DEF DueOk, DueLoops
  <2>. QED  BY <2>1, <2>2, <2>3 DEF DueLoops
<1>. QED  BY <1>6, <1>7 DEF DueOk

\* What may happen to who is due: some are no longer, and those who are below them; the
\* others stay where they are.
Shrinks(ch, en, du, newch, newen, newdu, root) ==
    /\ newdu \subseteq du \cap newen
    /\ \A p \in Nodes : \A x \in newdu : x \in ch[p] <=> x \in newch[p]
    /\ \A p \in du \ newdu : \A x \in ch[p] : x \notin newdu
    /\ root \in newdu => \A q \in Nodes : root \in Reach(q, newch) => root \in Reach(q, ch)

\* That leaves DueOk.
LEMMA ShrinksDue ==
    ASSUME NEW st \in Seq(Frame), NEW ch, NEW en, NEW du \in SUBSET Objects, NEW vi, NEW root,
           NEW newch, NEW newen, NEW newdu, DueOk(st, ch, en, du, vi, root),
           Shrinks(ch, en, du, newch, newen, newdu, root)
    PROVE  DueOk(st, newch, newen, newdu, vi, root)
<1>1. newdu \subseteq du /\ newdu \subseteq newen /\ Objects \subseteq Nodes
  BY DEF Shrinks, Objects, Nodes
<1>2. ASSUME NEW p \in newdu, NEW c \in newch[p] \cap newdu PROVE p \in du /\ c \in ch[p] \cap du
  BY <1>1 DEF Shrinks
<1>3. DueBelow(newch, newen, newdu, vi, root)
  <2>1. ASSUME NEW x \in newdu, x # root PROVE \E p \in newdu : x \in newch[p]
    <3>1. PICK p \in du : x \in ch[p]
      BY <1>1, <2>1 DEF DueOk, DueBelow
    <3>2. p \in newdu
      BY <3>1 DEF Shrinks
    <3>. QED  BY <1>1, <3>1, <3>2 DEF Shrinks
  <2>. QED  BY <1>1, <1>2, <2>1 DEF DueOk, DueBelow
<1>4. Passed(st, newch, newdu, vi)
  BY <1>2 DEF DueOk, Passed
<1>5. DueLoops(st, newch, newdu, vi, root)
  <2>1. ASSUME NEW k \in 1 .. Len(st), st[k].loop = "update" PROVE st[k].obj \in Nodes
    <3>1. st[k] \in Frame
      OBVIOUS
    <3>. QED  BY <1>1, <2>1, <3>1, Kinds DEF LoopFrames
  <2>. QED  BY <1>1, <2>1 DEF DueOk, DueLoops, Shrinks
<1>. QED  BY <1>3, <1>4, <1>5 DEF DueOk

\* Whoever is not in the update any more, with all below it
LEMMA DroppedShrinks ==
    ASSUME Tree, NEW o \in Objects, NEW du \in SUBSET Objects, NEW en, NEW newen, NEW newdu,
           newdu = du \ Subtree(o), newdu \subseteq newen, NEW root
    PROVE  Shrinks(children, en, du, children, newen, newdu, root)
<1>1. o \in Nodes
  BY DEF Objects, Nodes
<1>2. \A p \in du \ newdu : p \in Nodes /\ p \in Subtree(o)
  BY DEF Objects, Nodes
<1>3. \A p \in du \ newdu : children[p] \subseteq Subtree(o)
  BY <1>1, <1>2, SubtreeIs DEF Closed
<1>. QED  BY <1>3 DEF Shrinks

\* An object that is added somewhere is not, with all below it.
LEMMA AttachedShrinks ==
    ASSUME Tree, NEW p, NEW o, Attaches(p, o), NEW du \in SUBSET Objects, NEW en, NEW newdu,
           newdu = du \ Subtree(o), newdu \subseteq en, NEW root
    PROVE  Shrinks(children, en, du, children', en, newdu, root)
<1>1. p \in Nodes /\ o \in Objects /\ o \in Nodes /\ children' = [children EXCEPT ![p] = @ \cup {o}]
      /\ Objects \subseteq Nodes
  BY DEF Attaches, Objects, Nodes
<1>2. \A q \in Nodes : children'[q] = children[q] \cup (IF q = p THEN {o} ELSE {})
  BY <1>1 DEF Tree
<1>3. o \in Subtree(o) /\ Closed(Subtree(o), children) /\ Subtree(o) \subseteq Nodes
  BY <1>1, SubtreeIs
<1>4. \A q \in Nodes : \A x \in newdu : x \in children[q] <=> x \in children'[q]
  BY <1>2, <1>3
<1>5. \A q \in du \ newdu : children[q] \subseteq Subtree(o)
  BY <1>1, <1>3 DEF Closed
<1>6. ASSUME NEW q \in Nodes PROVE Reach(q, children') \subseteq Subtree(q) \cup Subtree(o)
  <2>. DEFINE S == Subtree(q) \cup Subtree(o)
  <2>1. q \in Subtree(q) /\ Closed(Subtree(q), children) /\ Subtree(q) \subseteq Nodes
    BY SubtreeIs
  <2>2. Closed(S, children')
    BY <1>2, <1>3, <2>1 DEF Closed
  <2>3. children' \in [Nodes -> SUBSET Nodes]
    BY <1>1 DEF Tree
  <2>. HIDE DEF S
  <2>4. q \in S
    BY <2>1 DEF S
  <2>5. Reach(q, children') \subseteq S
    BY <2>2, <2>3, <2>4, ReachIs
  <2>. QED  BY <2>5 DEF S
<1>7. root \in newdu => \A q \in Nodes : root \in Reach(q, children') => root \in Reach(q, children)
  BY <1>6 DEF Subtree
<1>. QED  BY <1>4, <1>5, <1>7 DEF Shrinks

\* Nor does a child that is removed matter, if it is not due.
LEMMA DetachedShrinks ==
    ASSUME Tree, NEW p \in Nodes, NEW o, children' = [children EXCEPT ![p] = @ \ {o}],
           NEW du \in SUBSET Objects, o \notin du, NEW en, du \subseteq en, NEW root
    PROVE  Shrinks(children, en, du, children', en, du, root)
<1>1. \A q \in Nodes : children'[q] = children[q] \ (IF q = p THEN {o} ELSE {})
  BY DEF Tree
<1>2. /\ children \in [Nodes -> SUBSET Nodes] /\ children' \in [Nodes -> SUBSET Nodes]
      /\ \A q \in Nodes : children'[q] \subseteq children[q]
  BY <1>1 DEF Tree, Objects, Nodes
<1>3. \A q \in Nodes : Reach(q, children') \subseteq Reach(q, children)
  BY <1>2, ReachGrows
<1>4. \A q \in Nodes : \A x \in du : x \in children[q] <=> x \in children'[q]
  BY <1>1
<1>. QED  BY <1>3, <1>4 DEF Shrinks

\* A loop that loses its iterator keeps its place, as far as Passed tells.
LEMMA MarkedDue ==
    ASSUME NEW st \in Seq(Frame), NEW p, NEW o, NEW new, Marked(new, p, o, st), NEW ch, NEW en, NEW du, NEW vi, NEW root,
           DueOk(st, ch, en, du, vi, root)
    PROVE  DueOk(new, ch, en, du, vi, root)
<1>1. new \in Seq(Frame) /\ Len(new) = Len(st) /\ Len(st) \in Nat
  BY DEF Marked
<1>2. SamePlaces(new, st, ch, du)
  <2>1. ASSUME NEW k \in 1 .. Len(st)
        PROVE  /\ new[k].loop = st[k].loop
               /\ st[k].loop = "update" =>
                     /\ new[k].obj = st[k].obj
                     /\ \/ new[k].it = Erased
                        \/ /\ st[k].it # Erased
                           /\ \A c \in ch[st[k].obj] \cap du : Comes(new[k], c) <=> Comes(st[k], c)
               /\ st[k].loop = "erase" => new[k].child = st[k].child
    <3>1. CASE new[k] = st[k]
      BY <3>1
    <3>2. CASE /\ st[k].loop \in Nested /\ new[k].loop = st[k].loop /\ new[k].obj = st[k].obj /\ new[k].it = Erased
      BY <3>2 DEF Nested
    <3>. QED  BY <3>1, <3>2 DEF Marked
  <2>. QED  BY <1>1, <2>1 DEF SamePlaces
<1>. QED  BY <1>1, <1>2, SamePlacesDue

\* A call leaves the update to those whom it did not move, remove or disable.
LEMMA CallDue ==
    ASSUME CallTypes, NEW st \in Seq(Frame), NEW vi, NEW root, DueOk(st, children, enabled, due, vi, root), Call(st)
    PROVE  DueOk(stack', children', enabled', due', vi, root)
<1>. DEFINE Goal == DueOk(stack', children', enabled', due', vi, root)
<1>1. Tree /\ due \in SUBSET Objects /\ enabled \subseteq Objects /\ due \subseteq enabled
  BY DEF CallTypes, DueOk, DueBelow
<1>2. ASSUME NEW o \in Objects, due' = due \ Subtree(o), due' \subseteq enabled', UNCHANGED children
      PROVE  DueOk(st, children', enabled', due', vi, root) /\ o \notin due'
  <2>1. Shrinks(children, enabled, due, children, enabled', due', root)
    BY <1>1, <1>2, DroppedShrinks
  <2>2. o \in Subtree(o)
    <3>1. o \in Nodes
      BY DEF Objects, Nodes
    <3>. QED  BY <1>1, <3>1, SubtreeIs
  <2>. QED  BY <1>1, <1>2, <2>1, <2>2, ShrinksDue
<1>3. ASSUME NEW o, NEW p, Joins(o, p, st) PROVE DueOk(st, children', enabled', due', vi, root)
  <2>1. Attaches(p, o) /\ due' = due \ Subtree(o) /\ enabled' = enabled
    BY <1>3 DEF Joins
  <2>2. Shrinks(children, enabled, due, children', enabled, due', root)
    BY <1>1, <2>1, AttachedShrinks
  <2>. QED  BY <1>1, <2>1, <2>2, ShrinksDue
<1>4. ASSUME NEW o, NEW p, JoinsEarly(o, p, st) PROVE Goal
  BY <1>3, <1>4 DEF JoinsEarly
<1>5. ASSUME NEW o, NEW p, NEW d, JoinsSetUp(o, p, d, st) PROVE Goal
  <2>1. Above(stack', d, st) /\ \A k \in 1 .. d : stack'[k].loop \notin {"update", "erase"}
    BY <1>5 DEF JoinsSetUp, Sets
  <2>2. DueOk(st, children', enabled', due', vi, root)
    BY <1>3, <1>5 DEF JoinsSetUp
  <2>. QED  BY <2>1, <2>2, AboveDue
<1>6. ASSUME NEW p, NEW o, Leaves(p, o, st) PROVE Goal
  <2>1. p \in Nodes /\ o \in Objects /\ due' = due \ Subtree(o) /\ enabled' = enabled
    BY <1>6 DEF Leaves
  <2>2. CASE Above(stack', 2, st) /\ stack'[1] = Loop("destroy", o) /\ stack'[2] = Erase(p, o) /\ UNCHANGED children
    <3>1. DueOk(st, children', enabled', due', vi, root) /\ o \notin due'
      BY <1>1, <1>2, <2>1, <2>2
    <3>2. \A k \in 1 .. 2 : stack'[k].loop # "update" /\ (stack'[k].loop = "erase" => stack'[k].child \notin due')
      BY <2>2, <3>1 DEF Loop, Erase
    <3>. QED  BY <2>2, <3>1, <3>2, AboveDue
  <2>3. CASE children' = [children EXCEPT ![p] = @ \ {o}] /\ Marked(stack', p, o, st)
    <3>1. Shrinks(children, enabled, due, children, enabled, due', root)
      BY <1>1, <2>1, DroppedShrinks
    <3>2. DueOk(st, children, enabled, due', vi, root)
      BY <1>1, <3>1, ShrinksDue
    <3>3. o \notin due' /\ due' \in SUBSET Objects /\ due' \subseteq enabled
      <4>1. o \in Nodes
        BY <2>1 DEF Objects, Nodes
      <4>2. o \in Subtree(o)
        BY <1>1, <4>1, SubtreeIs
      <4>. QED  BY <1>1, <2>1, <4>2
    <3>4. Shrinks(children, enabled, due', children', enabled, due', root)
      BY <1>1, <2>1, <2>3, <3>3, DetachedShrinks
    <3>5. DueOk(st, children', enabled, due', vi, root)
      BY <3>2, <3>3, <3>4, ShrinksDue
    <3>. QED  BY <2>1, <2>3, <3>5, MarkedDue
  <2>. QED  BY <1>6, <2>2, <2>3 DEF Leaves
<1>7. ASSUME NEW o, NEW s, Adds(o, s, st) PROVE Goal
  <2>1. Above(stack', 1, st) /\ stack'[1].loop = "added" /\ UNCHANGED <<children, enabled, due>>
    BY <1>7 DEF Adds, Added
  <2>2. \A k \in 1 .. 1 : stack'[k].loop \notin {"update", "erase"}
    BY <2>1
  <2>. QED  BY <2>1, <2>2, AboveDue
<1>8. CASE Switches(st)
  <2>1. stack' = st /\ UNCHANGED children
    BY <1>8 DEF Switches
  <2>2. CASE enabled \subseteq enabled' /\ UNCHANGED due
    BY <2>1, <2>2 DEF DueOk, DueBelow
  <2>3. ASSUME NEW o \in enabled, enabled' = enabled \ {o}, due' = due \ Subtree(o) PROVE Goal
    <3>1. o \in Objects /\ o \in Nodes
      BY <1>1 DEF Objects, Nodes
    <3>2. due' \subseteq enabled'
      BY <1>1, <2>3, <3>1, SubtreeIs
    <3>. QED  BY <1>2, <2>1, <2>3, <3>1, <3>2
  <2>. QED  BY <1>8, <2>2, <2>3 DEF Switches
<1>. QED  BY <1>4, <1>5, <1>6, <1>7, <1>8, CallCases

\* So does a callback with the call it makes.
LEMMA CallBackDue ==
    ASSUME CallTypes, NEW st \in Seq(Frame), NEW s, NEW m, CallBack(s, m, st), NEW root,
           DueOk(st, children, enabled, due, visits, root)
    PROVE  DueOk(stack', children', enabled', due', visits', root)
<1>1. visits' = visits
  BY DEF CallBack
<1>2. CASE stack' = st /\ UNCHANGED <<tree, due>>
  BY <1>1, <1>2 DEF tree
<1>3. CASE Call(st)
  BY <1>1, <1>3, CallDue
<1>. QED  BY <1>2, <1>3 DEF CallBack

\* The loop of an update begins a child's turn.
LEMMA ChildDue ==
    ASSUME TypeOK, TreeInv, CursorOk(stack, children), stack # << >>, NEW g, NEW st, Descends(g, st),
           stack[1].loop = "update", stack' # st,
           NEW root \in Nodes, DueOk(stack, children, enabled, due, visits, root),
           DueOk(st, children, enabled, due, visits, root) \/ stack[1].it \in due
    PROVE  DueOk(stack', children, enabled, due, visits', root)
<1>. DEFINE f == stack[1]
            c == f.it
            p == f.obj
<1>. N \in Nat
  BY TreeAssumption
<1>1. /\ stack \in Seq(Frame) /\ Tree /\ visits \in [Objects -> 0 .. 2] /\ due \subseteq Objects
      /\ Objects \subseteq Nodes /\ 0 \notin Objects /\ -1 \notin Objects
  BY DEF TypeOK, Tree, Objects, Nodes
<1>2. /\ f \in LoopFrames /\ g \in LoopFrames /\ g.loop = "update" /\ g.obj = p /\ g.it = c /\ g.back /\ ~f.back
      /\ c \in Objects /\ p \in Objects /\ Retopped(st, g, stack) /\ st \in Seq(Frame)
      /\ Above(stack', 1, st) /\ stack'[1] = Loop("update", c) /\ c \in enabled
      /\ visits' = [visits EXCEPT ![c] = IF @ = 0 THEN 1 ELSE 2]
  BY DEF Descends, Moved, LoopFrames
<1>3. c \in children[p] /\ p \in Nodes /\ c \in Nodes
  <2>1. TopCursor(f, children)
    BY DEF CursorOk
  <2>2. "update" \in Nested
    BY DEF Nested
  <2>. QED  BY <1>1, <1>2, <2>1, <2>2 DEF TopCursor
<1>4. PICK r \in Ranks(children) : TRUE
  BY DEF TreeInv, Acyclic
<1>5. r \in [Nodes -> Nat] /\ \A q \in Nodes : \A x \in children[q] : r[q] < r[x]
  BY <1>4 DEF Ranks
<1>6. \A q \in Nodes, x \in Objects : x \in children[q] => x # q
  BY <1>1, <1>5
<1>7. \A q \in Nodes : c \in children[q] => q = p
  BY <1>3 DEF TreeInv, ParentOk
<1>8. 1 \in 1 .. Len(stack) /\ Len(stack) \in Nat
  BY <1>1
<1>9. root \in due => c # root /\ root \notin Reach(c, children)
  <2>1. SUFFICES ASSUME root \in due, root \in Reach(c, children) PROVE FALSE
    <3>1. c \in Subtree(c)
      BY <1>1, <1>3, SubtreeIs
    <3>. QED  BY <3>1 DEF Subtree
  <2>2. /\ children \in [Nodes -> SUBSET Nodes] /\ Subtree(c) \subseteq Nodes
        /\ p \in Subtree(p) /\ Closed(Subtree(p), children)
    BY <1>1, <1>3, SubtreeIs DEF Tree
  <2>3. c \in Reach(p, children)
    BY <1>3, <2>2 DEF Closed, Subtree
  <2>4. root \in Reach(p, children)
    BY <1>3, <2>1, <2>2, <2>3, ReachOnwards
  <2>5. p = root
    BY <1>2, <1>8, <2>1, <2>4 DEF DueOk, DueLoops
  <2>6. r[c] <= r[root]
    <3>1. root = c \/ r[c] < r[root]
      BY <1>1, <1>3, <1>4, <2>1, RankBelow DEF Subtree
    <3>. QED  BY <1>3, <1>5, <3>1
  <2>7. r[p] < r[c] /\ r[p] \in Nat /\ r[c] \in Nat
    BY <1>3, <1>5
  <2>. QED  BY <2>5, <2>6, <2>7
<1>10. CASE c \notin due
  <2>1. DueOk(st, children, enabled, due, visits, root)
    BY <1>10
  <2>2. \A x \in due : visits'[x] = visits[x]
    BY <1>1, <1>2, <1>10
  <2>3. DueOk(st, children, enabled, due, visits', root)
    BY <2>1, <2>2 DEF DueOk, DueBelow, Passed, DueLoops
  <2>4. stack'[1].loop = "update" /\ stack'[1].obj = c
    BY <1>2 DEF Loop
  <2>. QED  BY <1>2, <1>9, <1>10, <2>3, <2>4, AboveDue
<1>11. CASE c \in due
  <2>1. c # root /\ p \in due /\ visits[p] = 1
    <3>1. c # root
      BY <1>9, <1>11
    <3>2. PICK q \in due : c \in children[q]
      BY <1>11, <3>1 DEF DueOk, DueBelow
    <3>3. p \in due
      BY <1>1, <1>7, <3>2
    <3>. QED  BY <1>2, <1>8, <3>1, <3>3 DEF DueOk, DueLoops
  <2>2. \A k \in 1 .. Len(stack) : Updates(stack[k], p) => k = 1
    <3>1. ASSUME NEW k \in 1 .. Len(stack), Updates(stack[k], p), k # 1 PROVE FALSE
      <4>1. 1 < k /\ stack[k].loop = "update" /\ stack[k].obj = f.obj
        BY <1>8, <3>1 DEF Updates
      <4>. QED  BY <1>2, <1>8, <2>1, <4>1 DEF DueOk, DueLoops
    <3>. QED  BY <3>1
  <2>3. visits[c] = 0
    <3>1. ~Lost(stack, p)
      BY <1>1, <1>2, <2>2 DEF Lost, Erased
    <3>2. WillCome(stack, p, c)
      BY <1>2, <1>8 DEF WillCome, Updates, Comes
    <3>. QED  BY <1>3, <1>11, <2>1, <3>1, <3>2 DEF DueOk, Passed
  <2>4. visits'[c] = 1 /\ \A x \in due : x # c => visits'[x] = visits[x]
    BY <1>1, <1>2, <2>3
  <2>5. \A k \in 1 .. Len(stack) : ~Updates(stack[k], c)
    BY <1>11, <2>3 DEF Updates, DueOk, DueLoops
  <2>6. Len(st) = Len(stack) /\ st[1] = g /\ \A k \in 2 .. Len(stack) : st[k] = stack[k]
    BY <1>2 DEF Retopped
  <2>7. /\ Len(stack') = Len(stack) + 1 /\ stack'[1].loop = "update" /\ stack'[1].obj = c /\ stack'[1].it = 0
        /\ stack'[2] = g /\ \A k \in 3 .. Len(stack') : k - 1 \in 2 .. Len(stack) /\ stack'[k] = stack[k - 1]
        /\ \A k \in 2 .. Len(stack) : k + 1 \in 3 .. Len(stack') /\ stack'[k + 1] = stack[k]
    <3>1. Len(stack') = Len(stack) + 1 /\ stack'[1].loop = "update" /\ stack'[1].obj = c /\ stack'[1].it = 0
      BY <1>2, <1>8, <2>6 DEF Above, Loop
    <3>2. \A k \in 1 .. Len(st) : stack'[k + 1] = st[k]
      BY <1>2 DEF Above
    <3>3. stack'[2] = g
      BY <1>8, <2>6, <3>2
    <3>4. ASSUME NEW k \in 3 .. Len(stack') PROVE k - 1 \in 2 .. Len(stack) /\ stack'[k] = stack[k - 1]
      <4>1. k - 1 \in 2 .. Len(stack) /\ (k - 1) + 1 = k
        BY <1>8, <3>1
      <4>. QED  BY <2>6, <3>2, <4>1
    <3>5. ASSUME NEW k \in 2 .. Len(stack) PROVE k + 1 \in 3 .. Len(stack') /\ stack'[k + 1] = stack[k]
      BY <1>8, <2>6, <3>1, <3>2
    <3>. QED  BY <3>1, <3>3, <3>4, <3>5
  \* the loop that has come down, and each other, as it was
  <2>8. ASSUME NEW k \in 2 .. Len(stack')
        PROVE  \E n \in 1 .. Len(stack) : /\ stack'[k].loop = stack[n].loop /\ n = k - 1
                                          /\ stack[n].loop = "update" => stack'[k].obj = stack[n].obj
                                          /\ stack[n].loop = "update" => stack'[k].it = stack[n].it
                                          /\ stack[n].loop = "erase" => stack'[k].child = stack[n].child
    <3>1. CASE k = 2
      BY <1>2, <1>8, <2>7, <3>1
    <3>2. CASE k # 2
      <4>1. k \in 3 .. Len(stack')
        BY <1>8, <2>7, <3>2
      <4>. QED  BY <1>8, <2>7, <4>1
    <3>. QED  BY <3>1, <3>2
  <2>9. ASSUME NEW q, q # c, Lost(stack, q) PROVE Lost(stack', q)
    <3>1. PICK n \in 1 .. Len(stack) : Updates(stack[n], q) /\ stack[n].it = Erased
      BY <2>9 DEF Lost
    <3>2. n # 1
      BY <1>1, <1>2, <3>1 DEF Erased
    <3>3. n \in 2 .. Len(stack)
      BY <1>8, <3>2
    <3>4. stack'[n + 1] = stack[n] /\ n + 1 \in 1 .. Len(stack')
      BY <1>8, <2>7, <3>3
    <3>. QED  BY <3>1, <3>4 DEF Lost
  <2>10. ASSUME NEW q, q # c, NEW x \in due, x # c \/ q # p PROVE WillCome(stack', q, x) <=> WillCome(stack, q, x)
    <3>1. q = p => (Comes(g, x) <=> Comes(f, x))
      BY <1>1, <1>2, <2>10 DEF Comes
    <3>2. Updates(g, q) <=> Updates(f, q)
      BY <1>2 DEF Updates
    <3>3. Updates(f, q) => q = p
      BY DEF Updates
    <3>4. ASSUME WillCome(stack', q, x) PROVE WillCome(stack, q, x)
      <4>1. PICK k \in 1 .. Len(stack') : Updates(stack'[k], q) /\ Comes(stack'[k], x)
        BY <3>4 DEF WillCome
      <4>2. k # 1
        BY <2>7, <2>10, <4>1 DEF Updates
      <4>3. CASE k = 2
        BY <1>8, <2>7, <3>1, <3>2, <3>3, <4>1, <4>3 DEF WillCome
      <4>4. CASE k # 2
        <5>1. k \in 3 .. Len(stack')
          BY <1>8, <2>7, <4>2, <4>4
        <5>2. k - 1 \in 1 .. Len(stack) /\ stack'[k] = stack[k - 1]
          BY <1>8, <2>7, <5>1
        <5>. QED  BY <4>1, <5>2 DEF WillCome
      <4>. QED  BY <4>3, <4>4
    <3>5. ASSUME WillCome(stack, q, x) PROVE WillCome(stack', q, x)
      <4>1. PICK k \in 1 .. Len(stack) : Updates(stack[k], q) /\ Comes(stack[k], x)
        BY <3>5 DEF WillCome
      <4>2. CASE k = 1
        <5>1. 2 \in 1 .. Len(stack')
          BY <1>8, <2>7
        <5>. QED  BY <2>7, <3>1, <3>2, <3>3, <4>1, <4>2, <5>1 DEF WillCome
      <4>3. CASE k # 1
        <5>1. k \in 2 .. Len(stack)
          BY <1>8, <4>3
        <5>2. k + 1 \in 1 .. Len(stack') /\ stack'[k + 1] = stack[k]
          BY <1>8, <2>7, <5>1
        <5>. QED  BY <4>1, <5>2 DEF WillCome
      <4>. QED  BY <4>2, <4>3
    <3>. QED  BY <3>4, <3>5
  <2>11. ASSUME NEW q \in due, NEW x \in children[q] \cap due, visits'[q] = 1
         PROVE  \/ Lost(stack', q)
                \/ visits'[x] = 0 /\ WillCome(stack', q, x)
                \/ visits'[x] = 1 /\ ~WillCome(stack', q, x)
    <3>0. q \in Nodes /\ x \in Objects /\ x # q
      BY <1>1, <1>6
    <3>1. CASE q = c
      <4>1. visits'[x] = 0
        BY <1>11, <2>3, <2>4, <3>0, <3>1 DEF DueOk, DueBelow
      <4>2. 1 \in 1 .. Len(stack') /\ Updates(stack'[1], q) /\ Comes(stack'[1], x)
        BY <1>8, <2>7, <3>1 DEF Updates, Comes
      <4>. QED  BY <4>1, <4>2 DEF WillCome
    <3>2. CASE q # c /\ x = c
      <4>1. q = p
        BY <1>7, <3>0, <3>2
      <4>2. ASSUME NEW k \in 1 .. Len(stack'), Updates(stack'[k], p) PROVE ~Comes(stack'[k], c)
        <5>1. k # 1
          BY <2>7, <3>2, <4>1, <4>2 DEF Updates
        <5>2. k = 2
          <6>1. ASSUME k # 2 PROVE FALSE
            <7>1. k \in 3 .. Len(stack')
              BY <1>8, <2>7, <5>1, <6>1
            <7>2. k - 1 \in 2 .. Len(stack) /\ stack'[k] = stack[k - 1]
              BY <2>7, <7>1
            <7>3. k - 1 \in 1 .. Len(stack) /\ k - 1 # 1
              BY <1>8, <7>2
            <7>. QED  BY <2>2, <4>2, <7>2, <7>3
          <6>. QED  BY <6>1
        <5>. QED  BY <1>1, <1>2, <2>7, <5>2 DEF Comes, Objects
      <4>3. ~WillCome(stack', q, x)
        BY <3>2, <4>1, <4>2 DEF WillCome
      <4>. QED  BY <2>4, <3>2, <4>3
    <3>3. CASE q # c /\ x # c
      <4>1. visits[q] = 1 /\ visits'[x] = visits[x]
        BY <2>4, <2>11, <3>3
      <4>2. Lost(stack, q) \/ (visits[x] = 0 /\ WillCome(stack, q, x)) \/ (visits[x] = 1 /\ ~WillCome(stack, q, x))
        BY <4>1 DEF DueOk, Passed
      <4>. QED  BY <2>9, <2>10, <3>3, <4>1, <4>2
    <3>. QED  BY <3>1, <3>2, <3>3
  <2>12. ASSUME NEW j \in 1 .. Len(stack'), NEW k \in 1 .. Len(stack'), j < k, stack'[j].loop = "update",
                stack'[k].loop = "update", stack'[j].obj = stack'[k].obj, stack'[k].obj \in due
         PROVE  FALSE
    <3>1. k \in 2 .. Len(stack')
      BY <1>8, <2>7, <2>12
    <3>2. k - 1 \in 1 .. Len(stack) /\ stack[k - 1].loop = "update" /\ stack'[k].obj = stack[k - 1].obj
      BY <2>8, <2>12, <3>1
    <3>3. CASE j = 1
      BY <2>5, <2>7, <2>12, <3>2, <3>3 DEF Updates
    <3>4. CASE j # 1
      <4>1. j \in 2 .. Len(stack')
        BY <1>8, <2>7, <3>4
      <4>2. j - 1 \in 1 .. Len(stack) /\ stack[j - 1].loop = "update" /\ stack'[j].obj = stack[j - 1].obj
        BY <2>8, <2>12, <4>1
      <4>3. j - 1 < k - 1
        BY <2>12
      <4>. QED  BY <2>12, <3>2, <4>2, <4>3 DEF DueOk, DueLoops
    <3>. QED  BY <3>3, <3>4
  <2>13. ASSUME NEW k \in 1 .. Len(stack'), stack'[k].loop = "update"
         PROVE  /\ stack'[k].obj \in due => visits'[stack'[k].obj] = 1
                /\ root \in due => stack'[k].obj = root \/ root \notin Reach(stack'[k].obj, children)
    <3>1. CASE k = 1
      BY <1>9, <2>4, <2>7, <3>1
    <3>2. CASE k # 1
      <4>1. k \in 2 .. Len(stack')
        BY <1>8, <2>7, <3>2
      <4>2. k - 1 \in 1 .. Len(stack) /\ stack[k - 1].loop = "update" /\ stack'[k].obj = stack[k - 1].obj
        BY <2>8, <2>13, <4>1
      <4>3. stack[k - 1].obj # c
        BY <2>5, <4>2 DEF Updates
      <4>. QED  BY <2>4, <4>2, <4>3 DEF DueOk, DueLoops
    <3>. QED  BY <3>1, <3>2
  <2>14. ASSUME NEW k \in 1 .. Len(stack'), stack'[k].loop = "erase" PROVE stack'[k].child \notin due
    <3>1. k # 1
      BY <2>7, <2>14
    <3>2. k \in 2 .. Len(stack')
      BY <1>8, <2>7, <3>1
    <3>3. k - 1 \in 1 .. Len(stack) /\ stack[k - 1].loop = "erase" /\ stack'[k].child = stack[k - 1].child
      BY <2>8, <2>14, <3>2
    <3>. QED  BY <3>3 DEF DueOk, DueLoops
  <2>15. DueBelow(children, enabled, due, visits', root)
    <3>1. ASSUME NEW q \in due, NEW x \in children[q] \cap due, visits'[q] = 0 PROVE visits'[x] = 0
      <4>1. q # c /\ visits[q] = 0
        BY <2>4, <3>1
      <4>2. x # c
        BY <1>1, <1>7, <2>1, <4>1
      <4>. QED  BY <2>4, <4>1, <4>2 DEF DueOk, DueBelow
    <3>2. \A x \in due : visits'[x] \in {0, 1}
      BY <2>4 DEF DueOk, DueBelow
    <3>. QED  BY <2>1, <2>4, <3>1, <3>2 DEF DueOk, DueBelow
  <2>16. Passed(stack', children, due, visits')
    BY <2>11 DEF Passed
  <2>17. DueLoops(stack', children, due, visits', root)
    BY <2>12, <2>13, <2>14 DEF DueLoops
  <2>. QED  BY <2>15, <2>16, <2>17 DEF DueOk
<1>. QED  BY <1>10, <1>11

\* An update begins: what is due is below its object, and has yet to have a turn.
LEMMA BeginsDue ==
    ASSUME TypeOK, TreeInv, NEW o, Begins(o)
    PROVE  o \in Nodes /\ DueOk(stack', children', enabled', due', visits', o)
<1>. DEFINE E == [p \in Nodes |-> children[p] \cap enabled]
<1>1. /\ Tree /\ enabled \subseteq Objects /\ Objects \subseteq Nodes /\ o \in enabled /\ o \in Objects /\ o \in Nodes
      /\ UNCHANGED <<children, enabled>> /\ visits' = [x \in Objects |-> IF x = o THEN 1 ELSE 0]
      /\ Len(stack') = 1 /\ stack'[1].loop = "update" /\ stack'[1].obj = o /\ stack'[1].it = 0
  BY DEF Begins, Loop, TypeOK, Tree, Objects, Nodes
<1>2. E \in [Nodes -> SUBSET Nodes] /\ children \in [Nodes -> SUBSET Nodes] /\ \A p \in Nodes : E[p] \subseteq children[p]
  BY <1>1 DEF Tree
<1>3. due' = Reach(o, E)
  BY DEF Begins, Active, Nodes
<1>. HIDE DEF E
<1>4. /\ due' \subseteq Nodes /\ o \in due' /\ Closed(due', E)
      /\ \A x \in due' \ {o} : \E y \in due' : x \in E[y]
      /\ due' \subseteq Subtree(o)
  BY <1>1, <1>2, <1>3, ReachIs, ReachGrows DEF Subtree
<1>5. \A x \in due' \ {o} : x \in enabled /\ \E y \in due' : x \in children[y]
  BY <1>4 DEF E
<1>6. ASSUME NEW p \in due', NEW x \in children[p] PROVE x # o
  <2>1. PICK r \in Ranks(children) : TRUE
    BY DEF TreeInv, Acyclic
  <2>2. r \in [Nodes -> Nat] /\ r[p] < r[x] /\ p \in Nodes /\ x \in Nodes
    BY <1>1, <1>4, <2>1 DEF Ranks, Tree
  <2>3. p = o \/ r[o] < r[p]
    BY <1>1, <1>4, <2>1, RankBelow
  <2>. QED  BY <1>1, <2>2, <2>3
<1>7. due' \subseteq Objects /\ \A x \in due' : visits'[x] = IF x = o THEN 1 ELSE 0
  BY <1>1, <1>5
<1>8. DueBelow(children', enabled', due', visits', o)
  BY <1>1, <1>4, <1>5, <1>6, <1>7 DEF DueBelow
<1>9. Passed(stack', children', due', visits')
  <2>1. ASSUME NEW p \in due', NEW x \in children[p] \cap due', visits'[p] = 1
        PROVE  visits'[x] = 0 /\ WillCome(stack', p, x)
    <3>1. p = o /\ visits'[x] = 0
      BY <1>6, <1>7, <2>1
    <3>2. 1 \in 1 .. Len(stack') /\ Updates(stack'[1], p) /\ Comes(stack'[1], x)
      BY <1>1, <3>1 DEF Updates, Comes
    <3>. QED  BY <3>1, <3>2 DEF WillCome
  <2>. QED  BY <1>1, <2>1 DEF Passed
<1>10. DueLoops(stack', children', due', visits', o)
  BY <1>1, <1>4, <1>7 DEF DueLoops
<1>. QED  BY <1>1, <1>8, <1>9, <1>10 DEF DueOk

\* Every step but the first of an update keeps DueOk.
LEMMA DueNext ==
    ASSUME TypeOK, TreeInv, CursorOk(stack, children), [Next]_vars,
           NEW root \in Nodes, DueOk(stack, children, enabled, due, visits, root)
    PROVE  \E o \in Nodes : DueOk(stack', children', enabled', due', visits', o)
<1>. DEFINE f == stack[1]
            Goal == DueOk(stack', children', enabled', due', visits', root)
<1>. N \in Nat
  BY TreeAssumption
<1>1. stack \in Seq(Frame) /\ CallTypes /\ Tree /\ due \in SUBSET Objects /\ due \subseteq enabled /\ Objects \subseteq Nodes
  <2>1. CallTypes
    BY TypesOfCall
  <2>2. stack \in Seq(Frame)
    BY DEF TypeOK
  <2>3. due \subseteq enabled
    BY DEF DueOk, DueBelow
  <2>4. Objects \subseteq Nodes
    BY DEF Objects, Nodes
  <2>. QED  BY <2>1, <2>2, <2>3, <2>4 DEF CallTypes
<1>2. CASE UNCHANGED <<stack, children, enabled, due, visits>>
  BY <1>2
<1>3. ASSUME stack # << >>, NEW st, NEW g, Retopped(st, g, stack), g.loop = f.loop,
             f.loop = "update" =>
                 /\ g.obj = f.obj /\ f.it # Erased
                 /\ \A x \in children[f.obj] \cap due : Comes(g, x) <=> Comes(f, x),
             f.loop # "erase"
      PROVE  DueOk(st, children, enabled, due, visits, root)
  <2>1. SamePlaces(st, stack, children, due)
    <3>1. Len(st) = Len(stack) /\ st[1] = g /\ \A k \in 2 .. Len(stack) : st[k] = stack[k]
      BY <1>3 DEF Retopped
    <3>2. ASSUME NEW k \in 1 .. Len(stack), k # 1 PROVE st[k] = stack[k]
      BY <1>1, <3>1, <3>2
    <3>. QED  BY <1>3, <3>1, <3>2 DEF SamePlaces
  <2>2. st \in Seq(Frame)
    BY <1>3 DEF Retopped
  <2>. QED  BY <1>1, <2>1, <2>2, SamePlacesDue
<1>4. ASSUME stack # << >>, NEW st, NEW g, Retopped(st, g, stack), g.loop = f.loop, f.loop \notin {"update", "erase"}
      PROVE  DueOk(st, children, enabled, due, visits, root)
  BY <1>3, <1>4
<1>5. ASSUME stack # << >> PROVE f \in Frame /\ TopCursor(f, children)
  BY <1>1, <1>5 DEF CursorOk
<1>6. \A h \in LoopFrames : h.loop # "erase" /\ h.obj \in Objects /\ h.it \in -1 .. N + 1
  BY Kinds DEF LoopFrames
<1>7. ASSUME stack # << >>, NEW st, NEW g, Retopped(st, g, stack), Moved(g, f), g.it = f.it, g.back = f.back
      PROVE  DueOk(st, children, enabled, due, visits, root)
  <2>1. \A x : Comes(g, x) <=> Comes(f, x)
    BY <1>7 DEF Comes
  <2>2. g.loop = f.loop /\ g.obj = f.obj /\ f.loop # "erase" /\ f \in LoopFrames
    BY <1>6, <1>7 DEF Moved
  <2>3. CASE f.loop = "update" /\ f.it = Erased
    <3>1. Len(st) = Len(stack) /\ st[1] = g /\ \A k \in 2 .. Len(stack) : st[k] = stack[k]
      BY <1>7 DEF Retopped
    <3>2. ASSUME NEW k \in 1 .. Len(stack), k # 1 PROVE st[k] = stack[k]
      BY <1>1, <3>1, <3>2
    <3>3. SamePlaces(st, stack, children, due)
      BY <1>7, <2>2, <2>3, <3>1, <3>2 DEF SamePlaces
    <3>. QED  BY <1>1, <1>7, <3>3, SamePlacesDue DEF Retopped
  <2>4. CASE ~(f.loop = "update" /\ f.it = Erased)
    BY <1>3, <1>7, <2>1, <2>2, <2>4
  <2>. QED  BY <2>3, <2>4
<1>8. ASSUME stack # << >>, NEW g, Enters(g) PROVE Goal
  <2>1. Moved(g, f) /\ g.it = f.it /\ g.back = f.back /\ Retopped(stack', g, stack)
        /\ UNCHANGED <<children, enabled, due, visits>>
    BY <1>8 DEF Enters
  <2>. QED  BY <1>7, <1>8, <2>1
<1>9. ASSUME stack # << >>, NEW g, NEW st, NEW s, NEW m, Turns(g, st, s, m) PROVE Goal
  <2>1. Moved(g, f) /\ g.it = f.it /\ g.back = f.back /\ Retopped(st, g, stack) /\ CallBack(s, m, st) /\ st \in Seq(Frame)
    BY <1>9 DEF Turns
  <2>2. DueOk(st, children, enabled, due, visits, root)
    BY <1>7, <1>9, <2>1
  <2>. QED  BY <1>1, <2>1, <2>2, CallBackDue
<1>10. ASSUME stack # << >>, NEW g, GoesOn(g) PROVE Goal
  <2>1. /\ f \in LoopFrames /\ g \in LoopFrames /\ g.loop = f.loop /\ g.obj = f.obj /\ f.loop \in Nested
        /\ Retopped(stack', g, stack) /\ UNCHANGED <<children, enabled, due, visits>>
        /\ \/ f.it = 0 /\ g.it = After(f.obj, 0) /\ g.back = f.back
           \/ f.back /\ f.it # Erased /\ g.it = After(f.obj, f.it) /\ ~g.back
    BY <1>10 DEF GoesOn, Moved
  <2>2. (f.it = 0 => ~f.back) /\ f.obj \in Nodes /\ f.it \in -1 .. N + 1 /\ f.it # Erased
    BY <1>1, <1>5, <1>6, <1>10, <2>1 DEF TopCursor, Erased
  <2>3. /\ ~g.back /\ g.it = After(f.obj, f.it) /\ (f.it # 0 => f.back)
    BY <2>1, <2>2
  <2>4. g.it \in 1 .. N + 1 /\ (g.it # N + 1 => g.it > f.it)
        /\ \A x \in children[f.obj] : x > f.it => g.it # N + 1 /\ g.it <= x
    <3>. DEFINE a == After(f.obj, f.it)
    <3>1. /\ a \in 1 .. N + 1 /\ (a # N + 1 => a > f.it)
          /\ \A x \in children[f.obj] : x > f.it => a # N + 1 /\ a <= x
      BY <1>1, <2>2, AfterIs
    <3>2. g.it = a
      BY <2>3
    <3>. HIDE DEF a
    <3>. QED  BY <3>1, <3>2
  <2>5. ASSUME NEW x \in children[f.obj] \cap due PROVE Comes(g, x) <=> Comes(f, x)
    <3>1. x \in 1 .. N
      BY <1>1 DEF Objects
    <3>2. f.it \in 0 .. N + 1
      BY <2>2 DEF Erased
    <3>3. Comes(g, x) <=> g.it <= x
      BY <2>3, <2>4, <3>1 DEF Comes
    <3>4. Comes(f, x) <=> f.it < x
      BY <2>2, <2>3, <3>1, <3>2 DEF Comes
    <3>5. f.it < x => g.it <= x
      BY <2>4, <3>1, <3>2
    <3>6. g.it <= x => f.it < x
      BY <2>4, <3>1, <3>2
    <3>. QED  BY <3>3, <3>4, <3>5, <3>6
  <2>. QED  BY <1>3, <1>6, <1>10, <2>1, <2>2, <2>5
<1>11. ASSUME stack # << >>, NEW g, NEW st, Descends(g, st) PROVE Goal
  <2>1. /\ f \in LoopFrames /\ g.loop = f.loop /\ g.obj = f.obj /\ f.loop \in Nested /\ f.it \in Objects /\ ~f.back
        /\ g.it = f.it /\ g.back /\ st \in Seq(Frame) /\ Retopped(st, g, stack)
        /\ UNCHANGED <<children, enabled, due>>
    BY <1>11 DEF Descends, Moved
  <2>2. f.it \in 1 .. N /\ f.it # Erased
    BY <2>1 DEF Objects, Erased
  <2>3. ASSUME f.it \notin due, NEW x \in children[f.obj] \cap due PROVE Comes(g, x) <=> Comes(f, x)
    <3>1. x # f.it /\ x \in 1 .. N
      BY <1>1, <2>3 DEF Objects
    <3>. QED  BY <2>1, <2>2, <3>1 DEF Comes
  <2>4. f.it \notin due => DueOk(st, children, enabled, due, visits, root)
    BY <1>3, <1>6, <1>11, <2>1, <2>2, <2>3
  <2>5. CASE f.loop # "update"
    <3>1. DueOk(st, children, enabled, due, visits, root)
      BY <1>4, <1>6, <1>11, <2>1, <2>5
    <3>2. visits' = visits
      BY <1>11, <2>5 DEF Descends
    <3>3. CASE stack' = st
      BY <2>1, <3>1, <3>2, <3>3
    <3>4. CASE Above(stack', 1, st) /\ stack'[1] = Loop(f.loop, f.it)
      <4>1. \A k \in 1 .. 1 : stack'[k].loop \notin {"update", "erase"}
        BY <1>6, <2>1, <2>5, <3>4 DEF Loop
      <4>. QED  BY <2>1, <3>1, <3>2, <3>4, <4>1, AboveDue
    <3>. QED  BY <1>11, <3>3, <3>4 DEF Descends
  <2>6. CASE f.loop = "update" /\ stack' = st
    <3>1. f.it \notin enabled /\ visits' = visits
      <4>1. ~Above(st, 1, st)
        <5>1. Len(st) \in Nat
          BY <2>1
        <5>. QED  BY <5>1 DEF Above
      <4>. QED  BY <1>11, <2>6, <4>1 DEF Descends
    <3>. QED  BY <1>1, <2>1, <2>4, <2>6, <3>1
  <2>7. CASE f.loop = "update" /\ stack' # st
    <3>1. DueOk(stack', children, enabled, due, visits', root)
      BY <1>11, <2>4, <2>7, ChildDue
    <3>. QED  BY <2>1, <3>1
  <2>. QED  BY <2>5, <2>6, <2>7
<1>12. ASSUME stack # << >>, Returns PROVE Goal
  <2>1. f.loop = "update" => f.it = N + 1
    BY <1>12, Kinds DEF Returns, AddedFrames, Nested
  <2>2. Popped(stack', stack) /\ UNCHANGED <<children, enabled, due, visits>>
    BY <1>12 DEF Returns
  <2>. QED  BY <1>1, <2>1, <2>2, PoppedDue
<1>13. ASSUME stack # << >>, NEW st, Erases(st) PROVE Goal
  <2>1. /\ f.loop = "erase" /\ f.obj \in Nodes /\ st \in Seq(Frame) /\ Popped(st, stack)
        /\ Marked(stack', f.obj, f.child, st) /\ children' = [children EXCEPT ![f.obj] = @ \ {f.child}]
        /\ UNCHANGED <<enabled, due, visits>>
    BY <1>13 DEF Erases, EraseFrames
  <2>2. f.child \notin due
    <3>1. 1 \in 1 .. Len(stack)
      BY <1>1, <1>13
    <3>. QED  BY <2>1, <3>1 DEF DueOk, DueLoops
  <2>3. DueOk(st, children, enabled, due, visits, root)
    BY <1>1, <2>1, PoppedDue
  <2>4. DueOk(stack', children, enabled, due, visits, root)
    BY <2>1, <2>3, MarkedDue
  <2>5. stack' \in Seq(Frame)
    BY <2>1 DEF Marked
  <2>6. Shrinks(children, enabled, due, children', enabled, due, root)
    BY <1>1, <2>1, <2>2, DetachedShrinks
  <2>7. DueOk(stack', children', enabled, due, visits, root)
    BY <1>1, <2>4, <2>5, <2>6, ShrinksDue
  <2>. QED  BY <2>1, <2>7
<1>14. ASSUME stack # << >>, NEW g, NEW st, TurnsAdded(g, st) PROVE Goal
  <2>1. /\ f.loop = "added" /\ g.loop = "added" /\ Retopped(st, g, stack) /\ st \in Seq(Frame)
    BY <1>14 DEF TurnsAdded, AddedFrames
  <2>2. DueOk(st, children, enabled, due, visits, root)
    BY <1>4, <1>14, <2>1
  <2>3. CASE stack' = st /\ UNCHANGED <<children, enabled, due, visits>>
    BY <2>2, <2>3
  <2>4. ASSUME NEW m, CallBack(f.script, m, st) PROVE Goal
    BY <1>1, <2>1, <2>2, <2>4, CallBackDue
  <2>. QED  BY <1>14, <2>3, <2>4 DEF TurnsAdded
<1>15. CASE Main
  <2>1. Call(<< >>) /\ << >> \in Seq(Frame) /\ stack = << >> /\ visits' = visits
    BY <1>15 DEF Main
  <2>. HIDE DEF Main
  <2>. QED  BY <1>1, <2>1, CallDue
<1>16. ASSUME NEW o, Begins(o) PROVE \E x \in Nodes : DueOk(stack', children', enabled', due', visits', x)
  BY <1>16, BeginsDue
<1>. HIDE DEF Goal
<1>17. Goal => \E x \in Nodes : DueOk(stack', children', enabled', due', visits', x)
  BY DEF Goal
<1>. QED  BY <1>2, <1>8, <1>9, <1>10, <1>11, <1>12, <1>13, <1>14, <1>15, <1>16, <1>17, StepCases DEF Goal

\* The invariant, with the update under way
OnceInv == OrderInv /\ \E root \in Nodes : DueOk(stack, children, enabled, due, visits, root)

\* OnceInv holds in the beginning, with nothing due.
LEMMA OnceInit == Init => OnceInv
<1>. SUFFICES ASSUME Init PROVE OnceInv
  OBVIOUS
<1>1. stack = << >> /\ due = {}
  BY DEF Init
<1>2. 0 \in Nodes
  BY TreeAssumption DEF Nodes
<1>3. DueOk(stack, children, enabled, due, visits, 0)
  BY <1>1 DEF DueOk, DueBelow, Passed, DueLoops
<1>. QED  BY <1>2, <1>3, OrderInit DEF OnceInv

\* OnceInv is inductive.
LEMMA OnceNext == OnceInv /\ [Next]_vars => OnceInv'
<1>. SUFFICES ASSUME OnceInv, [Next]_vars PROVE OnceInv'
  OBVIOUS
<1>1. OrderInv /\ TypeOK /\ TreeInv /\ CursorOk(stack, children)
  BY DEF OnceInv, OrderInv, TreeInv
<1>2. PICK root \in Nodes : DueOk(stack, children, enabled, due, visits, root)
  BY DEF OnceInv
<1>3. \E o \in Nodes : DueOk(stack', children', enabled', due', visits', o)
  BY <1>1, <1>2, DueNext
<1>. QED  BY <1>1, <1>3, OrderNext DEF OnceInv

\* When no loop is left, whoever is due has had its turn: by induction along the rank.
LEMMA AllHadTurn ==
    ASSUME TypeOK, TreeInv, stack = << >>,
           NEW root \in Nodes, DueOk(stack, children, enabled, due, visits, root)
    PROVE  \A x \in due : visits[x] = 1
<1>1. PICK r \in Ranks(children) : TRUE
  BY DEF TreeInv, Acyclic
<1>2. r \in [Nodes -> Nat] /\ \A q \in Nodes : \A x \in children[q] : r[q] < r[x]
  BY <1>1 DEF Ranks
<1>3. due \subseteq Nodes
  BY DEF TypeOK, Objects, Nodes
<1>. DEFINE S == {n \in Nat : \A x \in due : r[x] < n => visits[x] = 1}
<1>4. 0 \in S
  BY <1>2, <1>3
<1>5. ASSUME NEW n \in Nat, n \in S PROVE n + 1 \in S
  <2>1. ASSUME NEW x \in due, r[x] < n + 1, x # root PROVE visits[x] = 1
    <3>1. PICK p \in due : x \in children[p]
      BY <2>1 DEF DueOk, DueBelow
    <3>2. r[p] < r[x] /\ r[p] \in Nat /\ r[x] \in Nat
      BY <1>2, <1>3, <3>1
    <3>3. visits[p] = 1
      BY <1>5, <2>1, <3>2
    <3>4. ~Lost(stack, p) /\ ~WillCome(stack, p, x)
      BY DEF Lost, WillCome
    <3>. QED  BY <3>1, <3>3, <3>4 DEF DueOk, Passed
  <2>2. root \in due => visits[root] = 1
    BY DEF DueOk, DueBelow
  <2>. QED  BY <2>1, <2>2
<1>6. Nat \subseteq S
  <2>. HIDE DEF S
  <2>. QED  BY <1>4, <1>5, SetInduction
<1>. SUFFICES ASSUME NEW x \in due PROVE visits[x] = 1
  OBVIOUS
<1>7. r[x] + 1 \in Nat /\ r[x] < r[x] + 1
  BY <1>2, <1>3
<1>8. r[x] + 1 \in S
  BY <1>6, <1>7
<1>. QED  BY <1>7, <1>8

\* Whatever the callbacks do to the tree: an update has come once to each object that was there and enabled
\* when it began, and that no callback removed, disabled or added elsewhere.
THEOREM EachUpdatedOnceHolds == Spec => []EachUpdatedOnce
<1>1. OnceInv => EachUpdatedOnce
  <2>. SUFFICES ASSUME OnceInv PROVE EachUpdatedOnce
    OBVIOUS
  <2>1. TypeOK /\ TreeInv
    BY DEF OnceInv, OrderInv, TreeInv
  <2>2. PICK root \in Nodes : DueOk(stack, children, enabled, due, visits, root)
    BY DEF OnceInv
  <2>3. \A x \in due : visits[x] <= 1
    BY <2>2 DEF DueOk, DueBelow
  <2>. QED  BY <2>1, <2>2, <2>3, AllHadTurn DEF EachUpdatedOnce
<1>. QED  BY <1>1, OnceInit, OnceNext, PTL DEF Spec
=================================================================================
