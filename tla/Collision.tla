------------------------------- MODULE Collision -------------------------------
(***************************************************************************)
(* Collider and RigidBody (p2d.hpp:1411-1658), and the collision handler   *)
(* of Application::start() that runs them (p2d.hpp:2568-2601): one pass of *)
(* it, from any state that the frames before may have left.                *)
(*                                                                         *)
(* Objects lie on a line, at whole positions; a polygon is a tall box,     *)
(* whose upper and lower edges are out of reach.  What the quadtree finds  *)
(* near a body is any set of objects, in any order: QuadTree is not in the *)
(* repository, and it holds the positions of the last refresh.             *)
(***************************************************************************)
EXTENDS Integers, Sequences, FiniteSets, FiniteSetsExt

LOCAL INSTANCE SequencesExt  \* SetToSeqs

CONSTANTS Circles, Polys, \* the objects with a Collider, by its Type
          Bodies,         \* those with a RigidBody as well: _isStatic is false
          Radius,         \* Circle -> Radius
          HalfWidth,      \* Poly -> the distance of its edges from its centre
          Places,         \* where objects are when the pass begins
          One             \* 1.f: halved at each step, it must stay whole

Objects == Circles \cup Polys

ASSUME CollisionAssumption ==
    /\ Circles \cap Polys = {} /\ Bodies \subseteq Objects /\ IsFiniteSet(Objects)
    /\ Radius \in [Circles -> Nat] /\ HalfWidth \in [Polys -> Nat]
    /\ Places \subseteq Int /\ One \in Nat \ {0}

VARIABLES position,    \* object -> transform->position, with Centre
          lost,        \* the objects whose position is NaN
          IsColliding, \* the objects whose IsColliding is true
          simulated,   \* gameObjectsSimulated
          rbs,         \* the bodies whose turn has not ended
          others,      \* what is left of the colliders near the first of them
          pass,        \* where the handler is
          start,       \* the positions when it began
          pairs        \* the pairs it has found to collide

turn == <<simulated, rbs, others, pass, start>>
vars == <<position, lost, IsColliding, turn, pairs>>

Init ==
    /\ position \in [Objects -> Places]
    /\ lost = {}
    /\ IsColliding \in SUBSET Objects
    /\ simulated = {} /\ rbs = << >> /\ others = {}
    /\ pass = "before"
    /\ start = position /\ pairs = {}

NaN == 2 \* an axis that is none

Abs(x)  == IF x < 0 THEN -x ELSE x
Sign(x) == IF x < 0 THEN -1 ELSE IF x = 0 THEN 0 ELSE 1

-----------------------------------------------------------------------------
(* Faulty variants.  No specification uses them: each takes the place of the  *)
(* definition it is named after, to see that a property notices.              *)

\* every object in range that has a Collider takes a turn
BeginPass_AllColliders ==
    /\ pass = "before"
    /\ \E S \in SUBSET Objects :
          /\ simulated' = S /\ IsColliding' = IsColliding \ S
          /\ rbs' \in SetToSeqs(S)
    /\ pass' = IF rbs' = << >> THEN "after" ELSE "bodies"
    /\ UNCHANGED <<position, lost, others, start, pairs>>

\* the flag is reset when the body's turn comes
NextBody_ResetsFlag ==
    /\ pass = "bodies" /\ rbs # << >>
    /\ others' \in SUBSET Objects
    /\ IsColliding' = IsColliding \ {Head(rbs)}
    /\ pass' = "others"
    /\ UNCHANGED <<position, lost, simulated, rbs, start, pairs>>

\* a body that meets a static collider takes its half only
Halves_Always(a, b) == <<1, 1>>

\* the whole overlap for both
Halves_Whole(a, b) == IF a \in Bodies /\ b \in Bodies THEN <<2, 1>>
                      ELSE IF a \in Bodies THEN <<2, 0>> ELSE <<0, 2>>

\* the other way
CircleVsCircle_Reversed(a, b) ==
    LET d == Abs(position[a] - position[b])
        minDst == Radius[a] + Radius[b]
    IN  IF a \notin lost /\ b \notin lost /\ d < minDst /\ d # 0
        THEN {[axis |-> Sign(position[b] - position[a]), overlap |-> minDst - d + One]}
        ELSE {}

-----------------------------------------------------------------------------
(* Collider::resolve(): the collisions that may be found, none or one *)

\* Two circles.  Those with one centre do not collide.
CircleVsCircle(a, b) ==
    LET d == Abs(position[a] - position[b])
        minDst == Radius[a] + Radius[b]
    IN  IF a \notin lost /\ b \notin lost /\ d < minDst /\ d # 0
        THEN {[axis |-> Sign(position[a] - position[b]), overlap |-> minDst - d + One]}
        ELSE {}

Edges(p) == {position[p] - HalfWidth[p], position[p] + HalfWidth[p]}

\* A circle and a polygon: the edge that reaches deepest into the circle, the first
\* of them when they are two.  The search begins at -0xFFFFFFFF, which is 1, so that
\* a circle that no edge reaches collides too, and is not moved.  The axis is that
\* from the edge to the centre, and 0/0 when that is on the edge.
circleVsPoly(c, p) ==
    LET reach == {e \in Edges(p) : Abs(position[c] - e) < Radius[c]}
        deepest == {e \in reach : \A f \in reach : Abs(position[c] - e) <= Abs(position[c] - f)}
    IN  IF c \in lost \/ p \in lost \/ reach = {}
        THEN {[axis |-> 0, overlap |-> One]}
        ELSE {[axis |-> IF e = position[c] THEN NaN ELSE Sign(position[c] - e),
               overlap |-> Radius[c] - Abs(position[c] - e) + One] : e \in deepest}

resolve(a, b) ==
    CASE a \in Circles /\ b \in Circles -> CircleVsCircle(a, b)
      [] a \in Circles /\ b \in Polys   -> circleVsPoly(a, b)
      [] a \in Polys /\ b \in Circles   -> circleVsPoly(b, a)

\* How many halves of the overlap a and b give way
Halves(a, b) ==
    CASE a \notin Bodies /\ b \notin Bodies -> <<0, 0>>
      [] a \notin Bodies /\ b \in Bodies    -> <<0, 2>>
      [] a \in Bodies /\ b \notin Bodies    -> <<2, 0>>
      [] a \in Bodies /\ b \in Bodies       -> <<1, 1>>

\* Collider::_resolve(): a gives way along the axis, b against it
Give(a, b, c) ==
    LET h == Halves(a, b)
        movers == {o \in {a, b} : h[IF o = a THEN 1 ELSE 2] # 0}
    IN  /\ IsColliding' = IsColliding \cup {a, b}
        /\ pairs' = pairs \cup {{a, b}}
        /\ IF c.axis = NaN
           THEN lost' = lost \cup movers /\ UNCHANGED position
           ELSE /\ position' = [position EXCEPT
                                  ![a] = @ + (c.axis * c.overlap * h[1]) \div 2,
                                  ![b] = @ - (c.axis * c.overlap * h[2]) \div 2]
                /\ UNCHANGED lost

-----------------------------------------------------------------------------
(* The collision handler *)

\* The first loop: the flags, and the bodies
BeginPass ==
    /\ pass = "before"
    /\ \E S \in SUBSET Objects :
          /\ simulated' = S
          /\ IsColliding' = IsColliding \ S
          /\ rbs' \in SetToSeqs(S \cap Bodies)
    /\ pass' = IF rbs' = << >> THEN "after" ELSE "bodies"
    /\ UNCHANGED <<position, lost, others, start, pairs>>

\* queryRange() around the next body
NextBody ==
    /\ pass = "bodies" /\ rbs # << >>
    /\ others' \in SUBSET Objects
    /\ pass' = "others"
    /\ UNCHANGED <<position, lost, IsColliding, simulated, rbs, start, pairs>>

\* One round of RigidBody::_checkCollisions().  resolve() of two polygons comes to
\* its end without a return.
Check(b) ==
    /\ pass = "others" /\ b \in others
    /\ others' = others \ {b}
    /\ LET a == Head(rbs)
       IN  \/ /\ a # b /\ {a, b} \subseteq Polys
              /\ pass' = "undefined"
              /\ UNCHANGED <<position, lost, IsColliding, pairs>>
           \/ /\ a # b /\ ~({a, b} \subseteq Polys)
              /\ \E c \in resolve(a, b) : Give(a, b, c)
              /\ UNCHANGED pass
           \/ /\ a = b \/ (~({a, b} \subseteq Polys) /\ resolve(a, b) = {})
              /\ UNCHANGED <<position, lost, IsColliding, pairs, pass>>
    /\ UNCHANGED <<simulated, rbs, start>>

EndBody ==
    /\ pass = "others" /\ others = {}
    /\ rbs' = Tail(rbs)
    /\ pass' = IF Tail(rbs) = << >> THEN "after" ELSE "bodies"
    /\ UNCHANGED <<position, lost, IsColliding, simulated, others, start, pairs>>

Next == BeginPass \/ NextBody \/ EndBody \/ \E b \in Objects : Check(b)

Spec == Init /\ [][Next]_vars

-----------------------------------------------------------------------------
(* Properties *)

TypeOK ==
    /\ position \in [Objects -> Int] /\ start \in [Objects -> Places]
    /\ lost \subseteq Objects /\ IsColliding \subseteq Objects /\ simulated \subseteq Objects
    /\ rbs \in Seq(Bodies) /\ others \subseteq Objects
    /\ pass \in {"before", "bodies", "others", "after", "undefined"}
    /\ pairs \subseteq SUBSET Objects

Met == UNION pairs

\* What IsColliding says of an object in range, once the pass is over, is whether it
\* has been in a collision of this pass, with whichever body found it, before its
\* own turn or after.
FlagsOfThisPass == pass = "after" => IsColliding \cap simulated = Met \cap simulated

\* A collider without a RigidBody is never moved, nor lost, whatever meets it.
StaticsStay == \A o \in Objects \ Bodies : position[o] = start[o] /\ o \notin lost

\* Among bodies alone, what one gives way the other does too: however the pushes
\* follow each other, the centre of all bodies stays where it was.
CentreStays ==
    /\ TypeOK
    /\ (Met \subseteq Bodies /\ lost = {}) =>
        MapThenSumSet(LAMBDA o : position[o], Bodies)
            = MapThenSumSet(LAMBDA o : start[o], Bodies)

\* When two circles are the only ones that were found to collide, the pass leaves
\* them apart.
LonePairParts ==
    pass = "after" =>
        \A a, b \in Circles :
            pairs = {{a, b}} => Abs(position[a] - position[b]) >= Radius[a] + Radius[b]
=============================================================================
