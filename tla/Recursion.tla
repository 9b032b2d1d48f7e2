-------------------------------- MODULE Recursion --------------------------------
(***************************************************************************)
(* Lemmas for functions that are defined by recursion over 0 .. n: that    *)
(* there is such a function, and induction over its arguments.  They speak *)
(* of sets where the library's induction theorems speak of operators.      *)
(***************************************************************************)
EXTENDS Integers, NaturalsInduction, WellFoundedInduction, TLAPS

\* A set that holds 0 and the successor of each number in it holds every number.
LEMMA SetInduction ==
    ASSUME NEW S, 0 \in S, \A n \in Nat : n \in S => n + 1 \in S
    PROVE  Nat \subseteq S
<1>1. SUFFICES ASSUME Nat \ S # {} PROVE FALSE
  OBVIOUS
<1>2. PICK x \in Nat \ S : \A y \in Nat \ S : ~(<<y, x>> \in OpToRel(<, Nat))
  BY <1>1, NatLessThanWellFounded, WFMin
<1>3. \A y \in Nat \ S : ~(y < x)
  BY <1>2 DEF OpToRel
<1>. QED  BY <1>3

\* The same up to n.
LEMMA InductionTo ==
    ASSUME NEW n \in Nat, NEW S, 0 \in S, \A i \in 1 .. n : i - 1 \in S => i \in S
    PROVE  0 .. n \subseteq S
<1>. DEFINE T == {m \in Nat : m <= n => m \in S}
<1>1. 0 \in T
  OBVIOUS
<1>2. ASSUME NEW m \in Nat, m \in T PROVE m + 1 \in T
  <2>1. CASE m + 1 <= n
    <3>1. m \in S /\ m + 1 \in 1 .. n /\ (m + 1) - 1 = m
      BY <1>2, <2>1
    <3>. QED  BY <3>1
  <2>2. CASE ~(m + 1 <= n)
    BY <2>2
  <2>. QED  BY <2>1, <2>2
<1>3. Nat \subseteq T
  <2>. HIDE DEF T
  <2>. QED  BY <1>1, <1>2, SetInduction
<1>. QED  BY <1>3

\* f begins with a and goes on by the steps of g, up to n.
IsRecursion(f, n, a, g) == f[0] = a /\ \A k \in 1 .. n : f[k] = g[k][f[k - 1]]

\* There is such a function.
LEMMA RecursiveFunction ==
    ASSUME NEW S, NEW n \in Nat, NEW a \in S, NEW g \in [1 .. n -> [S -> S]]
    PROVE  \E f \in [0 .. n -> S] : IsRecursion(f, n, a, g)
<1>. DEFINE P(m, f) == IsRecursion(f, m, a, g)
            T == {m \in Nat : m <= n => \E f \in [0 .. m -> S] : P(m, f)}
<1>1. 0 \in T
  <2>1. [i \in 0 .. 0 |-> a] \in [0 .. 0 -> S] /\ P(0, [i \in 0 .. 0 |-> a])
    BY DEF IsRecursion
  <2>. QED  BY <2>1
<1>2. ASSUME NEW m \in Nat, m \in T PROVE m + 1 \in T
  <2>1. SUFFICES ASSUME m + 1 <= n PROVE \E f \in [0 .. (m + 1) -> S] : P(m + 1, f)
    OBVIOUS
  <2>2. PICK f \in [0 .. m -> S] : P(m, f)
    BY <1>2, <2>1
  <2>. DEFINE h == [i \in 0 .. (m + 1) |-> IF i <= m THEN f[i] ELSE g[m + 1][f[m]]]
  <2>3. m + 1 \in 1 .. n /\ m \in 0 .. m
    BY <2>1
  <2>4. g[m + 1][f[m]] \in S
    BY <2>3
  <2>5. h \in [0 .. (m + 1) -> S]
    BY <2>4
  <2>6. \A k \in 1 .. (m + 1) : h[k] = g[k][h[k - 1]]
    <3>. TAKE k \in 1 .. (m + 1)
    <3>1. CASE k <= m
      BY <3>1, <2>2 DEF IsRecursion
    <3>2. CASE k = m + 1
      BY <3>2, <2>2 DEF IsRecursion
    <3>. QED  BY <3>1, <3>2
  <2>7. h[0] = a
    BY <2>2 DEF IsRecursion
  <2>. QED  BY <2>5, <2>6, <2>7 DEF IsRecursion
<1>3. n \in T
  <2>. HIDE DEF T
  <2>. QED  BY <1>1, <1>2, SetInduction
<1>. QED  BY <1>3
==================================================================================
