------------------------------ MODULE Recursion ------------------------------
(***************************************************************************)
(* Induction over the natural numbers, and functions defined by recursion  *)
(* over them.  The induction hypothesis is a set, not an operator: what    *)
(* the library's induction theorems say of a formula is read off the       *)
(* well-foundedness of < instead.                                          *)
(***************************************************************************)
EXTENDS Integers, WellFoundedInduction, TLAPS

LEMMA SetInduction ==
  ASSUME NEW T, 0 \in T, \A n \in Nat : n \in T => n + 1 \in T
  PROVE  Nat \subseteq T
<1> SUFFICES ASSUME Nat \ T # {} PROVE FALSE
  OBVIOUS
<1>1. PICK x \in Nat \ T : \A y \in Nat \ T : <<y, x>> \notin OpToRel(<, Nat)
  <2> HIDE DEF OpToRel
  <2>1. \E x \in Nat \ T : \A y \in Nat \ T : ~ (<<y, x>> \in OpToRel(<, Nat))
    BY NatLessThanWellFounded, WFMin
  <2> QED BY <2>1
<1>2. x \in Nat /\ x # 0 /\ x - 1 \in Nat /\ x - 1 \notin T
  <2>1. x # 0
    OBVIOUS
  <2>2. x - 1 \in Nat
    BY <2>1
  <2>3. x - 1 \in T => (x - 1) + 1 \in T
    BY <2>2
  <2> QED BY <2>1, <2>2, <2>3
<1>3. <<x - 1, x>> \in OpToRel(<, Nat)
  BY <1>2 DEF OpToRel
<1> QED BY <1>1, <1>2, <1>3

(* Every set of natural numbers that has a member has a least one.           *)
LEMMA LeastExists ==
  ASSUME NEW S \in SUBSET Nat, S # {}
  PROVE  \E s \in S : \A x \in S : s <= x
<1>1. PICK s \in S : \A x \in S : ~ (<<x, s>> \in OpToRel(<, Nat))
  <2> HIDE DEF OpToRel
  <2> QED BY NatLessThanWellFounded, WFMin
<1>2. \A x \in S : ~ (x < s)
  BY <1>1 DEF OpToRel
<1> QED BY <1>2

(* The same up to a bound.                                                   *)
LEMMA SetInductionUpTo ==
  ASSUME NEW m \in Nat, NEW T, 0 \in T, \A n \in 0 .. m - 1 : n \in T => n + 1 \in T
  PROVE  0 .. m \subseteq T
<1> DEFINE B == { n \in Nat : n <= m => n \in T }
<1>1. 0 \in B
  OBVIOUS
<1>2. ASSUME NEW n \in Nat, n \in B PROVE n + 1 \in B
  <2> SUFFICES ASSUME n + 1 <= m PROVE n + 1 \in T
    OBVIOUS
  <2>1. n \in 0 .. m - 1 /\ n \in T
    BY <1>2
  <2> QED BY <2>1
<1>3. Nat \subseteq B
  <2> HIDE DEF B
  <2> QED BY <1>1, <1>2, SetInduction
<1> QED BY <1>3

-----------------------------------------------------------------------------
(* g follows step from a for m steps.                                        *)
Follows(g, m, a, step) ==
  g[0] = a /\ \A i \in 0 .. m - 1 : g[i + 1] = step[<<i, g[i]>>]

(* Two functions that follow step agree as long as both do.                  *)
LEMMA FollowsUnique ==
  ASSUME NEW a, NEW step, NEW m \in Nat, NEW g, NEW h,
         Follows(g, m, a, step), Follows(h, m, a, step)
  PROVE  \A i \in 0 .. m : g[i] = h[i]
<1> DEFINE T == { i \in Nat : g[i] = h[i] }
<1>1. 0 \in T
  BY DEF Follows
<1>2. ASSUME NEW i \in 0 .. m - 1, i \in T PROVE i + 1 \in T
  <2>1. g[i] = h[i] /\ i + 1 \in Nat
    BY <1>2
  <2>2. g[i + 1] = step[<<i, g[i]>>] /\ h[i + 1] = step[<<i, h[i]>>]
    BY DEF Follows
  <2>3. g[i + 1] = h[i + 1]
    BY <2>1, <2>2
  <2> QED BY <2>1, <2>3
<1>3. 0 .. m \subseteq T
  <2> HIDE DEF T
  <2> QED BY <1>1, <1>2, SetInductionUpTo
<1> QED BY <1>3

(* For any number of steps there is a function that follows them.            *)
LEMMA FollowsUpTo ==
  ASSUME NEW X, NEW a \in X, NEW step \in [Nat \X X -> X], NEW m \in Nat
  PROVE  \E g \in [0 .. m -> X] : Follows(g, m, a, step)
<1> DEFINE T == { n \in Nat : \E g \in [0 .. n -> X] : Follows(g, n, a, step) }
<1>1. 0 \in T
  <2>1. [i \in 0 .. 0 |-> a] \in [0 .. 0 -> X] /\ Follows([i \in 0 .. 0 |-> a], 0, a, step)
    BY DEF Follows
  <2> QED BY <2>1
<1>2. ASSUME NEW n \in Nat, n \in T PROVE n + 1 \in T
  <2>1. PICK g \in [0 .. n -> X] : Follows(g, n, a, step)
    BY <1>2
  <2> DEFINE h == [i \in 0 .. n + 1 |-> IF i = n + 1 THEN step[<<n, g[n]>>] ELSE g[i]]
  <2>2. g[n] \in X /\ step[<<n, g[n]>>] \in X
    OBVIOUS
  <2>3. h \in [0 .. n + 1 -> X]
    BY <2>2
  <2>4. h[0] = a
    BY <2>1 DEF Follows
  <2>5. ASSUME NEW i \in 0 .. (n + 1) - 1 PROVE h[i + 1] = step[<<i, h[i]>>]
    <3>1. h[i] = g[i]
      OBVIOUS
    <3>2. CASE i = n
      <4>1. h[n + 1] = step[<<n, g[n]>>]
        OBVIOUS
      <4> QED BY <3>1, <3>2, <4>1
    <3>3. CASE i # n
      <4>1. i \in 0 .. n - 1 /\ h[i + 1] = g[i + 1]
        BY <3>3
      <4> QED BY <2>1, <3>1, <4>1 DEF Follows
    <3> QED BY <3>2, <3>3
  <2> HIDE DEF h
  <2> QED BY <2>3, <2>4, <2>5 DEF Follows
<1>3. Nat \subseteq T
  <2> HIDE DEF T
  <2> QED BY <1>1, <1>2, SetInduction
<1> QED BY <1>3

(* A function defined by recursion exists.                                   *)
Recurs(g, X, a, step) ==
  /\ g \in [Nat -> X]
  /\ g[0] = a
  /\ \A i \in Nat : g[i + 1] = step[<<i, g[i]>>]

LEMMA NatRecursion ==
  ASSUME NEW X, NEW a \in X, NEW step \in [Nat \X X -> X]
  PROVE  \E g : Recurs(g, X, a, step)
<1> DEFINE F(m) == CHOOSE g : g \in [0 .. m -> X] /\ Follows(g, m, a, step)
           f == [m \in Nat |-> F(m)[m]]
<1>1. ASSUME NEW m \in Nat PROVE F(m) \in [0 .. m -> X] /\ Follows(F(m), m, a, step)
  <2>1. \E g : g \in [0 .. m -> X] /\ Follows(g, m, a, step)
    BY FollowsUpTo
  <2> QED BY <2>1
<1> HIDE DEF F
<1>2. f \in [Nat -> X]
  BY <1>1
<1>3. f[0] = a
  BY <1>1 DEF Follows
<1>4. ASSUME NEW i \in Nat PROVE f[i + 1] = step[<<i, f[i]>>]
  <2>1. Follows(F(i + 1), i, a, step)
    BY <1>1 DEF Follows
  <2>2. F(i + 1)[i] = F(i)[i]
    <3>1. \A j \in 0 .. i : F(i + 1)[j] = F(i)[j]
      BY <1>1, <2>1, FollowsUnique
    <3> QED BY <3>1
  <2>3. F(i + 1)[i + 1] = step[<<i, F(i + 1)[i]>>]
    BY <1>1 DEF Follows
  <2> QED BY <2>2, <2>3
<1> HIDE DEF f
<1> QED BY <1>2, <1>3, <1>4 DEF Recurs
=============================================================================
