-------------------------- MODULE InputOrderProofs --------------------------
(***************************************************************************)
(* The order of inputs, for every number of names and every choice of U and *)
(* V.  The swaps put exactly the wanted inputs below a border, whatever     *)
(* pairs they form; two of them leave the inactive inputs, v and u in this  *)
(* order, and Leq_EliminateVar counts with the same borders.  As many       *)
(* inputs are out of place below a border as above it, so that the swaps    *)
(* come out even, and the numbers of the rows run through every choice of   *)
(* values for the inputs a row has.                                         *)
(***************************************************************************)
EXTENDS InputOrder, FiniteSetTheorems, Recursion

(* What the two calls of Leq_InputProgressive2 leave: the inactive inputs    *)
(* below the first border, u and nothing else above both borders.            *)
Placed(p, inact, u) ==
  \A x \in Pos :
    /\ p[x] \in inact <=> x < Cardinality(inact)
    /\ x >= Cardinality(inact) => (p[x] \in u <=> x >= PiNum - Cardinality(u))
Ordered == Placed(vPis, mInact, sU)

Given == pc = "support" => mAct = Name /\ mInact = {} /\ sDc = {}
Hidden == pc \in {"start", "eliminate", "addCheck", "check", "done"} =>
            mInact = Name \ (sU \cup sV)

IInv ==
  /\ TypeOK /\ Given /\ Hidden
  /\ pc = "eliminate" => Ordered
  /\ EliminatedInOrder /\ QuantifiedByName
  /\ WrittenAsSimulated /\ StopsOnlyForNames

-----------------------------------------------------------------------------
LEMMA PosType == PiNum \in Nat /\ Pos \subseteq Nat
BY FS_CardinalityType, NameAssumption DEF PiNum, Pos

LEMMA SizeType ==
  ASSUME NEW S \in SUBSET (Name \cup Unknown)
  PROVE  Cardinality(S) \in Nat
<1>1. IsFiniteSet(Name \cup Unknown)
  BY FS_Union, NameAssumption, UnknownAssumption
<1> QED BY <1>1, FS_Subset, FS_CardinalityType

LEMMA PosFinite == \A S \in SUBSET Pos : IsFiniteSet(S) /\ Cardinality(S) \in Nat
<1>1. 0 \in Int /\ PiNum - 1 \in Int
  BY PosType
<1>2. IsFiniteSet(Pos)
  BY <1>1, FS_Interval DEF Pos
<1> QED BY <1>2, FS_Subset, FS_CardinalityType

LEMMA SegmentSize ==
  ASSUME NEW a \in Nat, NEW b \in Nat, a <= b, b <= PiNum
  PROVE  a .. b - 1 \in SUBSET Pos /\ Cardinality(a .. b - 1) = b - a
<1>1. a \in Int /\ b - 1 \in Int /\ PiNum \in Nat
  BY PosType
<1>2. Cardinality(a .. b - 1) = IF a > b - 1 THEN 0 ELSE (b - 1) - a + 1
  BY <1>1, FS_Interval
<1>3. a .. b - 1 \subseteq Pos
  BY <1>1 DEF Pos
<1> QED BY <1>2, <1>3

(* Two finite sets of positions of one size can be paired, least with least. *)
LEMMA PairingsExist ==
  ASSUME NEW A \in SUBSET Pos, NEW B \in SUBSET Pos, Cardinality(A) = Cardinality(B)
  PROVE  Pairings(A, B) # {}
<1> DEFINE T == { n \in Nat : \A C, D \in SUBSET Pos :
                    Cardinality(C) = n /\ Cardinality(D) = n => Pairings(C, D) # {} }
<1>1. \A C \in SUBSET Pos : IsFiniteSet(C) /\ Cardinality(C) \in Nat
  BY PosFinite
<1>2. 0 \in T
  <2> SUFFICES ASSUME NEW C \in SUBSET Pos, NEW D \in SUBSET Pos,
                      Cardinality(C) = 0, Cardinality(D) = 0
               PROVE  Pairings(C, D) # {}
    OBVIOUS
  <2>1. C = {} /\ D = {}
    BY <1>1, FS_EmptySet
  <2>2. [x \in {} |-> x] \in Pairings(C, D)
    BY <2>1 DEF Pairings
  <2> QED BY <2>2
<1>3. ASSUME NEW n \in Nat, n \in T PROVE n + 1 \in T
  <2> SUFFICES ASSUME NEW C \in SUBSET Pos, NEW D \in SUBSET Pos,
                      Cardinality(C) = n + 1, Cardinality(D) = n + 1
               PROVE  Pairings(C, D) # {}
    OBVIOUS
  <2>1. PICK c \in C : \A x \in C : c <= x
    BY <1>1, FS_EmptySet, LeastExists, PosType
  <2>2. PICK d \in D : \A x \in D : d <= x
    BY <1>1, FS_EmptySet, LeastExists, PosType
  <2>3. Cardinality(C \ {c}) = n /\ Cardinality(D \ {d}) = n
    <3>1. IsFiniteSet(C) /\ IsFiniteSet(D)
      BY <1>1
    <3>2. /\ Cardinality(C \ {c}) = Cardinality(C) - 1
          /\ Cardinality(D \ {d}) = Cardinality(D) - 1
      BY <3>1, FS_RemoveElement
    <3> QED BY <3>2
  <2>4. PICK f : f \in Pairings(C \ {c}, D \ {d})
    <3>1. C \ {c} \in SUBSET Pos /\ D \ {d} \in SUBSET Pos
      OBVIOUS
    <3> QED BY <1>3, <2>3, <3>1
  <2>5. /\ f \in [C \ {c} -> D \ {d}]
        /\ \A x, y \in C \ {c} : x < y => f[x] < f[y]
        /\ \A y \in D \ {d} : \E x \in C \ {c} : f[x] = y
    BY <2>4 DEF Pairings
  <2> DEFINE g == [x \in C |-> IF x = c THEN d ELSE f[x]]
  <2>6. g \in [C -> D]
    BY <2>5
  <2>7. ASSUME NEW x \in C, NEW y \in C, x < y PROVE g[x] < g[y]
    <3>1. x \in Nat /\ y \in Nat /\ c \in Nat /\ d \in Nat /\ D \subseteq Nat
      BY PosType
    <3>2. y # c
      BY <2>1, <2>7, <3>1
    <3>3. g[y] = f[y] /\ f[y] \in D \ {d} /\ f[y] \in Nat
      BY <2>5, <3>1, <3>2
    <3>4. CASE x = c
      BY <2>2, <3>1, <3>3, <3>4
    <3>5. CASE x # c
      BY <2>5, <2>7, <3>2, <3>3, <3>5
    <3> QED BY <3>4, <3>5
  <2>8. ASSUME NEW y \in D PROVE \E x \in C : g[x] = y
    BY <2>5
  <2> HIDE DEF g
  <2> QED BY <2>6, <2>7, <2>8 DEF Pairings
<1>4. Nat \subseteq T
  <2> HIDE DEF T
  <2> QED BY <1>2, <1>3, SetInduction
<1> QED BY <1>1, <1>4

(* The positions that hold given inputs are as many as the inputs.           *)
Places(p, s) == { x \in Pos : p[x] \in s }

LEMMA PlacesNumber ==
  ASSUME NEW p \in Orders, NEW s \in SUBSET Name
  PROVE  Places(p, s) \in SUBSET Pos /\ Cardinality(Places(p, s)) = Cardinality(s)
<1> DEFINE f == [x \in Places(p, s) |-> p[x]]
<1>1. /\ p \in [Pos -> Name]
      /\ \A x, y \in Pos : p[x] = p[y] => x = y
      /\ \A n \in Name : \E x \in Pos : p[x] = n
  BY DEF Orders
<1>2. Places(p, s) \in SUBSET Pos
  BY DEF Places
<1>3. f \in Injection(Places(p, s), s)
  BY <1>1 DEF Places, Injection, IsInjective
<1>4. f \in Surjection(Places(p, s), s)
  BY <1>1 DEF Places, Surjection
<1>5. ExistsBijection(Places(p, s), s)
  BY <1>3, <1>4 DEF ExistsBijection, Bijection
<1>6. IsFiniteSet(Places(p, s))
  BY <1>2, PosFinite
<1> QED BY <1>2, <1>5, <1>6, FS_Bijection

(* Of two sets of positions of one size, as many are in the first alone as   *)
(* in the second alone.                                                      *)
LEMMA OutOfPlace ==
  ASSUME NEW S \in SUBSET Pos, NEW T \in SUBSET Pos, Cardinality(S) = Cardinality(T)
  PROVE  Cardinality(S \ T) = Cardinality(T \ S) /\ Pairings(S \ T, T \ S) # {}
<1>1. IsFiniteSet(S) /\ IsFiniteSet(T)
  BY PosFinite
<1>2. /\ Cardinality(S \ T) = Cardinality(S) - Cardinality(S \cap T)
      /\ Cardinality(T \ S) = Cardinality(T) - Cardinality(T \cap S)
  BY <1>1, FS_Difference
<1>3. S \cap T = T \cap S
  OBVIOUS
<1>4. Cardinality(S \ T) = Cardinality(T \ S)
  BY <1>2, <1>3
<1>5. S \ T \in SUBSET Pos /\ T \ S \in SUBSET Pos
  OBVIOUS
<1> QED BY <1>4, <1>5, PairingsExist

(* assert(vpActPi.size()==vpInactPi.size()) never fails (leqBa.cpp:750).     *)
LEMMA ReordersExist ==
  ASSUME NEW p \in Orders, NEW inact \in SUBSET Name
  PROVE  Reorders(p, inact) # {}
<1> DEFINE S == 0 .. Cardinality(inact) - 1
           T == Places(p, inact)
<1>1. /\ Cardinality(inact) \in Nat /\ Cardinality(inact) <= PiNum /\ PiNum \in Nat
      /\ Pos = 0 .. PiNum - 1
  BY SizeType, PosType, FS_Subset, NameAssumption DEF PiNum, Pos
<1>2. S \in SUBSET Pos /\ Cardinality(S) = Cardinality(inact)
  BY <1>1, SegmentSize
<1>3. T \in SUBSET Pos /\ Cardinality(T) = Cardinality(inact)
  BY PlacesNumber
<1>4. ActBefore(p, inact) = S \ T /\ InactAfter(p, inact) = T \ S
  BY <1>1 DEF ActBefore, InactAfter, Places
<1> HIDE DEF S, T
<1>5. /\ Cardinality(ActBefore(p, inact)) = Cardinality(InactAfter(p, inact))
      /\ Pairings(ActBefore(p, inact), InactAfter(p, inact)) # {}
  BY <1>2, <1>3, <1>4, OutOfPlace
<1> QED BY <1>5 DEF Reorders

(* assert(vpVPi.size()==vpUPi.size()) never fails for names the circuit has  *)
(* (leqBa.cpp:821).                                                          *)
LEMMA ReordersUExist ==
  ASSUME NEW p \in Orders, NEW inact \in SUBSET Name, NEW u \in SUBSET Name,
         u \cap inact = {},
         \A x \in Pos : p[x] \in inact <=> x < Cardinality(inact)
  PROVE  ReordersU(p, inact, u) # {}
<1> DEFINE S == PiNum - Cardinality(u) .. PiNum - 1
           T == Places(p, u)
<1>1. /\ Cardinality(inact) \in Nat /\ Cardinality(u) \in Nat /\ PiNum \in Nat
      /\ Pos = 0 .. PiNum - 1
  BY SizeType, PosType DEF Pos
<1>2. Cardinality(inact) + Cardinality(u) <= PiNum
  <2>1. IsFiniteSet(inact) /\ IsFiniteSet(u) /\ inact \cup u \in SUBSET Name
    BY FS_Subset, NameAssumption
  <2>2. inact \cap u = {}
    OBVIOUS
  <2>3. Cardinality(inact \cup u) = Cardinality(inact) + Cardinality(u)
    <3>1. Cardinality(inact \cup u) =
            Cardinality(inact) + Cardinality(u) - Cardinality(inact \cap u)
      BY <2>1, FS_Union
    <3>2. Cardinality(inact \cap u) = 0
      BY <2>2, FS_EmptySet
    <3> QED BY <1>1, <3>1, <3>2
  <2>4. Cardinality(inact \cup u) <= PiNum
    BY <2>1, FS_Subset, NameAssumption DEF PiNum
  <2> QED BY <2>3, <2>4
<1>3. S \in SUBSET Pos /\ Cardinality(S) = Cardinality(u)
  <2>1. /\ PiNum - Cardinality(u) \in Nat /\ PiNum - Cardinality(u) <= PiNum
        /\ PiNum - (PiNum - Cardinality(u)) = Cardinality(u)
    BY <1>1, <1>2
  <2> QED BY <1>1, <2>1, SegmentSize
<1>4. T \in SUBSET Pos /\ Cardinality(T) = Cardinality(u)
  BY PlacesNumber
<1>5. \A x \in T : x >= Cardinality(inact)
  BY <1>1 DEF Places
<1>6. UBefore(p, inact, u) = T \ S /\ NotUAfter(p, inact, u) = S \ T
  BY <1>1, <1>2, <1>5 DEF UBefore, NotUAfter, Places
<1> HIDE DEF S, T
<1>7. /\ Cardinality(UBefore(p, inact, u)) = Cardinality(NotUAfter(p, inact, u))
      /\ Pairings(UBefore(p, inact, u), NotUAfter(p, inact, u)) # {}
  BY <1>3, <1>4, <1>6, OutOfPlace
<1> QED BY <1>7 DEF ReordersU

-----------------------------------------------------------------------------
LEMMA TwoExponent ==
  ASSUME NEW n \in Nat
  PROVE  2^n \in Nat /\ 2^n > 0 /\ 2^(n + 1) = 2 * 2^n
<1> DEFINE S == SUBSET (1 .. n)
           With == { X \in SUBSET (1 .. n + 1) : n + 1 \in X }
           f == [X \in S |-> X \cup {n + 1}]
<1>1. /\ IsFiniteSet(1 .. n) /\ Cardinality(1 .. n) = n
      /\ IsFiniteSet(1 .. n + 1) /\ Cardinality(1 .. n + 1) = n + 1
  <2>1. 1 \in Int /\ n \in Int /\ n + 1 \in Int
    OBVIOUS
  <2> QED BY <2>1, FS_Interval
<1>2. /\ IsFiniteSet(S) /\ Cardinality(S) = 2^n
      /\ Cardinality(SUBSET (1 .. n + 1)) = 2^(n + 1)
  BY <1>1, FS_SUBSET
<1>3. 1 .. n + 1 = (1 .. n) \cup {n + 1} /\ n + 1 \notin 1 .. n
  OBVIOUS
<1>4. SUBSET (1 .. n + 1) = S \cup With /\ S \cap With = {}
  BY <1>3
<1>5. f \in Injection(S, With)
  <2>1. f \in [S -> With]
    BY <1>3
  <2>2. ASSUME NEW X \in S, NEW Y \in S, f[X] = f[Y] PROVE X = Y
    <3>1. X \cup {n + 1} = Y \cup {n + 1} /\ n + 1 \notin X /\ n + 1 \notin Y
      BY <2>2, <1>3
    <3> QED BY <3>1
  <2> QED BY <2>1, <2>2 DEF Injection, IsInjective
<1>6. f \in Surjection(S, With)
  <2>1. f \in [S -> With]
    BY <1>3
  <2>2. ASSUME NEW Y \in With PROVE \E X \in S : f[X] = Y
    <3>1. Y \ {n + 1} \in S /\ Y = (Y \ {n + 1}) \cup {n + 1}
      BY <1>3
    <3> QED BY <3>1
  <2> QED BY <2>1, <2>2 DEF Surjection
<1>7. IsFiniteSet(With) /\ Cardinality(With) = 2^n
  <2>1. ExistsBijection(S, With)
    BY <1>5, <1>6 DEF ExistsBijection, Bijection
  <2> HIDE DEF S, With
  <2> QED BY <1>2, <2>1, FS_Bijection
<1> HIDE DEF S, With, f
<1>8. 2^n \in Nat /\ Cardinality(S \cap With) = 0
  <2>1. 2^n \in Nat
    BY <1>2, FS_CardinalityType
  <2>2. Cardinality(S \cap With) = 0
    BY <1>4, FS_EmptySet
  <2> QED BY <2>1, <2>2
<1>9. 2^(n + 1) = 2^n + 2^n - 0
  <2>1. Cardinality(S \cup With) = Cardinality(S) + Cardinality(With) - Cardinality(S \cap With)
    BY <1>2, <1>7, FS_Union
  <2> QED BY <1>2, <1>4, <1>7, <1>8, <2>1
<1>10. 2^n # 0
  <2>1. {} \in S
    BY DEF S
  <2> QED BY <1>2, <2>1, FS_EmptySet
<1> QED BY <1>8, <1>9, <1>10

LEMMA HalfFirst ==
  ASSUME NEW k \in Nat, NEW m \in Nat, m > 0
  PROVE  k \div (2 * m) = (k \div 2) \div m
BY Z3

(* The numbers of n bits run through every choice of their bits.             *)
LEMMA EveryWord ==
  ASSUME NEW n \in Nat, NEW w \in [0 .. n - 1 -> {0, 1}]
  PROVE  \E j \in 0 .. 2^n - 1 : \A b \in 0 .. n - 1 : Bit(j, b) = w[b]
<1> DEFINE T == { m \in Nat : \A v \in [0 .. m - 1 -> {0, 1}] :
                    \E j \in 0 .. 2^m - 1 : \A b \in 0 .. m - 1 : Bit(j, b) = v[b] }
<1>1. 0 \in T
  <2>1. 2^0 = 1
    OBVIOUS
  <2>2. 0 \in 0 .. 2^0 - 1 /\ 0 .. 0 - 1 = {}
    BY <2>1
  <2> QED BY <2>2
<1>2. ASSUME NEW m \in Nat, m \in T PROVE m + 1 \in T
  <2> SUFFICES ASSUME NEW v \in [0 .. (m + 1) - 1 -> {0, 1}]
               PROVE  \E j \in 0 .. 2^(m + 1) - 1 :
                         \A b \in 0 .. (m + 1) - 1 : Bit(j, b) = v[b]
    OBVIOUS
  <2> DEFINE u == [b \in 0 .. m - 1 |-> v[b + 1]]
  <2>1. u \in [0 .. m - 1 -> {0, 1}]
    OBVIOUS
  <2>2. PICK j \in 0 .. 2^m - 1 : \A b \in 0 .. m - 1 : Bit(j, b) = u[b]
    BY <1>2, <2>1
  <2>3. 2^m \in Nat /\ 2^(m + 1) = 2 * 2^m /\ j \in Nat /\ v[0] \in {0, 1}
    BY TwoExponent
  <2> DEFINE k == 2 * j + v[0]
  <2>4. k \in 0 .. 2^(m + 1) - 1
    BY <2>3
  <2>5. k \in Nat /\ k \div 2 = j /\ k % 2 = v[0]
    <3>1. \A c \in {0, 1} : /\ 2 * j + c \in Nat
                           /\ (2 * j + c) \div 2 = j /\ (2 * j + c) % 2 = c
      BY <2>3
    <3> QED BY <2>3, <3>1
  <2> HIDE DEF k
  <2>6. Bit(k, 0) = v[0]
    <3>1. 2^0 = 1
      OBVIOUS
    <3>2. k \div 1 = k
      BY <2>5
    <3> QED BY <2>5, <3>1, <3>2 DEF Bit
  <2>7. ASSUME NEW b \in 0 .. m - 1 PROVE Bit(k, b + 1) = v[b + 1]
    <3>1. 2^b \in Nat /\ 2^b > 0 /\ 2^(b + 1) = 2 * 2^b
      BY TwoExponent
    <3>2. k \div 2^(b + 1) = (k \div 2) \div 2^b
      BY <2>5, <3>1, HalfFirst
    <3>3. Bit(k, b + 1) = Bit(j, b)
      BY <2>5, <3>2 DEF Bit
    <3> QED BY <2>2, <3>3
  <2>8. ASSUME NEW b \in 0 .. (m + 1) - 1 PROVE Bit(k, b) = v[b]
    <3>1. CASE b = 0
      BY <2>6, <3>1
    <3>2. CASE b # 0
      <4>1. b - 1 \in 0 .. m - 1 /\ (b - 1) + 1 = b
        BY <3>2
      <4> QED BY <2>7, <4>1
    <3> QED BY <3>1, <3>2
  <2> QED BY <2>4, <2>8
<1>3. Nat \subseteq T
  <2> HIDE DEF T
  <2> QED BY <1>1, <1>2, SetInduction
<1> QED BY <1>3

-----------------------------------------------------------------------------
(* In the order q the inputs at A and at B of p changed places.               *)
Exchanged(q, p, A, B) ==
  /\ q \in Orders
  /\ \A x \in A : \E y \in B : q[x] = p[y]
  /\ \A y \in B : \E x \in A : q[y] = p[x]
  /\ \A x \in Pos : x \notin A /\ x \notin B => q[x] = p[x]

(* Inputs that change places in pairs, whatever pairs they are.              *)
LEMMA SwappedValues ==
  ASSUME NEW p \in Orders, NEW A \in SUBSET Pos, NEW B \in SUBSET Pos,
         A \cap B = {}, NEW f \in Pairings(A, B)
  PROVE  Exchanged(Swapped(p, f), p, A, B)
<1> DEFINE inv(y) == CHOOSE x \in A : f[x] = y
           g(x) == IF x \in A THEN f[x] ELSE IF x \in B THEN inv(x) ELSE x
<1>1. /\ f \in [A -> B]
      /\ \A x, y \in A : f[x] = f[y] => x = y
      /\ \A y \in B : \E x \in A : f[x] = y
  <2>1. /\ f \in [A -> B]
        /\ \A x, y \in A : x < y => f[x] < f[y]
        /\ \A y \in B : \E x \in A : f[x] = y
    BY DEF Pairings
  <2>2. ASSUME NEW x \in A, NEW y \in A, f[x] = f[y] PROVE x = y
    <3>1. x \in Nat /\ y \in Nat /\ f[x] \in Nat
      BY <2>1, PosType
    <3>2. ~ (x < y) /\ ~ (y < x)
      BY <2>1, <2>2, <3>1
    <3> QED BY <3>1, <3>2
  <2> QED BY <2>1, <2>2
<1>2. \A y \in B : inv(y) \in A /\ f[inv(y)] = y
  BY <1>1
<1> HIDE DEF inv
<1>3. \A x \in Pos : g(x) \in Pos
  BY <1>1, <1>2
<1>4. \A x, y \in Pos : g(x) = g(y) => x = y
  BY <1>1, <1>2
<1>5. \A y \in Pos : \E x \in Pos : g(x) = y
  <2> TAKE y \in Pos
  <2>1. CASE y \in A
    BY <2>1, <1>1, <1>2
  <2>2. CASE y \in B
    BY <2>2, <1>1, <1>2
  <2>3. CASE y \notin A /\ y \notin B
    BY <2>3
  <2> QED BY <2>1, <2>2, <2>3
<1>6. Swapped(p, f) = [x \in Pos |-> p[g(x)]]
  <2>1. DOMAIN f = A
    BY <1>1
  <2>2. \A x \in Pos : (\E y \in A : f[y] = x) <=> x \in B
    BY <1>1
  <2>3. \A x \in Pos :
          (IF x \in DOMAIN f THEN p[f[x]]
           ELSE IF \E y \in DOMAIN f : f[y] = x
                THEN p[CHOOSE y \in DOMAIN f : f[y] = x]
                ELSE p[x]) = p[g(x)]
    BY <2>1, <2>2 DEF inv
  <2> QED BY <2>3 DEF Swapped
<1>7. Swapped(p, f) \in Orders
  <2>1. /\ p \in [Pos -> Name]
        /\ \A x, y \in Pos : p[x] = p[y] => x = y
        /\ \A n \in Name : \E x \in Pos : p[x] = n
    BY DEF Orders
  <2> HIDE DEF g
  <2>2. Swapped(p, f) \in [Pos -> Name]
    BY <2>1, <1>3, <1>6
  <2>3. \A x, y \in Pos : Swapped(p, f)[x] = Swapped(p, f)[y] => x = y
    BY <2>1, <1>3, <1>4, <1>6
  <2>4. \A n \in Name : \E x \in Pos : Swapped(p, f)[x] = n
    BY <2>1, <1>3, <1>5, <1>6
  <2> QED BY <2>2, <2>3, <2>4 DEF Orders
<1>8. \A x \in A : \E y \in B : Swapped(p, f)[x] = p[y]
  BY <1>1, <1>6
<1>9. \A y \in B : \E x \in A : Swapped(p, f)[y] = p[x]
  BY <1>1, <1>2, <1>6
<1>10. \A x \in Pos : x \notin A /\ x \notin B => Swapped(p, f)[x] = p[x]
  BY <1>6
<1> QED BY <1>7, <1>8, <1>9, <1>10 DEF Exchanged

(* Leq_BaModifyCirPiOrder: the inactive inputs come to stand first.          *)
LEMMA ReordersRight ==
  ASSUME NEW p \in Orders, NEW inact \in SUBSET Name, NEW q \in Reorders(p, inact)
  PROVE  /\ q \in Orders
         /\ \A x \in Pos : q[x] \in inact <=> x < Cardinality(inact)
<1> DEFINE A == ActBefore(p, inact)
           B == InactAfter(p, inact)
<1>1. Cardinality(inact) \in Nat
  BY SizeType
<1>2. PICK f \in Pairings(A, B) : q = Swapped(p, f)
  BY DEF Reorders
<1>3. A \in SUBSET Pos /\ B \in SUBSET Pos /\ A \cap B = {}
  BY <1>1, PosType DEF ActBefore, InactAfter
<1>4. Exchanged(q, p, A, B)
  BY <1>2, <1>3, SwappedValues
<1>5. ASSUME NEW x \in Pos PROVE q[x] \in inact <=> x < Cardinality(inact)
  <2>1. CASE x \in A
    BY <2>1, <1>1, <1>4, PosType DEF Exchanged, ActBefore, InactAfter
  <2>2. CASE x \in B
    BY <2>2, <1>1, <1>4, PosType DEF Exchanged, ActBefore, InactAfter
  <2>3. CASE x \notin A /\ x \notin B
    BY <2>3, <1>1, <1>4, PosType DEF Exchanged, ActBefore, InactAfter
  <2> QED BY <2>1, <2>2, <2>3
<1> QED BY <1>4, <1>5 DEF Exchanged

(* Leq_BaModifyCirPiOrderU: of the others, u come to stand last.             *)
LEMMA ReordersURight ==
  ASSUME NEW p \in Orders, NEW inact \in SUBSET Name,
         NEW u \in SUBSET (Name \cup Unknown), u \cap inact = {},
         \A x \in Pos : p[x] \in inact <=> x < Cardinality(inact),
         NEW q \in ReordersU(p, inact, u)
  PROVE  q \in Orders /\ Placed(q, inact, u)
<1> DEFINE A == UBefore(p, inact, u)
           B == NotUAfter(p, inact, u)
<1>1. Cardinality(inact) \in Nat /\ Cardinality(u) \in Nat /\ PiNum \in Nat
  BY SizeType, PosType
<1>2. PICK f \in Pairings(A, B) : q = Swapped(p, f)
  BY DEF ReordersU
<1>3. A \in SUBSET Pos /\ B \in SUBSET Pos /\ A \cap B = {}
  BY <1>1, PosType DEF UBefore, NotUAfter
<1>4. Exchanged(q, p, A, B)
  BY <1>2, <1>3, SwappedValues
<1>5. ASSUME NEW x \in Pos
      PROVE  /\ q[x] \in inact <=> x < Cardinality(inact)
             /\ x >= Cardinality(inact) => (q[x] \in u <=> x >= PiNum - Cardinality(u))
  <2>1. CASE x \in A
    BY <2>1, <1>1, <1>4, PosType DEF Exchanged, UBefore, NotUAfter
  <2>2. CASE x \in B
    BY <2>2, <1>1, <1>4, PosType DEF Exchanged, UBefore, NotUAfter
  <2>3. CASE x \notin A /\ x \notin B
    BY <2>3, <1>1, <1>4, PosType DEF Exchanged, UBefore, NotUAfter
  <2> QED BY <2>1, <2>2, <2>3
<1> QED BY <1>4, <1>5 DEF Exchanged, Placed

LEMMA BothReordersRight ==
  ASSUME IInv, mInact = Name \ (sU \cup sV), vPis' \in BothReorders(vPis, mInact, sU),
         UNCHANGED <<names, maps>>
  PROVE  vPis' \in Orders /\ Ordered'
<1>1. /\ vPis \in Orders /\ mInact \in SUBSET Name
      /\ sU \in SUBSET (Name \cup Unknown) /\ sU \cap mInact = {}
  BY DEF IInv, TypeOK
<1>2. PICK q \in Reorders(vPis, mInact) : vPis' \in ReordersU(q, mInact, sU)
  BY DEF BothReorders
<1>3. q \in Orders /\ \A x \in Pos : q[x] \in mInact <=> x < Cardinality(mInact)
  BY <1>1, ReordersRight
<1>4. vPis' \in Orders /\ Placed(vPis', mInact, sU)
  BY <1>1, <1>2, <1>3, ReordersURight
<1>5. sU' = sU /\ mInact' = mInact
  BY DEF names, maps
<1> QED BY <1>4, <1>5 DEF Ordered

(* The two calls stop only for a name of U the circuit does not have.        *)
LEMMA BothReordersExist ==
  ASSUME IInv, mInact = Name \ (sU \cup sV), sU \cap Unknown = {}
  PROVE  BothReorders(vPis, mInact, sU) # {}
<1>1. /\ vPis \in Orders /\ mInact \in SUBSET Name
      /\ sU \in SUBSET Name /\ sU \cap mInact = {}
  BY DEF IInv, TypeOK
<1>2. PICK q : q \in Reorders(vPis, mInact)
  BY <1>1, ReordersExist
<1>3. q \in Orders /\ \A x \in Pos : q[x] \in mInact <=> x < Cardinality(mInact)
  BY <1>1, <1>2, ReordersRight
<1>4. ReordersU(q, mInact, sU) # {}
  BY <1>1, <1>3, ReordersUExist
<1> QED BY <1>2, <1>4 DEF BothReorders

(* One elimination of inputs that stand in order.                            *)
LEMMA EliminateRight ==
  ASSUME IInv, Eliminate
  PROVE  /\ elim' \in [Pos -> [name : Name, type : {0, 1}]]
         /\ EliminatedInOrder' /\ QuantifiedByName'
<1>1. /\ elim' = [x \in Pos |-> [name |-> vPis[x], type |-> TypeOf(x)]]
      /\ sU' = sU /\ sV' = sV /\ bNondeterType' = bNondeterType
  BY DEF Eliminate, names
<1>2. /\ Ordered /\ mInact = Name \ (sU \cup sV)
      /\ vPis \in [Pos -> Name] /\ bNondeterType \in {0, 1}
      /\ sU \in SUBSET (Name \cup Unknown) /\ sV \cap sU = {}
  BY DEF Eliminate, IInv, Hidden, TypeOK, Orders
<1>3. PiNum \in Nat /\ Cardinality(mInact) \in Nat /\ Cardinality(sU) \in Nat
  BY <1>2, PosType, SizeType
<1>4. \A x \in Pos : TypeOf(x) \in {0, 1}
  BY <1>2 DEF TypeOf
<1>5. elim' \in [Pos -> [name : Name, type : {0, 1}]]
  BY <1>1, <1>2, <1>4
<1>6. \A x \in Pos : elim'[x].name = vPis[x] /\ elim'[x].type = TypeOf(x)
  BY <1>1
<1>7. \A n : Group(n)' = Group(n)
  BY <1>1 DEF Group
<1>8. ASSUME NEW x \in Pos
      PROVE  /\ x < Cardinality(mInact) => Group(vPis[x]) = 0
             /\ x >= Cardinality(mInact) =>
                  Group(vPis[x]) = IF x >= PiNum - Cardinality(sU) THEN 2 ELSE 1
  <2>1. vPis[x] \in Name
    BY <1>2
  <2>2. /\ vPis[x] \in mInact <=> x < Cardinality(mInact)
        /\ x >= Cardinality(mInact) => (vPis[x] \in sU <=> x >= PiNum - Cardinality(sU))
    BY <1>2 DEF Ordered, Placed
  <2>3. x \in Nat
    BY PosType
  <2> QED BY <1>2, <1>3, <2>1, <2>2, <2>3 DEF Group
<1>9. \A x, y \in Pos : x < y => Group(vPis[x]) <= Group(vPis[y])
  <2> SUFFICES ASSUME NEW x \in Pos, NEW y \in Pos, x < y
               PROVE  Group(vPis[x]) <= Group(vPis[y])
    OBVIOUS
  <2>1. x \in Nat /\ y \in Nat
    BY PosType
  <2> QED BY <1>3, <1>8, <2>1
<1>10. EliminatedInOrder'
  BY <1>6, <1>7, <1>9 DEF EliminatedInOrder
<1>11. ASSUME NEW x \in Pos
       PROVE  TypeOf(x) = CASE Group(vPis[x]) = 2 -> IF UBeginWraps THEN 0 ELSE 1
                            [] Group(vPis[x]) = 1 -> 0
                            [] OTHER -> bNondeterType
  <2>1. x \in Nat
    BY PosType
  <2>2. CASE x < Cardinality(mInact)
    BY <2>2, <1>8 DEF TypeOf
  <2>3. CASE x >= Cardinality(mInact) /\ x >= PiNum - Cardinality(sU)
    BY <2>1, <2>3, <1>3, <1>8 DEF TypeOf, UBeginWraps
  <2>4. CASE x >= Cardinality(mInact) /\ ~ (x >= PiNum - Cardinality(sU))
    BY <2>1, <2>4, <1>3, <1>8 DEF TypeOf
  <2> QED BY <2>1, <2>2, <2>3, <2>4, <1>3
<1>12. QuantifiedByName'
  BY <1>1, <1>6, <1>7, <1>11 DEF QuantifiedByName, UBeginWraps
<1> QED BY <1>5, <1>10, <1>12

(* The bits a row is written with are those it was simulated with, and its   *)
(* inputs are the names that are not inactive.                               *)
LEMMA DeterminizeRight ==
  ASSUME IInv, Determinize
  PROVE  /\ pc' \in {"sizes", "index", "determinized"} /\ vPis' \in Orders
         /\ sDc' = sDc /\ mAct' \in SUBSET Name /\ mInact' \in SUBSET Name
         /\ DOMAIN sim' = DOMAIN eqn'
         /\ WrittenAsSimulated' /\ StopsOnlyForNames'
<1>1. /\ pc = "done" /\ sU' = sU /\ sV' = sV
      /\ vPis \in Orders /\ mInact \in SUBSET Name /\ mInact = Name \ (sU \cup sV)
  BY DEF Determinize, IInv, Hidden, TypeOK, names
<1>2. PiNum \in Nat /\ Cardinality(mInact) \in Nat
  BY <1>1, PosType, SizeType
<1>3. CASE /\ Reorders(vPis, mInact) = {}
           /\ pc' = "sizes" /\ UNCHANGED <<vPis, maps, sim, eqn>>
  BY <1>1, <1>3, ReordersExist
<1>4. CASE /\ pc' = "index" /\ vPis' \in Reorders(vPis, mInact) /\ ActNum = 0
           /\ UNCHANGED <<maps, sim, eqn>>
  <2>1. Cardinality(mInact) = Cardinality(Name)
    BY <1>2, <1>4 DEF ActNum, PiNum
  <2>2. mInact = Name
    BY <2>1, <1>1, FS_Subset, NameAssumption
  <2>3. WrittenAsSimulated' /\ StopsOnlyForNames'
    BY <2>2, <1>1, <1>4 DEF WrittenAsSimulated, StopsOnlyForNames
  <2> QED BY <1>1, <1>4, <2>3, ReordersRight DEF IInv, TypeOK, maps
<1>5. CASE /\ vPis' \in Reorders(vPis, mInact)
           /\ sim' = [j \in 0 .. 2^ActNum - 1 |-> ByName(vPis', LAMBDA x : SimBit(j, x))]
           /\ eqn' = [j \in 0 .. 2^ActNum - 1 |-> ByName(vPis', LAMBDA x : EqnBit(j, x))]
           /\ mAct' = ActNames(vPis') /\ mInact' = {} /\ UNCHANGED sDc
           /\ pc' = "determinized"
  <2>1. /\ vPis' \in Orders
        /\ \A x \in Pos : vPis'[x] \in mInact <=> x < Cardinality(mInact)
    BY <1>1, <1>5, ReordersRight
  <2>2. /\ vPis' \in [Pos -> Name]
        /\ \A x, y \in Pos : vPis'[x] = vPis'[y] => x = y
        /\ \A n \in Name : \E x \in Pos : vPis'[x] = n
    BY <2>1 DEF Orders
  <2>3. \A x \in Pos : x \in Nat /\ x < PiNum
    BY <1>2 DEF Pos
  <2>4. \A x : x \in Cardinality(mInact) .. PiNum - 1 <=> x \in Pos /\ x >= Cardinality(mInact)
    BY <1>2 DEF Pos
  <2>5. ActNames(vPis') = Name \ mInact
    BY <1>2, <2>1, <2>2, <2>3, <2>4 DEF ActNames
  <2>6. ASSUME NEW j, NEW x \in Pos, x >= Cardinality(mInact)
        PROVE  SimBit(j, x) = EqnBit(j, x)
    <3> DEFINE c == ActNum - 1 - (x - Cardinality(mInact))
    <3>1. c \in 0 .. ActNum - 1
      BY <1>2, <2>3, <2>6 DEF ActNum
    <3>2. \A b \in 0 .. ActNum - 1 : x - Cardinality(mInact) = ActNum - 1 - b <=> b = c
      BY <1>2, <2>3, <2>6 DEF ActNum
    <3>3. (CHOOSE b \in 0 .. ActNum - 1 : x - Cardinality(mInact) = ActNum - 1 - b) = c
      BY <3>1, <3>2
    <3> QED BY <3>3 DEF SimBit, EqnBit
  <2>7. \A n \in ActNames(vPis') :
          LET x == CHOOSE x \in Pos : vPis'[x] = n IN x \in Pos /\ x >= Cardinality(mInact)
    <3> SUFFICES ASSUME NEW n \in ActNames(vPis')
                 PROVE  LET x == CHOOSE x \in Pos : vPis'[x] = n
                        IN x \in Pos /\ x >= Cardinality(mInact)
      OBVIOUS
    <3> DEFINE x == CHOOSE x \in Pos : vPis'[x] = n
    <3>1. n \in Name /\ n \notin mInact
      BY <2>5
    <3>2. x \in Pos /\ vPis'[x] = n
      BY <3>1, <2>2
    <3> HIDE DEF x
    <3>3. x >= Cardinality(mInact)
      BY <3>1, <3>2, <2>1, <2>3, <1>2
    <3> QED BY <3>2, <3>3 DEF x
  <2> DEFINE S(j) == ByName(vPis', LAMBDA x : SimBit(j, x))
             E(j) == ByName(vPis', LAMBDA x : EqnBit(j, x))
  <2>8. \A j : S(j) = E(j)
    BY <2>6, <2>7 DEF ByName
  <2>9. \A j : DOMAIN E(j) = ActNames(vPis')
    BY DEF ByName
  <2>10. /\ sim' = [j \in 0 .. 2^ActNum - 1 |-> S(j)]
         /\ eqn' = [j \in 0 .. 2^ActNum - 1 |-> E(j)]
    BY <1>5, Zenon
  <2> HIDE DEF S, E
  <2>11. sim' = eqn'
    BY <2>8, <2>10
  <2>12. \A j \in DOMAIN eqn' : DOMAIN eqn'[j] = mAct'
    BY <1>5, <2>9, <2>10
  <2>13. ASSUME NEW val \in [mAct' -> {0, 1}] PROVE \E j \in DOMAIN eqn' : eqn'[j] = val
    <3> DEFINE w == [b \in 0 .. ActNum - 1 |-> val[vPis'[PiNum - 1 - b]]]
    <3>1. ActNum \in Nat /\ mAct' = ActNames(vPis')
      <4>1. Cardinality(mInact) <= PiNum
        BY <1>1, FS_Subset, NameAssumption DEF PiNum
      <4> QED BY <1>2, <1>5, <4>1 DEF ActNum
    <3>2. ASSUME NEW b \in 0 .. ActNum - 1
          PROVE  /\ PiNum - 1 - b \in Cardinality(mInact) .. PiNum - 1
                 /\ vPis'[PiNum - 1 - b] \in mAct'
      <4>1. PiNum - 1 - b \in Cardinality(mInact) .. PiNum - 1
        BY <1>2, <3>1 DEF ActNum
      <4> QED BY <3>1, <4>1 DEF ActNames
    <3>3. w \in [0 .. ActNum - 1 -> {0, 1}]
      BY <3>2
    <3>4. PICK j \in 0 .. 2^ActNum - 1 : \A b \in 0 .. ActNum - 1 : Bit(j, b) = w[b]
      <4> HIDE DEF w
      <4> QED BY <3>1, <3>3, EveryWord
    <3>5. ASSUME NEW n \in ActNames(vPis') PROVE E(j)[n] = val[n]
      <4> DEFINE x == CHOOSE x \in Pos : vPis'[x] = n
      <4>1. x \in Pos /\ x >= Cardinality(mInact)
        BY <2>7
      <4>2. vPis'[x] = n
        BY <2>2, <2>5
      <4>3. E(j)[n] = EqnBit(j, x)
        BY DEF E, ByName
      <4> HIDE DEF x
      <4> DEFINE c == ActNum - 1 - (x - Cardinality(mInact))
      <4>4. /\ c \in 0 .. ActNum - 1 /\ PiNum - 1 - c = x
            /\ SimBit(j, x) = Bit(j, c)
        BY <1>2, <2>3, <4>1 DEF ActNum, SimBit
      <4> HIDE DEF c
      <4>5. w[c] = val[vPis'[x]]
        BY <4>4
      <4> QED BY <2>6, <3>4, <4>1, <4>2, <4>3, <4>4, <4>5
    <3>6. eqn'[j] = [n \in ActNames(vPis') |-> E(j)[n]]
      <4>1. E(j) = [n \in ActNames(vPis') |-> E(j)[n]]
        BY DEF E, ByName
      <4> QED BY <2>10, <4>1
    <3>7. val = [n \in ActNames(vPis') |-> val[n]]
      BY <3>1
    <3>8. eqn'[j] = val /\ j \in DOMAIN eqn'
      BY <2>10, <3>5, <3>6, <3>7
    <3> QED BY <3>8
  <2> QED BY <1>1, <1>5, <2>1, <2>5, <2>11, <2>12, <2>13
          DEF WrittenAsSimulated, StopsOnlyForNames
<1> QED BY <1>1, <1>3, <1>4, <1>5 DEF Determinize

-----------------------------------------------------------------------------
LEMMA InitInv == Init => IInv
<1> SUFFICES ASSUME Init PROVE IInv
  OBVIOUS
<1>1. TypeOK
  BY DEF Init, TypeOK
<1>2. Given /\ Hidden /\ pc # "eliminate"
  BY DEF Init, Given, Hidden
<1>3. EliminatedInOrder /\ QuantifiedByName /\ WrittenAsSimulated /\ StopsOnlyForNames
  BY DEF Init, EliminatedInOrder, QuantifiedByName, WrittenAsSimulated, StopsOnlyForNames
<1> QED BY <1>1, <1>2, <1>3 DEF IInv

(* Steps that eliminate nothing leave what was said of the last elimination. *)
LEMMA SameElimination ==
  ASSUME EliminatedInOrder, QuantifiedByName, UNCHANGED <<names, bNondeterType, elim>>
  PROVE  EliminatedInOrder' /\ QuantifiedByName'
<1>1. /\ sU' = sU /\ sV' = sV /\ bNondeterType' = bNondeterType /\ elim' = elim
      /\ \A n : Group(n)' = Group(n)
  BY DEF names, Group
<1> QED BY <1>1 DEF EliminatedInOrder, QuantifiedByName, UBeginWraps

LEMMA NextInv == IInv /\ [Next]_vars => IInv'
<1> SUFFICES ASSUME IInv, [Next]_vars PROVE IInv'
  OBVIOUS
<1> USE DEF IInv
<1>1. CASE Support
  <2>1. PICK m : /\ m = Supported(mAct, mInact, sDc, sU \cup sV)
                 /\ mAct' = m.act /\ mInact' = m.inact /\ sDc' = m.dc
                 /\ \/ pc' = "sizes" /\ UNCHANGED vPis
                    \/ pc' = "start" /\ vPis' \in Reorders(vPis, m.inact)
                 /\ pc' = "sizes" => Reorders(vPis, m.inact) = {}
    BY <1>1 DEF Support
  <2>2. mAct = Name /\ mInact = {} /\ sDc = {}
    BY <1>1 DEF Support, Given
  <2>3. /\ m.act = Name \cap (sU \cup sV)
        /\ m.inact = Name \ (sU \cup sV)
        /\ m.dc = (sU \cup sV) \ Name
    BY <2>1, <2>2 DEF Supported
  <2>4. UNCHANGED <<names, bNondeterType, elim, sim, eqn>>
    BY <1>1 DEF Support
  <2>5. vPis' \in Orders /\ pc' = "start"
    BY <2>1, <2>3, ReordersRight, ReordersExist DEF TypeOK
  <2>6. TypeOK'
    BY <2>1, <2>3, <2>4, <2>5 DEF TypeOK, names
  <2>7. Given' /\ Hidden' /\ WrittenAsSimulated' /\ StopsOnlyForNames' /\ pc' # "eliminate"
    BY <2>1, <2>3, <2>4, <2>5 DEF Given, Hidden, names, WrittenAsSimulated, StopsOnlyForNames
  <2> QED BY <2>4, <2>6, <2>7, SameElimination
<1>2. CASE Reorder
  <2>1. UNCHANGED <<names, bNondeterType, maps, elim, sim, eqn>>
    BY <1>2 DEF Reorder
  <2>2. mInact = Name \ (sU \cup sV)
    BY <1>2 DEF Reorder, Hidden
  <2>3. /\ pc' = "sizes" \/ pc' = "eliminate"
        /\ vPis' \in Orders /\ (pc' = "eliminate" => Ordered')
        /\ pc' = "sizes" => sU \cap Unknown # {}
    <3>1. CASE /\ BothReorders(vPis, mInact, sU) = {}
               /\ pc' = "sizes" /\ UNCHANGED vPis
      BY <2>2, <3>1, BothReordersExist DEF TypeOK
    <3>2. CASE pc' = "eliminate" /\ vPis' \in BothReorders(vPis, mInact, sU)
      BY <3>2, <2>1, <2>2, BothReordersRight
    <3> QED BY <1>2, <3>1, <3>2 DEF Reorder
  <2>4. TypeOK'
    BY <2>1, <2>3 DEF TypeOK, names, maps
  <2>5. Given' /\ Hidden' /\ WrittenAsSimulated' /\ StopsOnlyForNames'
    BY <2>1, <2>2, <2>3 DEF Given, Hidden, names, maps, WrittenAsSimulated, StopsOnlyForNames
  <2> QED BY <2>1, <2>3, <2>4, <2>5, SameElimination
<1>3. CASE Eliminate
  <2>1. /\ UNCHANGED <<names, bNondeterType, vPis, maps, sim, eqn>>
        /\ pc = "eliminate" /\ pc' = "addCheck"
    BY <1>3 DEF Eliminate
  <2>2. TypeOK'
    BY <1>3, <2>1, EliminateRight DEF TypeOK, names, maps
  <2>3. Given' /\ Hidden' /\ WrittenAsSimulated' /\ StopsOnlyForNames'
    BY <2>1 DEF Given, Hidden, names, maps, WrittenAsSimulated, StopsOnlyForNames
  <2> QED BY <1>3, <2>1, <2>2, <2>3, EliminateRight
<1>4. CASE AddCheckCir
  <2>1. /\ UNCHANGED <<names, bNondeterType, maps, elim, sim, eqn>>
        /\ pc = "addCheck" /\ pc' = "check" /\ vPis' \in Orders
    BY <1>4 DEF AddCheckCir, OrderObjsByName
  <2>2. TypeOK'
    BY <2>1 DEF TypeOK, names, maps
  <2>3. Given' /\ Hidden' /\ WrittenAsSimulated' /\ StopsOnlyForNames'
    BY <2>1 DEF Given, Hidden, names, maps, WrittenAsSimulated, StopsOnlyForNames
  <2> QED BY <2>1, <2>2, <2>3, SameElimination
<1>5. CASE Leave
  <2>1. /\ UNCHANGED <<names, bNondeterType, vPis, maps, elim, sim, eqn>>
        /\ pc = "check" /\ pc' = "done"
    BY <1>5 DEF Leave
  <2>2. TypeOK'
    BY <2>1 DEF TypeOK, names, maps
  <2>3. Given' /\ Hidden' /\ WrittenAsSimulated' /\ StopsOnlyForNames'
    BY <2>1 DEF Given, Hidden, names, maps, WrittenAsSimulated, StopsOnlyForNames
  <2> QED BY <2>1, <2>2, <2>3, SameElimination
<1>6. CASE Determinize
  <2>1. UNCHANGED <<names, bNondeterType, elim>> /\ pc = "done"
    BY <1>6 DEF Determinize
  <2>2. /\ pc' \in {"sizes", "index", "determinized"} /\ vPis' \in Orders
        /\ sDc' = sDc /\ mAct' \in SUBSET Name /\ mInact' \in SUBSET Name
        /\ DOMAIN sim' = DOMAIN eqn'
        /\ WrittenAsSimulated' /\ StopsOnlyForNames'
    BY <1>6, DeterminizeRight
  <2>3. TypeOK'
    BY <2>1, <2>2 DEF TypeOK, names
  <2>4. Given' /\ Hidden' /\ pc' # "eliminate"
    BY <2>2 DEF Given, Hidden
  <2> QED BY <2>1, <2>2, <2>3, <2>4, SameElimination
<1>7. CASE UNCHANGED vars
  <2>1. UNCHANGED <<sU, sV, bNondeterType, vPis, mAct, mInact, sDc, elim, sim, eqn, pc>>
    BY <1>7 DEF vars, names, maps
  <2>2. TypeOK'
    BY <2>1 DEF TypeOK
  <2>3. Given' /\ Hidden' /\ WrittenAsSimulated' /\ StopsOnlyForNames' /\ (pc' = "eliminate" => Ordered')
    BY <2>1 DEF Given, Hidden, Ordered, Placed, WrittenAsSimulated, StopsOnlyForNames
  <2> QED BY <2>1, <2>2, <2>3, SameElimination DEF names
<1> QED BY <1>1, <1>2, <1>3, <1>4, <1>5, <1>6, <1>7 DEF Next

(* The inductive invariant of the order of inputs.                           *)
THEOREM Invariance == Spec => []IInv
BY InitInv, NextInv, PTL DEF Spec

(* The variables keep their types; what swapping leaves is an order again    *)
(* (leqBa.cpp:750, 821).                                                     *)
THEOREM TypeCorrect == Spec => []TypeOK
BY Invariance, PTL DEF IInv

(* Whatever the names and the order the circuit came in, Leq_EliminateVar    *)
(* finds the inactive inputs first, then v, then u (leqInpro2.cpp:39).       *)
THEOREM OrderRight == Spec => []EliminatedInOrder
BY Invariance, PTL DEF IInv

(* And quantifies each as its name demands; when its uBegin wraps u alone is *)
(* quantified otherwise (leqEliQuan.cpp:33, leqInpro2.cpp:4).                *)
THEOREM QuantifiersRight == Spec => []QuantifiedByName
BY Invariance, PTL DEF IInv

(* A row of the determinized table is written with the inputs and the bits   *)
(* it was simulated with, and every choice of values has a row               *)
(* (leqEqn.cpp:88, leqSim.cpp:14).                                           *)
THEOREM WrittenRight == Spec => []WrittenAsSimulated
BY Invariance, PTL DEF IInv

(* The assertions at leqBa.cpp:750 and 821 fail only for a name of U the     *)
(* circuit does not have, the one behind leqEqn.cpp:74 only when every input *)
(* is hidden.                                                                *)
THEOREM StopsRight == Spec => []StopsOnlyForNames
BY Invariance, PTL DEF IInv
=============================================================================
