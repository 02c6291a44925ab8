---------------------------- MODULE VerifyProofs ----------------------------
(***************************************************************************)
(* The checks of the command `solve', for every F, S and circuit given.    *)
(*                                                                         *)
(* What can be reached in k steps is defined by recursion, so the first    *)
(* part shows that the definition has the equation one reads off it, and   *)
(* how to argue about it: by a set that is closed under steps, and, when   *)
(* k is large enough, by the reachable states being such a set themselves. *)
(***************************************************************************)
EXTENDS Verify, LeqSolveProofs, Recursion, FiniteSetTheorems

-----------------------------------------------------------------------------
(* One more step from the layers r.                                          *)
Layer(Z) == [all : SUBSET Z, new : SUBSET Z]
NextLayer(post, r) ==
  LET s == UNION { post[z] : z \in r.new }
  IN [all |-> r.all \cup s, new |-> s \ r.all]

LEMMA NextLayerType ==
  ASSUME NEW Z, NEW post \in [Z -> SUBSET Z], NEW r \in Layer(Z)
  PROVE  NextLayer(post, r) \in Layer(Z)
<1> DEFINE s == UNION { post[z] : z \in r.new }
<1>1. r.all \subseteq Z /\ r.new \subseteq Z
  BY DEF Layer
<1>2. s \subseteq Z
  BY <1>1
<1> HIDE DEF s
<1>3. [all |-> r.all \cup s, new |-> s \ r.all] \in Layer(Z)
  BY <1>1, <1>2 DEF Layer
<1> QED BY <1>3 DEF NextLayer, s

(* The recursive definition has its own equation.                            *)
LEMMA LayersRecursion ==
  ASSUME NEW Z, NEW start \in Z, NEW post \in [Z -> SUBSET Z]
  PROVE  LET L == Layers(start, post)
         IN /\ L \in [Nat -> Layer(Z)]
            /\ L[0] = [all |-> {start}, new |-> {start}]
            /\ \A i \in Nat : L[i + 1] = NextLayer(post, L[i])
<1> DEFINE a == [all |-> {start}, new |-> {start}]
           step == [p \in Nat \X Layer(Z) |-> NextLayer(post, p[2])]
           Body(R) == [i \in Nat |-> IF i = 0 THEN a ELSE NextLayer(post, R[i - 1])]
<1>1. a \in Layer(Z)
  BY DEF Layer
<1>2. step \in [Nat \X Layer(Z) -> Layer(Z)]
  BY NextLayerType
<1>3. PICK g : Recurs(g, Layer(Z), a, step)
  <2> HIDE DEF a, step
  <2> QED BY <1>1, <1>2, NatRecursion
<1>4. /\ g \in [Nat -> Layer(Z)] /\ g[0] = a
      /\ \A i \in Nat : g[i + 1] = NextLayer(post, g[i])
  BY <1>3 DEF Recurs
<1>5. g = Body(g)
  <2> HIDE DEF a
  <2>1. \A i \in Nat : g[i] = IF i = 0 THEN a ELSE NextLayer(post, g[i - 1])
    <3> TAKE i \in Nat
    <3>1. CASE i = 0
      BY <1>4, <3>1
    <3>2. CASE i # 0
      <4>1. i - 1 \in Nat /\ (i - 1) + 1 = i
        BY <3>2
      <4>2. g[(i - 1) + 1] = NextLayer(post, g[i - 1])
        BY <1>4, <4>1
      <4> QED BY <3>2, <4>1, <4>2
    <3> QED BY <3>1, <3>2
  <2> QED BY <1>4, <2>1
<1> DEFINE L == CHOOSE R : R = Body(R)
<1>6. L = Body(L)
  BY <1>5
<1>7. Layers(start, post) = L
  BY DEF Layers, NextLayer
<1> HIDE DEF L
<1>8. L[0] = a
  BY <1>6
<1>9. \A i \in Nat : L[i + 1] = NextLayer(post, L[i])
  <2> TAKE i \in Nat
  <2>1. i + 1 \in Nat /\ i + 1 # 0 /\ (i + 1) - 1 = i
    OBVIOUS
  <2> QED BY <1>6, <2>1
<1>10. \A i \in Nat : L[i] \in Layer(Z)
  <2> DEFINE T == { i \in Nat : L[i] \in Layer(Z) }
  <2>1. 0 \in T
    BY <1>1, <1>8
  <2>2. \A i \in Nat : i \in T => i + 1 \in T
    BY <1>9, NextLayerType
  <2>3. Nat \subseteq T
    <3> HIDE DEF T
    <3> QED BY <2>1, <2>2, SetInduction
  <2> QED BY <2>3
<1>11. L \in [Nat -> Layer(Z)]
  <2>1. DOMAIN L = Nat
    BY <1>6
  <2>2. L = [i \in Nat |-> L[i]]
    BY <1>6
  <2> QED BY <1>10, <2>2
<1> QED BY <1>7, <1>8, <1>9, <1>11

(* Every layer but the last one has been expanded.                           *)
LEMMA LayersExpanded ==
  ASSUME NEW Z, NEW start \in Z, NEW post \in [Z -> SUBSET Z], NEW k \in Nat
  PROVE  LET r == Layers(start, post)[k]
         IN /\ r.new \subseteq r.all
            /\ \A z \in r.all \ r.new : post[z] \subseteq r.all
<1> DEFINE L == Layers(start, post)
           T == { i \in Nat : /\ L[i].new \subseteq L[i].all
                             /\ \A z \in L[i].all \ L[i].new : post[z] \subseteq L[i].all }
<1>1. /\ L \in [Nat -> Layer(Z)]
      /\ L[0] = [all |-> {start}, new |-> {start}]
      /\ \A i \in Nat : L[i + 1] = NextLayer(post, L[i])
  BY LayersRecursion
<1> HIDE DEF L
<1>2. 0 \in T
  BY <1>1
<1>3. ASSUME NEW i \in Nat, i \in T PROVE i + 1 \in T
  <2> DEFINE s == UNION { post[z] : z \in L[i].new }
  <2>0. L[i + 1] = NextLayer(post, L[i])
    BY <1>1
  <2>1. L[i + 1].all = L[i].all \cup s /\ L[i + 1].new = s \ L[i].all
    BY <2>0 DEF NextLayer
  <2>2. \A z \in L[i].new : post[z] \subseteq s
    OBVIOUS
  <2> HIDE DEF s
  <2>3. \A z \in L[i].all \ L[i].new : post[z] \subseteq L[i].all
    BY <1>3
  <2>4. ASSUME NEW z \in L[i + 1].all \ L[i + 1].new PROVE post[z] \subseteq L[i + 1].all
    <3>1. z \in L[i].all
      BY <2>1
    <3>2. post[z] \subseteq L[i].all \cup s
      BY <2>2, <2>3, <3>1
    <3> QED BY <2>1, <3>2
  <2>5. L[i + 1].new \subseteq L[i + 1].all
    BY <2>1
  <2> QED BY <2>4, <2>5
<1>4. Nat \subseteq T
  <2> HIDE DEF T
  <2> QED BY <1>2, <1>3, SetInduction
<1> QED BY <1>4 DEF L

(* The equation of Reached: what is reached in one step more is what was     *)
(* reached before and what one step from there leads to.                     *)
LEMMA ReachedEquation ==
  ASSUME NEW Z, NEW start \in Z, NEW post \in [Z -> SUBSET Z], NEW k \in Nat
  PROVE  /\ Reached(start, post, 0) = {start}
         /\ Reached(start, post, k) \subseteq Z
         /\ Reached(start, post, k + 1) =
              Reached(start, post, k) \cup UNION { post[z] : z \in Reached(start, post, k) }
<1> DEFINE r == Layers(start, post)[k]
           s == UNION { post[z] : z \in r.new }
<1>1. /\ r \in Layer(Z)
      /\ Layers(start, post)[0] = [all |-> {start}, new |-> {start}]
      /\ Layers(start, post)[k + 1] = NextLayer(post, r)
  BY LayersRecursion
<1>2. /\ r.new \subseteq r.all
      /\ \A z \in r.all \ r.new : post[z] \subseteq r.all
  BY LayersExpanded
<1>3. Layers(start, post)[k + 1].all = r.all \cup s
  BY <1>1 DEF NextLayer
<1> HIDE DEF r
<1>4. r.all \cup s = r.all \cup UNION { post[z] : z \in r.all }
  BY <1>2
<1>5. r.all \subseteq Z
  BY <1>1 DEF Layer
<1> QED BY <1>1, <1>3, <1>4, <1>5 DEF Reached, r

(* A set that holds the start and is closed under steps holds what is        *)
(* reached.                                                                  *)
LEMMA ReachedInduction ==
  ASSUME NEW Z, NEW start \in Z, NEW post \in [Z -> SUBSET Z], NEW k \in Nat,
         NEW T, start \in T, \A z \in Z \cap T : post[z] \subseteq T
  PROVE  Reached(start, post, k) \subseteq T
<1> DEFINE R(i) == Reached(start, post, i)
           I == { i \in Nat : R(i) \subseteq T }
<1>1. ASSUME NEW i \in Nat
      PROVE  R(i) \subseteq Z /\ R(i + 1) = R(i) \cup UNION { post[z] : z \in R(i) }
  BY ReachedEquation
<1>2. R(0) = {start}
  BY ReachedEquation
<1> HIDE DEF R
<1>3. 0 \in I
  BY <1>2
<1>4. \A i \in Nat : i \in I => i + 1 \in I
  BY <1>1
<1>5. Nat \subseteq I
  <2> HIDE DEF I
  <2> QED BY <1>3, <1>4, SetInduction
<1> QED BY <1>5 DEF R

LEMMA ReachedMore ==
  ASSUME NEW Z, NEW start \in Z, NEW post \in [Z -> SUBSET Z], NEW k \in Nat, NEW i \in 0 .. k
  PROVE  Reached(start, post, i) \subseteq Reached(start, post, k)
<1> DEFINE R(j) == Reached(start, post, j)
           T == { j \in Nat : R(i) \subseteq R(i + j) }
<1>1. ASSUME NEW j \in Nat PROVE R(j) \subseteq R(j + 1)
  BY ReachedEquation
<1> HIDE DEF R
<1>2. 0 \in T
  OBVIOUS
<1>3. ASSUME NEW j \in Nat, j \in T PROVE j + 1 \in T
  <2>1. R(i + j) \subseteq R((i + j) + 1) /\ (i + j) + 1 = i + (j + 1)
    BY <1>1
  <2> QED BY <1>3, <2>1
<1>4. Nat \subseteq T
  <2> HIDE DEF T
  <2> QED BY <1>2, <1>3, SetInduction
<1>5. k - i \in T /\ i + (k - i) = k
  BY <1>4
<1> QED BY <1>5 DEF R

(* As many steps as there are states reach everything that can be reached:   *)
(* every step before that one found a new state.                             *)
LEMMA ReachedClosed ==
  ASSUME NEW Z, IsFiniteSet(Z), NEW start \in Z, NEW post \in [Z -> SUBSET Z],
         NEW k \in Nat, Cardinality(Z) <= k
  PROVE  \A z \in Reached(start, post, k) : post[z] \subseteq Reached(start, post, k)
<1> DEFINE R(i) == Reached(start, post, i)
           T == { i \in Nat : R(i + 1) = R(i) \/ i < Cardinality(R(i)) }
<1>1. ASSUME NEW i \in Nat
      PROVE  R(i) \subseteq Z /\ R(i + 1) = R(i) \cup UNION { post[z] : z \in R(i) }
  BY ReachedEquation
<1>2. R(0) = {start}
  BY ReachedEquation
<1> HIDE DEF R
<1>3. ASSUME NEW i \in Nat
      PROVE  /\ IsFiniteSet(R(i)) /\ Cardinality(R(i)) \in Nat
             /\ Cardinality(R(i)) <= Cardinality(Z)
  <2>1. R(i) \in SUBSET Z
    BY <1>1
  <2>2. IsFiniteSet(R(i)) /\ Cardinality(R(i)) <= Cardinality(Z)
    BY <2>1, FS_Subset
  <2> QED BY <2>2, FS_CardinalityType
<1>4. 0 \in T
  <2>1. Cardinality(R(0)) = 1
    BY <1>2, FS_Singleton
  <2> QED BY <2>1
<1>5. ASSUME NEW i \in Nat, i \in T PROVE i + 1 \in T
  <2>1. CASE R(i + 1) = R(i)
    <3>1. R((i + 1) + 1) = R(i + 1) \cup UNION { post[z] : z \in R(i + 1) }
      BY <1>1
    <3>2. R(i + 1) = R(i) \cup UNION { post[z] : z \in R(i) }
      BY <1>1
    <3>3. R((i + 1) + 1) = R(i + 1)
      BY <2>1, <3>1, <3>2
    <3> QED BY <3>3
  <2>2. CASE R(i + 1) # R(i)
    <3>1. R(i) \in SUBSET R(i + 1)
      BY <1>1
    <3>2. IsFiniteSet(R(i + 1)) /\ Cardinality(R(i + 1)) \in Nat /\ Cardinality(R(i)) \in Nat
      BY <1>3
    <3>3. Cardinality(R(i)) <= Cardinality(R(i + 1)) /\ Cardinality(R(i)) # Cardinality(R(i + 1))
      BY <2>2, <3>1, <3>2, FS_Subset
    <3>4. i < Cardinality(R(i))
      BY <1>5, <2>2
    <3>5. i + 1 < Cardinality(R(i + 1))
      BY <3>2, <3>3, <3>4
    <3> QED BY <3>5
  <2> QED BY <2>1, <2>2
<1>6. Nat \subseteq T
  <2> HIDE DEF T
  <2> QED BY <1>4, <1>5, SetInduction
<1>7. R(k + 1) = R(k)
  <2>1. Cardinality(Z) \in Nat /\ Cardinality(R(k)) \in Nat /\ Cardinality(R(k)) <= Cardinality(Z)
    BY <1>3, FS_CardinalityType
  <2> QED BY <1>6, <2>1
<1>8. \A z \in R(k) : post[z] \subseteq R(k)
  BY <1>1, <1>7
<1> QED BY <1>8 DEF R

-----------------------------------------------------------------------------
LEMMA InitXType == initX \in QX
BY LatchAssumption DEF initX, initIpS, initPrefix, QX, Q, QS, QF

(* One step of the finished X, by the automata of S and F.                   *)
LEMMA XStep ==
  ASSUME pc = "done", IInv, NEW x \in QX, NEW y \in Sym
  PROVE  LET s == BaS[With(x[1][1], y)]
             f == BaF[With(x[1][2], y)]
             a == ba[With(x, y)]
         IN /\ a.f0 = ((f.f0 => s.f0) /\ x[2])
            /\ a.next = << <<s.next, f.next>>, a.f0>>
            /\ a.f0 \in BOOLEAN /\ a.next \in QX
            /\ With(x, y) \in Steps(QX)
            /\ With(x, y) \in f0 => a.f0
<1>1. prob \in Problem /\ ba = PrefixCloseCir(Safe) /\ ba \in Automaton(QX)
  BY DEF IInv, TypeOK, Stages, Entered
<1>2. With(x, y) \in Steps(QX)
  BY DEF With, Steps, Sym
<1>3. ba[With(x, y)] \in [f0 : BOOLEAN, next : QX]
  BY <1>1, <1>2 DEF Automaton
<1>4. With(x, y) \in f0 => ba[With(x, y)].f0
  BY DEF IInv, Accepts
<1> QED BY <1>1, <1>2, <1>3, <1>4, SafeParts DEF With

LEMMA InputsType == XInputs \subseteq Sym
BY SymbolAssumption DEF XInputs, Sym

(* Every value the hidden inputs stand for.                                  *)
LEMMA StepsOfType ==
  ASSUME NEW B \in SUBSET QX, NEW y \in Sym, NEW t \in StepsOf(B, y)
  PROVE  \E x \in B : \E n \in HiddenOf(y) :
           /\ x \in QX /\ <<y[1], y[2], n>> \in Sym
           /\ t = With(x, <<y[1], y[2], n>>)
<1>1. PICK x \in B, n \in HiddenOf(y) : t = With(x, <<y[1], y[2], n>>)
  BY DEF StepsOf
<1>2. n \in N
  BY DEF HiddenOf, Sym
<1>3. <<y[1], y[2], n>> \in Sym
  BY <1>2 DEF Sym
<1> QED BY <1>1, <1>3

LEMMA XNextType ==
  ASSUME pc = "done", IInv, NEW B \in SUBSET QX, NEW y \in Sym
  PROVE  XNext(B, y) \in SUBSET QX
<1> SUFFICES ASSUME NEW t \in StepsOf(B, y) PROVE <<ba[t].next[1], t \in f0>> \in QX
  BY DEF XNext
<1>1. PICK x \in B, n \in HiddenOf(y) :
        x \in QX /\ <<y[1], y[2], n>> \in Sym /\ t = With(x, <<y[1], y[2], n>>)
  BY StepsOfType
<1>2. ba[t].next \in QX
  BY <1>1, XStep
<1>3. ba[t].next[1] \in Q /\ (t \in f0) \in BOOLEAN
  BY <1>2 DEF QX
<1> QED BY <1>3 DEF QX

(* The branch that takes the symbol itself is among them, determinized or    *)
(* not.                                                                      *)
LEMMA OwnBranch ==
  ASSUME NEW B, NEW x \in B, NEW y \in Sym
  PROVE  /\ With(x, y) \in StepsOf(B, y)
         /\ <<ba[With(x, y)].next[1], With(x, y) \in f0>> \in XNext(B, y)
         /\ XF0(B, y) => With(x, y) \in f0
<1>1. y[3] \in HiddenOf(y) /\ y = <<y[1], y[2], y[3]>>
  BY DEF HiddenOf, Sym
<1>2. With(x, y) \in StepsOf(B, y)
  BY <1>1 DEF StepsOf
<1> QED BY <1>2 DEF XNext, XF0

-----------------------------------------------------------------------------
(* F under the solution stays within S.  Some branch of the solution always  *)
(* has the latches of S and F that F and S have beside it.                   *)
StatesFXS == (SUBSET QX) \X QF \X QS

LEMMA PostFXSType ==
  ASSUME pc = "done", IInv
  PROVE  PostFXS \in [StatesFXS -> SUBSET StatesFXS] /\ startFXS \in StatesFXS
<1>1. ASSUME NEW z \in StatesFXS, NEW y \in Sym PROVE NextFXS(z, y) \in StatesFXS
  <2>1. z[1] \in SUBSET QX /\ z[2] \in QF /\ z[3] \in QS
    BY DEF StatesFXS
  <2>2. XNext(z[1], y) \in SUBSET QX
    BY <2>1, XNextType
  <2>3. BaF \in Automaton(QF) /\ BaS \in Automaton(QS)
    BY StageTypes DEF IInv, TypeOK
  <2>4. With(z[2], y) \in Steps(QF) /\ With(z[3], y) \in Steps(QS)
    BY <2>1 DEF With, Steps, Sym
  <2>5. BaF[With(z[2], y)].next \in QF /\ BaS[With(z[3], y)].next \in QS
    BY <2>3, <2>4 DEF Automaton
  <2> QED BY <2>2, <2>5 DEF NextFXS, StatesFXS
<1>2. PostFXS \in [StatesFXS -> SUBSET StatesFXS]
  <2>1. PostFXS = [z \in StatesFXS |-> { NextFXS(z, y) : y \in Sym }]
    BY DEF PostFXS, StatesFXS
  <2> QED BY <1>1, <2>1
<1>3. startFXS \in StatesFXS
  <2>1. initX \in QX
    BY InitXType
  <2>2. <<initF, TRUE>> \in QF /\ <<initS, TRUE>> \in QS
    BY LatchAssumption DEF QF, QS
  <2> QED BY <2>1, <2>2 DEF startFXS, StatesFXS
<1> QED BY <1>2, <1>3

LEMMA NeverFXSHolds ==
  ASSUME pc = "done", IInv
  PROVE  NeverFXS
<1> DEFINE Follows_(z) == \E x \in z[1] : x[1] = <<z[3], z[2]>>
           T == { z \in StatesFXS : Follows_(z) }
<1>1. PostFXS \in [StatesFXS -> SUBSET StatesFXS] /\ startFXS \in StatesFXS
  BY PostFXSType
<1>2. ASSUME NEW z \in T, NEW y \in Sym
      PROVE  NextFXS(z, y) \in T /\ ~ MiterVerifyFXS(z, y)
  <2>1. PICK x \in z[1] : x[1] = <<z[3], z[2]>>
    OBVIOUS
  <2>2. x \in QX /\ z \in StatesFXS
    BY DEF StatesFXS
  <2> DEFINE s == BaS[With(z[3], y)]
             f == BaF[With(z[2], y)]
             a == ba[With(x, y)]
  <2>3. /\ a.f0 = ((f.f0 => s.f0) /\ x[2])
        /\ a.next = << <<s.next, f.next>>, a.f0>>
        /\ With(x, y) \in f0 => a.f0
    BY <2>1, <2>2, XStep
  <2>4. /\ <<a.next[1], With(x, y) \in f0>> \in XNext(z[1], y)
        /\ XF0(z[1], y) => With(x, y) \in f0
    BY <2>1, OwnBranch
  <2>5. NextFXS(z, y) = <<XNext(z[1], y), f.next, s.next>>
    BY DEF NextFXS
  <2>6. NextFXS(z, y) \in StatesFXS
    BY <1>1, <2>2 DEF PostFXS, StatesFXS
  <2> HIDE DEF s, f, a
  <2>7. Follows_(NextFXS(z, y))
    BY <2>3, <2>4, <2>5
  <2>8. ~ (XF0(z[1], y) /\ f.f0 /\ ~ s.f0)
    BY <2>3, <2>4
  <2> QED BY <2>6, <2>7, <2>8 DEF MiterVerifyFXS, s, f
<1>3. startFXS \in T
  BY <1>1 DEF startFXS, initX, initIpS
<1>4. \A z \in StatesFXS \cap T : PostFXS[z] \subseteq T
  BY <1>2 DEF PostFXS, StatesFXS
<1> HIDE DEF T
<1>5. ReachedFXS \subseteq T
  BY <1>1, <1>3, <1>4, ReachedInduction, XvAssumption DEF ReachedFXS
<1> QED BY <1>2, <1>5 DEF NeverFXS

-----------------------------------------------------------------------------
(* The invariant of the command: what the answers noted down say of the      *)
(* solution as it is now.                                                    *)
CommandType ==
  /\ vpc \in {"solve", "given", "deter", "verifiedDeter", "verifiedDirectly", "verifyX",
             "verifyFXS", "message"}
  /\ det \in BOOLEAN /\ fUseCommand \in Nat
  /\ checks \in [Check -> [ans : Answer, ret : {0, 1, 2}]]
  /\ vpc # "solve" => pc = "done" /\ xv \in Xvs

(* Nothing determinizes the solution after -z found it equivalent.           *)
EqAnswered ==
  /\ vpc = "deter" => (inact => det)
  /\ checks["VerifyEqX"].ans = 1 =>
       /\ vpc \notin {"solve", "given", "deter"}
       /\ inact => det
       /\ fUseCommand \in Commands /\ NeverEqX
  /\ vpc \in {"solve", "given", "deter"} =>
       \A c \in {"directVerifyX", "VerifyX"} : checks[c].ret = 2

XAnswered ==
  /\ vpc \in {"verifyFXS", "message"} =>
       /\ checks["VerifyX"].ret \in {0, 1}
       /\ checks["VerifyX"].ans = 1 => NeverX
       /\ checks["VerifyX"].ret = 0 /\ fUseCommand \in Commands => ~ NeverX
  /\ vpc = "verifyFXS" => checks["VerifyX"].ret = 1

FXSAnswered ==
  vpc = "message" /\ checks["VerifyX"].ret = 1 => checks["VerifyFXS"].ret = 1

XInv == IInv /\ PInv /\ Kept
VInv ==
  /\ XInv /\ CommandType /\ EqAnswered /\ XAnswered /\ FXSAnswered
  /\ EquivalentContained /\ SolutionNotRefuted

-----------------------------------------------------------------------------
(* What a check notes down.                                                  *)
LEMMA Asked ==
  ASSUME CommandType, NEW c \in Check, NEW command, NEW never \in BOOLEAN,
         Ask(c, command, never)
  PROVE  /\ checks' \in [Check -> [ans : Answer, ret : {0, 1, 2}]]
         /\ \A d \in Check \ {c} : checks'[d] = checks[d]
         /\ checks'[c].ret \in {0, 1}
         /\ checks'[c].ans = 1 => never /\ command \in Commands
         /\ checks'[c].ret = 0 /\ command \in Commands => ~ never
         /\ command \in Commands /\ never => checks'[c].ret = 1
<1> USE DEF CommandType
<1>1. CASE command \in Commands
  <2>1. PICK a \in Answers(never) :
          checks' = [checks EXCEPT ![c] = [ans |-> a, ret |-> Returned(a)]]
    BY <1>1 DEF Ask
  <2>2. a \in Answer /\ Returned(a) \in {0, 1} /\ (Returned(a) = 0 <=> a = 0)
    BY DEF Answers, Returned, Answer
  <2>3. (a = 1 => never) /\ (a = 0 => ~ never)
    BY DEF Answers
  <2>4. checks'[c] = [ans |-> a, ret |-> Returned(a)]
    BY <2>1
  <2>5. checks' \in [Check -> [ans : Answer, ret : {0, 1, 2}]]
    BY <2>1, <2>2
  <2>6. \A d \in Check \ {c} : checks'[d] = checks[d]
    BY <2>1
  <2> QED BY <1>1, <2>2, <2>3, <2>4, <2>5, <2>6
<1>2. CASE command \notin Commands
  <2>1. checks' = [checks EXCEPT ![c] = [ans |-> -1, ret |-> 0]]
    BY <1>2 DEF Ask
  <2>2. checks'[c] = [ans |-> -1, ret |-> 0]
    BY <2>1
  <2>3. checks' \in [Check -> [ans : Answer, ret : {0, 1, 2}]]
    BY <2>1 DEF Answer
  <2>4. \A d \in Check \ {c} : checks'[d] = checks[d]
    BY <2>1
  <2> QED BY <1>2, <2>2, <2>3, <2>4
<1> QED BY <1>1, <1>2

(* The miters do not change as long as the solution and the circuit do not.  *)
LEMMA SameMiters ==
  ASSUME UNCHANGED <<vars, xv, det>>
  PROVE  NeverEqX' = NeverEqX /\ NeverX' = NeverX
<1>1. prob' = prob /\ ba' = ba /\ f0' = f0 /\ xv' = xv /\ det' = det
  BY DEF vars, inpro
<1>2. XInputs' = XInputs /\ startXvX' = startXvX
  BY <1>1 DEF XInputs, startXvX
<1>3. BaXv' = BaXv
  BY <1>1 DEF BaXv
<1>4. \A B, y : StepsOf(B, y)' = StepsOf(B, y)
  BY <1>1 DEF StepsOf, HiddenOf
<1>5. \A B, y : XNext(B, y)' = XNext(B, y) /\ XF0(B, y)' = XF0(B, y)
  BY <1>1, <1>4 DEF XNext, XF0
<1>6. PostXvX' = PostXvX
  BY <1>2, <1>3, <1>5 DEF PostXvX, NextXvX
<1>7. ReachedXvX' = ReachedXvX
  BY <1>2, <1>6 DEF ReachedXvX
<1>8. NeverEqX' = NeverEqX
  BY <1>2, <1>3, <1>5, <1>7 DEF NeverEqX, MiterVerifyEqX
<1>9. NeverX' = NeverX
  BY <1>2, <1>3, <1>5, <1>7 DEF NeverX, MiterVerifyX
<1> QED BY <1>8, <1>9

(* A circuit that is equivalent to the solution is contained in it.          *)
LEMMA EquivalentIsContained == NeverEqX => NeverX
BY DEF NeverEqX, NeverX, MiterVerifyEqX, MiterVerifyX

-----------------------------------------------------------------------------
LEMMA XInductively == XInv /\ [Next]_vars => XInv'
BY Inductively, PInductively, KeptStep DEF XInv

LEMMA CommandInitially == VInit => VInv
<1> SUFFICES ASSUME VInit PROVE VInv
  OBVIOUS
<1>1. XInv
  BY Initially, PInitially, KeptInitially DEF VInit, XInv
<1>2. checks = [c \in Check |-> [ans |-> -1, ret |-> 2]] /\ vpc = "solve"
  BY DEF VInit
<1>3. \A c \in Check : checks[c].ans = -1 /\ checks[c].ret = 2
  BY <1>2
<1>4. CommandType
  <2>1. [ans |-> -1, ret |-> 2] \in [ans : Answer, ret : {0, 1, 2}]
    BY DEF Answer
  <2>2. checks \in [Check -> [ans : Answer, ret : {0, 1, 2}]]
    BY <1>2, <2>1
  <2> QED BY <1>2, <2>2 DEF VInit, CommandType
<1>5. EqAnswered /\ XAnswered /\ FXSAnswered /\ EquivalentContained /\ SolutionNotRefuted
  BY <1>2, <1>3 DEF EqAnswered, XAnswered, FXSAnswered, EquivalentContained,
     SolutionNotRefuted, Check
<1> QED BY <1>1, <1>4, <1>5 DEF VInv

(* While X is being solved the command has asked nothing.                    *)
LEMMA SolveKeeps ==
  ASSUME VInv, Solve
  PROVE  VInv'
<1> USE DEF VInv
<1>1. vpc = "solve" /\ vpc' = vpc /\ Next /\ checks' = checks /\ det' = det
      /\ fUseCommand' = fUseCommand
  BY DEF Solve, vvars
<1>2. XInv'
  BY <1>1, XInductively
<1>3. checks["VerifyEqX"].ans # 1
  BY <1>1 DEF EqAnswered
<1>4. CommandType'
  BY <1>1 DEF CommandType
<1>5. EqAnswered' /\ XAnswered' /\ FXSAnswered'
  BY <1>1, <1>3 DEF EqAnswered, XAnswered, FXSAnswered
<1>6. EquivalentContained' /\ SolutionNotRefuted'
  BY <1>1 DEF EquivalentContained, SolutionNotRefuted
<1> QED BY <1>2, <1>4, <1>5, <1>6

(* Looking at the circuit and determinizing the solution ask nothing.        *)
LEMMA PrepareKeeps ==
  ASSUME VInv, Given \/ DirectVerifyDeter \/ Determinize
  PROVE  VInv'
<1> USE DEF VInv
<1>1. UNCHANGED vars /\ checks' = checks /\ pc = "done"
  BY DEF Given, DirectVerifyDeter, Determinize, CommandType
<1>2. XInv' /\ inact' = inact /\ pc' = pc
  BY <1>1, XInductively DEF vars
<1>3. CommandType'
  <2>1. CASE Given
    BY <1>1, <1>2, <2>1, XvAssumption DEF Given, CommandType
  <2>2. CASE DirectVerifyDeter
    BY <1>1, <1>2, <2>2 DEF DirectVerifyDeter, CommandType, Aba2Ba2
  <2>3. CASE Determinize
    BY <1>1, <1>2, <2>3 DEF Determinize, CommandType, Aba2Ba2
  <2> QED BY <2>1, <2>2, <2>3
<1>4. EqAnswered'
  <2>1. CASE Given
    BY <1>1, <2>1 DEF Given, EqAnswered
  <2>2. CASE DirectVerifyDeter
    BY <1>1, <1>2, <2>2 DEF DirectVerifyDeter, EqAnswered, Aba2Ba2
  <2>3. CASE Determinize
    <3>1. /\ vpc' = "verifyX" /\ xv' = xv /\ fUseCommand' = fUseCommand
          /\ (inact => det) => det' = det
      BY <2>3 DEF Determinize, Aba2Ba2, CommandType
    <3> SUFFICES ASSUME checks["VerifyEqX"].ans = 1
                 PROVE  (inact => det)' /\ (fUseCommand \in Commands /\ NeverEqX)'
      BY <1>1, <3>1 DEF EqAnswered
    <3>2. (inact => det) /\ fUseCommand \in Commands /\ NeverEqX
      BY DEF EqAnswered
    <3>3. det' = det
      BY <3>1, <3>2
    <3>4. NeverEqX' = NeverEqX
      BY <1>1, <3>1, <3>3, SameMiters
    <3>5. (fUseCommand \in Commands)'
      BY <3>1, <3>2 DEF Commands
    <3> QED BY <1>2, <3>2, <3>3, <3>4, <3>5
  <2> QED BY <2>1, <2>2, <2>3
<1>5. XAnswered' /\ FXSAnswered'
  BY <1>1 DEF Given, DirectVerifyDeter, Determinize, XAnswered, FXSAnswered
<1>6. EquivalentContained' /\ SolutionNotRefuted'
  BY <1>1 DEF EquivalentContained, SolutionNotRefuted
<1> QED BY <1>2, <1>3, <1>4, <1>5, <1>6

LEMMA EqKeeps ==
  ASSUME VInv, VerifyEqX
  PROVE  VInv'
<1> USE DEF VInv
<1>1. /\ vpc = "deter" /\ vpc' = "verifiedDeter" /\ pc = "done"
      /\ UNCHANGED <<vars, xv, fUseCommand, det>>
      /\ Ask("VerifyEqX", fUseCommand, NeverEqX)
  BY DEF VerifyEqX, CommandType
<1>2. NeverEqX \in BOOLEAN /\ "VerifyEqX" \in Check
  BY DEF NeverEqX, Check
<1>3. /\ checks' \in [Check -> [ans : Answer, ret : {0, 1, 2}]]
      /\ \A d \in Check \ {"VerifyEqX"} : checks'[d] = checks[d]
      /\ checks'["VerifyEqX"].ans = 1 => NeverEqX /\ fUseCommand \in Commands
  BY <1>1, <1>2, Asked
<1>4. XInv' /\ inact' = inact /\ pc' = pc
  BY <1>1, XInductively DEF vars
<1>5. NeverEqX' = NeverEqX /\ (fUseCommand \in Commands)' = (fUseCommand \in Commands)
  BY <1>1, SameMiters DEF Commands
<1>6. CommandType'
  BY <1>1, <1>3, <1>4 DEF CommandType
<1>7. EqAnswered'
  BY <1>1, <1>3, <1>4, <1>5 DEF EqAnswered
<1>8. XAnswered' /\ FXSAnswered'
  BY <1>1 DEF XAnswered, FXSAnswered
<1>9. EquivalentContained'
  <2>1. \A c \in {"directVerifyX", "VerifyX"} : checks'[c].ret = 2
    BY <1>1, <1>3 DEF EqAnswered, Check
  <2> QED BY <2>1 DEF EquivalentContained
<1>10. SolutionNotRefuted'
  BY <1>3 DEF SolutionNotRefuted, Check
<1> QED BY <1>4, <1>6, <1>7, <1>8, <1>9, <1>10

(* -d and -v ask whether the circuit is contained, with the same miter.      *)
LEMMA ContainmentKeeps ==
  ASSUME VInv, DirectVerify \/ VerifyX
  PROVE  VInv'
<1> USE DEF VInv
<1> DEFINE c == IF VerifyX THEN "VerifyX" ELSE "directVerifyX"
<1>1. /\ vpc \in {"given", "verifiedDeter", "verifyX"} /\ pc = "done"
      /\ UNCHANGED <<vars, xv, fUseCommand, det>>
      /\ Ask(c, fUseCommand, NeverX)
      /\ ~ VerifyX => vpc' = "verifiedDirectly"
      /\ VerifyX => vpc' = IF checks'["VerifyX"].ret = 1 THEN "verifyFXS" ELSE "message"
  BY DEF DirectVerify, VerifyX, CommandType
<1>2. NeverX \in BOOLEAN /\ c \in Check \ {"VerifyEqX", "VerifyFXS"}
  BY DEF NeverX, Check
<1> HIDE DEF c
<1>3. /\ checks' \in [Check -> [ans : Answer, ret : {0, 1, 2}]]
      /\ \A d \in Check \ {c} : checks'[d] = checks[d]
      /\ checks'[c].ret \in {0, 1}
      /\ checks'[c].ans = 1 => NeverX
      /\ checks'[c].ret = 0 /\ fUseCommand \in Commands => ~ NeverX
      /\ fUseCommand \in Commands /\ NeverX => checks'[c].ret = 1
  BY <1>1, <1>2, Asked
<1>4. XInv' /\ inact' = inact /\ pc' = pc
  BY <1>1, XInductively DEF vars
<1>5. /\ NeverEqX' = NeverEqX /\ NeverX' = NeverX
      /\ (fUseCommand \in Commands)' = (fUseCommand \in Commands)
  BY <1>1, SameMiters DEF Commands
<1>6. vpc' \in {"verifiedDirectly", "verifyFXS", "message"}
  BY <1>1
<1>7. CommandType'
  BY <1>1, <1>3, <1>4, <1>6 DEF CommandType
<1>8. checks'["VerifyEqX"] = checks["VerifyEqX"] /\ checks'["VerifyFXS"] = checks["VerifyFXS"]
  BY <1>2, <1>3 DEF Check
<1>9. EqAnswered'
  BY <1>1, <1>4, <1>5, <1>6, <1>8 DEF EqAnswered
<1>10. XAnswered'
  BY <1>1, <1>3, <1>5, <1>6 DEF XAnswered, c
<1>11. FXSAnswered'
  BY <1>1 DEF FXSAnswered
<1>12. EquivalentContained'
  <2> SUFFICES ASSUME checks["VerifyEqX"].ans = 1, NEW d \in {"directVerifyX", "VerifyX"}
               PROVE  checks'[d].ret # 0
    BY <1>8 DEF EquivalentContained
  <2>1. fUseCommand \in Commands /\ NeverX
    BY EquivalentIsContained DEF EqAnswered
  <2>2. CASE d = c
    BY <1>3, <2>1, <2>2
  <2>3. CASE d # c
    BY <1>3, <2>3 DEF EquivalentContained, Check
  <2> QED BY <2>2, <2>3
<1>13. SolutionNotRefuted'
  BY <1>8 DEF SolutionNotRefuted
<1> QED BY <1>4, <1>7, <1>9, <1>10, <1>11, <1>12, <1>13

(* The miter of F, X and S is never 1, so no prover can say that it is.      *)
LEMMA FXSKeeps ==
  ASSUME VInv, VerifyFXS
  PROVE  VInv'
<1> USE DEF VInv
<1>1. /\ vpc = "verifyFXS" /\ vpc' = "message" /\ pc = "done"
      /\ UNCHANGED <<vars, xv, fUseCommand, det>>
      /\ Ask("VerifyFXS", 0, NeverFXS)
  BY DEF VerifyFXS, CommandType
<1>2. NeverFXS \in BOOLEAN /\ "VerifyFXS" \in Check /\ 0 \in Commands /\ NeverFXS
  BY <1>1, NeverFXSHolds DEF NeverFXS, Check, Commands, XInv
<1>3. /\ checks' \in [Check -> [ans : Answer, ret : {0, 1, 2}]]
      /\ \A d \in Check \ {"VerifyFXS"} : checks'[d] = checks[d]
      /\ checks'["VerifyFXS"].ret = 1
  BY <1>1, <1>2, Asked
<1>4. XInv' /\ inact' = inact /\ pc' = pc
  BY <1>1, XInductively DEF vars
<1>5. /\ NeverEqX' = NeverEqX /\ NeverX' = NeverX
      /\ (fUseCommand \in Commands)' = (fUseCommand \in Commands)
  BY <1>1, SameMiters DEF Commands
<1>6. \A d \in {"VerifyEqX", "directVerifyX", "VerifyX"} : checks'[d] = checks[d]
  BY <1>3 DEF Check
<1>7. CommandType'
  BY <1>1, <1>3, <1>4 DEF CommandType
<1>8. EqAnswered'
  BY <1>1, <1>4, <1>5, <1>6 DEF EqAnswered
<1>9. XAnswered' /\ FXSAnswered'
  BY <1>1, <1>3, <1>5, <1>6 DEF XAnswered, FXSAnswered
<1>10. EquivalentContained' /\ SolutionNotRefuted'
  BY <1>3, <1>6 DEF EquivalentContained, SolutionNotRefuted
<1> QED BY <1>4, <1>7, <1>8, <1>9, <1>10

LEMMA CommandStutter == VInv /\ UNCHANGED <<vars, vvars>> => VInv'
<1> SUFFICES ASSUME VInv, UNCHANGED <<vars, vvars>> PROVE VInv'
  OBVIOUS
<1> USE DEF VInv
<1>1. UNCHANGED vars /\ xv' = xv /\ fUseCommand' = fUseCommand /\ det' = det
      /\ checks' = checks /\ vpc' = vpc
  BY DEF vvars
<1>2. XInv' /\ inact' = inact /\ pc' = pc
  BY <1>1, XInductively DEF vars
<1>3. /\ NeverEqX' = NeverEqX /\ NeverX' = NeverX
      /\ (fUseCommand \in Commands)' = (fUseCommand \in Commands)
  BY <1>1, SameMiters DEF Commands
<1>4. CommandType'
  BY <1>1, <1>2 DEF CommandType
<1>5. EqAnswered' /\ XAnswered' /\ FXSAnswered'
  BY <1>1, <1>2, <1>3 DEF EqAnswered, XAnswered, FXSAnswered
<1>6. EquivalentContained' /\ SolutionNotRefuted'
  BY <1>1 DEF EquivalentContained, SolutionNotRefuted
<1> QED BY <1>2, <1>4, <1>5, <1>6

(* Every answer noted down is right about the X the command holds then.      *)
THEOREM CommandInductive == VSpec => []VInv
<1>1. VInv /\ [VNext]_<<vars, vvars>> => VInv'
  BY SolveKeeps, PrepareKeeps, EqKeeps, ContainmentKeeps, FXSKeeps, CommandStutter DEF VNext
<1> QED BY CommandInitially, <1>1, PTL DEF VSpec

(* No prover ever refutes that F under the solution stays within S, for any  *)
(* F and S, whether the solution was determinized or not.                    *)
THEOREM NotRefuted == VSpec => []SolutionNotRefuted
BY CommandInductive, PTL DEF VInv

(* A circuit that -z found equivalent to the solution is found within it by  *)
(* -d and -v, whichever determinization came between.                        *)
THEOREM EquivalentIsFoundContained == VSpec => []EquivalentContained
BY CommandInductive, PTL DEF VInv

-----------------------------------------------------------------------------
(* One step of the finished X, by the circuits of S and F.                   *)
LEMMA XStepOfCircuits ==
  ASSUME pc = "done", IInv, NEW x \in QX, NEW y \in Sym
  PROVE  LET s  == x[1][1][1]
             f  == x[1][2][1]
             nS == prob.S[<<s, y>>].agrees /\ x[1][1][2]
             nF == prob.F[<<f, y>>].agrees /\ x[1][2][2]
             a  == ba[With(x, y)]
         IN /\ a.f0 = ((nF => nS) /\ x[2])
            /\ a.next = << << <<prob.S[<<s, y>>].next, nS>>,
                              <<prob.F[<<f, y>>].next, nF>> >>, a.f0>>
<1>1. prob \in Problem /\ ba = PrefixCloseCir(Safe)
  BY DEF IInv, TypeOK, Stages, Entered
<1> QED BY <1>1, SafeStep DEF With

LEMMA CircuitTypes ==
  ASSUME IInv, NEW y \in Sym
  PROVE  /\ \A s \in SLatch : /\ prob.S[<<s, y>>].agrees \in BOOLEAN
                             /\ prob.S[<<s, y>>].next \in SLatch
         /\ \A f \in FLatch : /\ prob.F[<<f, y>>].agrees \in BOOLEAN
                             /\ prob.F[<<f, y>>].next \in FLatch
BY DEF IInv, TypeOK, Problem, Sequential

(* A component with states K beside F: it writes v[k] and reads u.  T is a   *)
(* set of its states beside those of S and F that it never leaves, and where *)
(* F keeps to S.                                                             *)
Keeps(v, next, T) ==
  \A z \in T : \A y \in Sym :
    y[2] = v[z[1]] /\ prob.F[<<z[3], y>>].agrees =>
      /\ prob.S[<<z[2], y>>].agrees
      /\ <<next[<<z[1], y[1]>>], prob.S[<<z[2], y>>].next, prob.F[<<z[3], y>>].next>> \in T

(* The latches x of X beside the state k: unless F disagreed before, S did   *)
(* not, and the three are in T.                                              *)
Beside(x, k, T) ==
  /\ x \in QX /\ x[2]
  /\ x[1][2][2] => x[1][1][2] /\ <<k, x[1][1][1], x[1][2][1]>> \in T

LEMMA BesideStep ==
  ASSUME pc = "done", IInv, NEW v, NEW next, NEW T, Keeps(v, next, T),
         NEW k, NEW x, Beside(x, k, T), NEW y \in Sym, y[2] = v[k]
  PROVE  ba[With(x, y)].f0 /\ Beside(ba[With(x, y)].next, next[<<k, y[1]>>], T)
<1> DEFINE s  == x[1][1][1]
           gS == x[1][1][2]
           f  == x[1][2][1]
           gF == x[1][2][2]
           cS == prob.S[<<s, y>>]
           cF == prob.F[<<f, y>>]
           a  == ba[With(x, y)]
<1>1. x \in QX /\ x[2] /\ (gF => gS /\ <<k, s, f>> \in T)
  BY DEF Beside
<1>2. /\ s \in SLatch /\ f \in FLatch /\ gS \in BOOLEAN /\ gF \in BOOLEAN
  BY <1>1 DEF QX, Q, QS, QF
<1>3. /\ a.f0 = (((cF.agrees /\ gF) => (cS.agrees /\ gS)) /\ x[2])
      /\ a.next = << << <<cS.next, cS.agrees /\ gS>>, <<cF.next, cF.agrees /\ gF>> >>, a.f0>>
  BY <1>1, XStepOfCircuits
<1>4. a.f0 \in BOOLEAN /\ a.next \in QX
  BY <1>1, XStep
<1>5. cS.agrees \in BOOLEAN /\ cF.agrees \in BOOLEAN
  BY <1>2, CircuitTypes
<1>6. cF.agrees /\ gF => cS.agrees /\ <<next[<<k, y[1]>>], cS.next, cF.next>> \in T
  <2> SUFFICES ASSUME cF.agrees, gF
               PROVE  cS.agrees /\ <<next[<<k, y[1]>>], cS.next, cF.next>> \in T
    OBVIOUS
  <2>1. <<k, s, f>> \in T
    BY <1>1
  <2> QED BY <2>1 DEF Keeps
<1> HIDE DEF s, gS, f, gF, cS, cF, a
<1>7. a.f0
  BY <1>1, <1>2, <1>3, <1>5, <1>6
<1>8. /\ a.next[2] = a.f0
      /\ a.next[1][1][1] = cS.next /\ a.next[1][1][2] = (cS.agrees /\ gS)
      /\ a.next[1][2][1] = cF.next /\ a.next[1][2][2] = (cF.agrees /\ gF)
  BY <1>3
<1>9. Beside(a.next, next[<<k, y[1]>>], T)
  BY <1>1, <1>4, <1>6, <1>7, <1>8 DEF Beside
<1> QED BY <1>7, <1>9 DEF a

(* The states that can be beside such a component can stay so for ever, so   *)
(* the fixpoint kept them and X accepts what the component does.             *)
LEMMA BesideAccepted ==
  ASSUME pc = "done", XInv, NEW K, NEW v \in [K -> V], NEW next \in [K \X U -> K], NEW T,
         Keeps(v, next, T),
         NEW k \in K, NEW x, Beside(x, k, T), NEW y \in Sym, y[2] = v[k]
  PROVE  With(x, y) \in f0 /\ Beside(ba[With(x, y)].next, next[<<k, y[1]>>], T)
<1> DEFINE W == { l \in QX : \E j \in K : Beside(l, j, T) }
<1> USE DEF XInv
<1>1. Progressing(W)
  <2> SUFFICES ASSUME NEW l \in W, NEW n \in N
               PROVE  \E w \in V : \A u \in U :
                        ba[<<l, u, w, n>>].f0 /\ ba[<<l, u, w, n>>].next \in W
    BY DEF Progressing
  <2>1. PICK j \in K : Beside(l, j, T)
    OBVIOUS
  <2>2. ASSUME NEW u \in U
        PROVE  ba[<<l, u, v[j], n>>].f0 /\ ba[<<l, u, v[j], n>>].next \in W
    <3> DEFINE z == <<u, v[j], n>>
    <3>1. z \in Sym /\ z[2] = v[j] /\ With(l, z) = <<l, u, v[j], n>>
      BY DEF Sym, With
    <3>2. ba[With(l, z)].f0 /\ Beside(ba[With(l, z)].next, next[<<j, z[1]>>], T)
      BY <2>1, <3>1, BesideStep
    <3>3. ba[With(l, z)].next \in QX
      BY <3>2 DEF Beside
    <3>4. next[<<j, z[1]>>] \in K
      OBVIOUS
    <3> QED BY <3>1, <3>2, <3>3, <3>4
  <2>3. v[j] \in V
    OBVIOUS
  <2> QED BY <2>2, <2>3
<1>2. W \in SUBSET QX
  OBVIOUS
<1> HIDE DEF W
<1>3. W \subseteq pNtkCheck
  BY <1>1, <1>2 DEF Kept, Entered
<1>4. ba[With(x, y)].f0 /\ Beside(ba[With(x, y)].next, next[<<k, y[1]>>], T)
  BY BesideStep
<1>5. next[<<k, y[1]>>] \in K
  BY DEF Sym
<1>6. ba[With(x, y)].next \in W
  BY <1>4, <1>5 DEF W, Beside
<1>7. With(x, y) \in Steps(QX)
  BY XStep DEF Beside
<1>8. With(x, y) \in f0
  BY <1>3, <1>4, <1>6, <1>7 DEF PInv, Restricted, Entered
<1> QED BY <1>4, <1>8

(* When it solves the problem for as many steps as there are states, what    *)
(* can be reached is a set that it never leaves.                             *)
LEMMA ReachedKeeps ==
  ASSUME IInv, EnoughCycles, NEW K \in {CState, XLatch},
         NEW v, NEW next \in [K \X U -> K], NEW k \in K,
         \A z \in Reached(<<k, initS, initF>>, PostBeside(K, v, next), Cycles) :
           \A y \in Driven(v, z) :
             prob.S[<<z[2], y>>].agrees
  PROVE  LET T == Reached(<<k, initS, initF>>, PostBeside(K, v, next), Cycles)
         IN Keeps(v, next, T) /\ Beside(initX, k, T)
<1> DEFINE Z == K \X SLatch \X FLatch
           start == <<k, initS, initF>>
           post == PostBeside(K, v, next)
           T == Reached(start, post, Cycles)
<1>1. start \in Z
  BY LatchAssumption
<1>2. post \in [Z -> SUBSET Z]
  <2>1. ASSUME NEW z \in Z, NEW y \in Sym
        PROVE  <<next[<<z[1], y[1]>>], prob.S[<<z[2], y>>].next, prob.F[<<z[3], y>>].next>> \in Z
    <3>1. y[1] \in U
      BY DEF Sym
    <3>2. z[1] \in K /\ z[2] \in SLatch /\ z[3] \in FLatch
      OBVIOUS
    <3>3. next[<<z[1], y[1]>>] \in K
      BY <3>1, <3>2
    <3>4. prob.S[<<z[2], y>>].next \in SLatch /\ prob.F[<<z[3], y>>].next \in FLatch
      BY <3>2, CircuitTypes
    <3> QED BY <3>3, <3>4
  <2>2. ASSUME NEW z \in Z PROVE post[z] \subseteq Z
    <3>1. post[z] = { <<next[<<z[1], y[1]>>], prob.S[<<z[2], y>>].next,
                        prob.F[<<z[3], y>>].next>> : y \in Driven(v, z) }
      BY DEF PostBeside
    <3>2. Driven(v, z) \subseteq Sym
      BY DEF Driven
    <3> HIDE DEF post, Z
    <3>3. ASSUME NEW w \in post[z] PROVE w \in Z
      <4>1. PICK y \in Driven(v, z) :
              w = <<next[<<z[1], y[1]>>], prob.S[<<z[2], y>>].next, prob.F[<<z[3], y>>].next>>
        BY <3>1
      <4> QED BY <2>1, <3>2, <4>1
    <3> QED BY <3>3
  <2>3. DOMAIN post = Z /\ post = [z \in Z |-> post[z]]
    BY DEF PostBeside
  <2> HIDE DEF post, Z
  <2> QED BY <2>2, <2>3
<1>3. IsFiniteSet(Z) /\ Cardinality(Z) <= Cycles /\ Cycles \in Nat
  BY XvAssumption DEF EnoughCycles
<1>4. T \subseteq Z /\ start \in T
  <2>1. Reached(start, post, 0) = {start} /\ T \subseteq Z
    <3> HIDE DEF Z, start, post
    <3> QED BY <1>1, <1>2, <1>3, ReachedEquation
  <2>2. 0 \in 0 .. Cycles
    BY <1>3
  <2>3. Reached(start, post, 0) \subseteq T
    <3> HIDE DEF Z, start, post
    <3> QED BY <1>1, <1>2, <1>3, <2>2, ReachedMore
  <2> QED BY <2>1, <2>3
<1>5. \A z \in T : post[z] \subseteq T
  <2> HIDE DEF Z, start, post
  <2> QED BY <1>1, <1>2, <1>3, ReachedClosed
<1>6. \A z \in T : \A y \in Driven(v, z) :
        prob.S[<<z[2], y>>].agrees
  OBVIOUS
<1> HIDE DEF T
<1>7. Keeps(v, next, T)
  <2> SUFFICES ASSUME NEW z \in T, NEW y \in Sym, y[2] = v[z[1]], prob.F[<<z[3], y>>].agrees
               PROVE  /\ prob.S[<<z[2], y>>].agrees
                      /\ <<next[<<z[1], y[1]>>], prob.S[<<z[2], y>>].next,
                           prob.F[<<z[3], y>>].next>> \in T
    BY DEF Keeps
  <2>1. z \in Z
    BY <1>4
  <2>2. post[z] = { <<next[<<z[1], y1[1]>>], prob.S[<<z[2], y1>>].next,
                      prob.F[<<z[3], y1>>].next>> :
                    y1 \in Driven(v, z) }
    BY <2>1 DEF PostBeside
  <2>3. y \in Driven(v, z)
    BY DEF Driven
  <2>4. <<next[<<z[1], y[1]>>], prob.S[<<z[2], y>>].next, prob.F[<<z[3], y>>].next>> \in post[z]
    BY <2>2, <2>3
  <2> QED BY <1>5, <1>6, <2>3, <2>4
<1>8. Beside(initX, k, T)
  <2>1. initX \in QX
    BY InitXType
  <2> QED BY <1>4, <2>1 DEF Beside, initX, initIpS, initPrefix
<1> QED BY <1>7, <1>8 DEF T

-----------------------------------------------------------------------------
LEMMA ControllerAccepted ==
  ASSUME pc = "done", XInv, EnoughCycles, NEW c \in Controllers, Solves(c, Cycles)
  PROVE  Accepted(c, Cycles)
<1> USE DEF XInv
<1> DEFINE T == Reached(<<c.init, initS, initF>>, PostBeside(CState, c.v, c.next), Cycles)
           Z == CState \X QX
           start == <<c.init, initX>>
           post == PostControlled(c)
           B == { z \in Z : Beside(z[2], z[1], T) }
<1>1. c.init \in CState /\ c.v \in [CState -> V] /\ c.next \in [CState \X U -> CState]
  BY ControllerAssumption
<1>2. Keeps(c.v, c.next, T) /\ Beside(initX, c.init, T)
  <2>1. \A z \in T :
          \A y \in Driven(c.v, z) :
            prob.S[<<z[2], y>>].agrees
    BY DEF Solves
  <2>2. CState \in {CState, XLatch}
    OBVIOUS
  <2> QED BY <1>1, <2>1, <2>2, ReachedKeeps
<1> HIDE DEF T
<1>3. ASSUME NEW z \in B, NEW y \in Controlled(c, z)
      PROVE  /\ With(z[2], y) \in f0
             /\ <<c.next[<<z[1], y[1]>>], ba[With(z[2], y)].next>> \in B
  <2>1. z[1] \in CState /\ z[2] \in QX /\ Beside(z[2], z[1], T)
    OBVIOUS
  <2>2. y \in Sym /\ y[2] = c.v[z[1]] /\ y[1] \in U
    BY DEF Controlled, Sym
  <2> HIDE DEF B
  <2>3. With(z[2], y) \in f0 /\ Beside(ba[With(z[2], y)].next, c.next[<<z[1], y[1]>>], T)
    BY <1>1, <1>2, <2>1, <2>2, BesideAccepted
  <2>4. ba[With(z[2], y)].next \in QX
    BY <2>3 DEF Beside
  <2>5. c.next[<<z[1], y[1]>>] \in CState
    BY <1>1, <2>1, <2>2
  <2> QED BY <2>3, <2>4, <2>5 DEF B
<1>4. start \in Z /\ start \in B
  BY <1>1, <1>2, InitXType
<1>5. post \in [Z -> SUBSET Z]
  <2>1. ASSUME NEW z \in Z, NEW y \in Controlled(c, z)
        PROVE  <<c.next[<<z[1], y[1]>>], ba[With(z[2], y)].next>> \in Z
    <3>1. z[1] \in CState /\ z[2] \in QX
      OBVIOUS
    <3>2. y \in Sym /\ y[1] \in U
      BY DEF Controlled, Sym
    <3>3. ba[With(z[2], y)].next \in QX
      BY <3>1, <3>2, XStep
    <3>4. c.next[<<z[1], y[1]>>] \in CState
      BY <1>1, <3>1, <3>2
    <3> QED BY <3>3, <3>4
  <2>2. ASSUME NEW z \in Z PROVE post[z] \subseteq Z
    <3>1. post[z] = { <<c.next[<<z[1], y[1]>>], ba[With(z[2], y)].next>> : y \in Controlled(c, z) }
      BY DEF PostControlled
    <3> HIDE DEF post, Z
    <3> QED BY <2>1, <3>1
  <2>3. DOMAIN post = Z /\ post = [z \in Z |-> post[z]]
    BY DEF PostControlled
  <2> HIDE DEF post, Z
  <2> QED BY <2>2, <2>3
<1>6. \A z \in Z \cap B : post[z] \subseteq B
  <2> TAKE z \in Z \cap B
  <2>1. post[z] = { <<c.next[<<z[1], y[1]>>], ba[With(z[2], y)].next>> : y \in Controlled(c, z) }
    BY DEF PostControlled
  <2> HIDE DEF B, post
  <2> QED BY <1>3, <2>1
<1>7. Reached(start, post, Cycles) \subseteq B
  <2> HIDE DEF B, Z, post, start
  <2> QED BY <1>4, <1>5, <1>6, XvAssumption, ReachedInduction
<1>8. \A z \in Reached(start, post, Cycles) :
        \A y \in Controlled(c, z) : With(z[2], y) \in f0
  <2> HIDE DEF B
  <2> QED BY <1>3, <1>7
<1> QED BY <1>8 DEF Accepted

(* The solution holds every controller that solves the problem, for all F, S *)
(* and controllers: neither hiding nor the fixpoint loses one.               *)
THEOREM ControllersFound ==
  ASSUME EnoughCycles
  PROVE  VSpec => []ControllersContained
<1>1. VInv => ControllersContained
  <2> SUFFICES ASSUME VInv, pc = "done", NEW c \in Controllers, Solves(c, Cycles)
               PROVE  Accepted(c, Cycles)
    BY DEF ControllersContained
  <2> QED BY ControllerAccepted DEF VInv
<1> QED BY <1>1, CommandInductive, PTL

-----------------------------------------------------------------------------
(* The given circuit.                                                        *)
XvTaken == pc = "done" /\ XInv /\ xv \in Xvs
StatesXvX == (XLatch \X BOOLEAN) \X SUBSET QX
StatesXv == XLatch \X SLatch \X FLatch

LEMMA XvStep ==
  ASSUME xv \in Xvs, NEW z \in XLatch \X BOOLEAN, NEW y \in Sym
  PROVE  LET a == BaXv[With(z, y)]
             c == xv[<<z[1], y>>]
         IN /\ a.f0 = (c.agrees /\ z[2])
            /\ a.next = <<c.next, a.f0>>
            /\ a.f0 \in BOOLEAN /\ c.agrees \in BOOLEAN /\ c.next \in XLatch
<1>1. xv \in Sequential(XLatch)
  BY XvAssumption
<1>2. xv[<<z[1], y>>] \in [agrees : BOOLEAN, next : XLatch]
  BY <1>1 DEF Sequential
<1>3. PICK q \in XLatch, g \in BOOLEAN : z = <<q, g>>
  OBVIOUS
<1> QED BY <1>1, <1>2, <1>3, BaInitStep DEF BaXv, With

LEMMA PostXvXType ==
  ASSUME XvTaken
  PROVE  /\ PostXvX \in [StatesXvX -> SUBSET StatesXvX]
         /\ startXvX \in StatesXvX
         /\ ReachedXvX \subseteq StatesXvX
<1> USE DEF XvTaken, XInv
<1>1. ASSUME NEW z \in StatesXvX, NEW y \in Sym PROVE NextXvX(z, y) \in StatesXvX
  <2>1. z[1] \in XLatch \X BOOLEAN /\ z[2] \in SUBSET QX
    BY DEF StatesXvX
  <2>2. BaXv[With(z[1], y)].next \in XLatch \X BOOLEAN
    <3>1. PICK g \in BOOLEAN : BaXv[With(z[1], y)].next = <<xv[<<z[1][1], y>>].next, g>>
      BY <2>1, XvStep
    <3>2. xv[<<z[1][1], y>>].next \in XLatch
      BY <2>1, XvStep
    <3> QED BY <3>1, <3>2
  <2>3. XNext(z[2], y) \in SUBSET QX
    BY <2>1, XNextType
  <2> QED BY <2>2, <2>3 DEF NextXvX, StatesXvX
<1>2. PostXvX \in [StatesXvX -> SUBSET StatesXvX]
  <2>1. PostXvX = [z \in StatesXvX |-> { NextXvX(z, y) : y \in XInputs }]
    BY DEF PostXvX, StatesXvX
  <2> QED BY <1>1, <2>1, InputsType
<1>3. startXvX \in StatesXvX
  BY XvAssumption, InitXType DEF startXvX, StatesXvX
<1> QED BY <1>2, <1>3, ReachedEquation, XvAssumption DEF ReachedXvX

LEMMA PostXvType ==
  ASSUME XvTaken
  PROVE  /\ PostXv \in [StatesXv -> SUBSET StatesXv]
         /\ <<initXv, initS, initF>> \in StatesXv
<1> USE DEF XvTaken, XInv
<1>1. ASSUME NEW z \in StatesXv PROVE PostXv[z] \subseteq StatesXv
  <2>1. z[1] \in XLatch /\ z[2] \in SLatch /\ z[3] \in FLatch
    BY DEF StatesXv
  <2>2. ASSUME NEW y \in XvDriven(z)
        PROVE  <<xv[<<z[1], y>>].next, prob.S[<<z[2], y>>].next, prob.F[<<z[3], y>>].next>>
                 \in StatesXv
    <3>1. y \in Sym
      BY DEF XvDriven
    <3>2. xv \in Sequential(XLatch)
      BY XvAssumption
    <3>3. xv[<<z[1], y>>].next \in XLatch
      BY <2>1, <3>1, <3>2 DEF Sequential
    <3>4. prob.S[<<z[2], y>>].next \in SLatch /\ prob.F[<<z[3], y>>].next \in FLatch
      BY <2>1, <3>1, CircuitTypes
    <3> QED BY <3>3, <3>4 DEF StatesXv
  <2>3. PostXv[z] = { <<xv[<<z[1], y>>].next, prob.S[<<z[2], y>>].next,
                        prob.F[<<z[3], y>>].next>> : y \in XvDriven(z) }
    BY DEF PostXv, StatesXv
  <2> QED BY <2>2, <2>3
<1>2. DOMAIN PostXv = StatesXv /\ PostXv = [z \in StatesXv |-> PostXv[z]]
  BY DEF PostXv, StatesXv
<1>3. <<initXv, initS, initF>> \in StatesXv
  BY XvAssumption, LatchAssumption DEF StatesXv
<1> QED BY <1>1, <1>2, <1>3

(* The circuit reads u only.                                                 *)
LEMMA DrivesSame ==
  ASSUME DrivesV, xv \in Xvs, NEW q \in XLatch, NEW y \in Sym, NEW z \in Sym,
         z[1] = y[1], z[2] = y[2]
  PROVE  xv[<<q, z>>] = xv[<<q, y>>]
<1>1. PICK v \in V, r \in XLatch :
        \A w \in V : \A n \in N : xv[<<q, <<y[1], w, n>>>>] = [agrees |-> w = v, next |-> r]
  BY DEF DrivesV, Sym
<1>2. y = <<y[1], y[2], y[3]>> /\ y[2] \in V /\ y[3] \in N
      /\ z = <<y[1], y[2], z[3]>> /\ z[3] \in N
  BY DEF Sym
<1>3. \A n \in N : xv[<<q, <<y[1], y[2], n>>>>] = [agrees |-> y[2] = v, next |-> r]
  BY <1>1, <1>2
<1> QED BY <1>2, <1>3

-----------------------------------------------------------------------------
(* When -v found the circuit contained, the product of the miter follows F   *)
(* and S as long as the circuit goes on with them.                           *)
Shadows(w, z) ==
  /\ w[1] = <<z[1], TRUE>>
  /\ << << <<z[2], TRUE>>, <<z[3], TRUE>> >>, TRUE>> \in w[2]

LEMMA ShadowStep ==
  ASSUME XvTaken, DrivesV, NeverX,
         NEW w \in ReachedXvX, NEW z \in StatesXv, Shadows(w, z), NEW y \in XvDriven(z)
  PROVE  /\ prob.S[<<z[2], y>>].agrees
         /\ \E r \in PostXvX[w] :
              Shadows(r, <<xv[<<z[1], y>>].next, prob.S[<<z[2], y>>].next,
                           prob.F[<<z[3], y>>].next>>)
<1> USE DEF XvTaken, XInv
<1> DEFINE x == << << <<z[2], TRUE>>, <<z[3], TRUE>> >>, TRUE>>
           y0 == IF det THEN <<y[1], y[2], CHOOSE n \in N : TRUE>> ELSE y
           a == ba[With(x, y)]
<1>1. y \in Sym /\ xv[<<z[1], y>>].agrees /\ prob.F[<<z[3], y>>].agrees
  BY DEF XvDriven
<1>2. z[1] \in XLatch /\ z[2] \in SLatch /\ z[3] \in FLatch
  BY DEF StatesXv
<1>3. w \in StatesXvX /\ w[1] = <<z[1], TRUE>> /\ x \in w[2]
  BY PostXvXType DEF Shadows
<1>4. y0 \in XInputs /\ y0 \in Sym /\ y0[1] = y[1] /\ y0[2] = y[2] /\ y[3] \in HiddenOf(y0)
  <2>1. y = <<y[1], y[2], y[3]>> /\ y[1] \in U /\ y[2] \in V /\ y[3] \in N
    BY <1>1 DEF Sym
  <2>2. (CHOOSE n \in N : TRUE) \in N
    BY SymbolAssumption
  <2>3. CASE det
    BY <2>1, <2>2, <2>3 DEF XInputs, HiddenOf, Sym
  <2>4. CASE ~ det
    BY <2>1, <2>4 DEF XInputs, HiddenOf, Sym
  <2> QED BY <2>3, <2>4
<1> HIDE DEF y0
<1>5. xv[<<z[1], y0>>] = xv[<<z[1], y>>]
  BY <1>1, <1>2, <1>4, DrivesSame
<1>6. w[1] \in XLatch \X BOOLEAN /\ w[1][1] = z[1] /\ w[1][2] = TRUE
  <2>1. w[1] \in XLatch \X BOOLEAN
    BY <1>3 DEF StatesXvX
  <2> HIDE DEF x
  <2> QED BY <1>3, <2>1
<1>7. BaXv[With(w[1], y0)].f0 /\ BaXv[With(w[1], y0)].next = <<xv[<<z[1], y>>].next, TRUE>>
  <2> DEFINE b == BaXv[With(w[1], y0)]
             c == xv[<<w[1][1], y0>>]
  <2>1. b.f0 = (c.agrees /\ w[1][2]) /\ b.next = <<c.next, b.f0>> /\ c.agrees \in BOOLEAN
    BY <1>4, <1>6, XvStep
  <2>2. c = xv[<<z[1], y>>]
    BY <1>5, <1>6
  <2> HIDE DEF b, c
  <2>3. b.f0 = TRUE
    BY <1>1, <1>6, <2>1, <2>2
  <2> QED BY <2>1, <2>2, <2>3 DEF b
<1>8. XF0(w[2], y0)
  BY <1>4, <1>7 DEF NeverX, MiterVerifyX
<1>9. x \in QX /\ x[1][1][1] = z[2] /\ x[1][2][1] = z[3] /\ x[1][1][2] /\ x[1][2][2] /\ x[2]
  BY <1>2 DEF QX, Q, QS, QF
<1> HIDE DEF x
<1>10. With(x, y) \in StepsOf(w[2], y0)
  <2>1. y = <<y0[1], y0[2], y[3]>>
    BY <1>1, <1>4 DEF Sym
  <2> QED BY <1>3, <1>4, <2>1 DEF StepsOf
<1>11. With(x, y) \in f0
  BY <1>8, <1>10 DEF XF0
<1> DEFINE cS == prob.S[<<z[2], y>>]
           cF == prob.F[<<z[3], y>>]
<1>12. /\ a.f0 = (((cF.agrees /\ x[1][2][2]) => (cS.agrees /\ x[1][1][2])) /\ x[2])
       /\ a.next[1] = << <<cS.next, cS.agrees /\ x[1][1][2]>>,
                         <<cF.next, cF.agrees /\ x[1][2][2]>> >>
  BY <1>1, <1>9, XStepOfCircuits
<1>13. a.f0
  BY <1>1, <1>9, <1>11, XStep
<1>14. cS.agrees \in BOOLEAN /\ cF.agrees \in BOOLEAN
  BY <1>1, <1>2, CircuitTypes
<1>15. cS.agrees /\ cF.agrees
  BY <1>1, <1>9, <1>12, <1>13
<1>16. a.next[1] = << <<cS.next, TRUE>>, <<cF.next, TRUE>> >>
  <2>1. (cS.agrees /\ x[1][1][2]) = TRUE /\ (cF.agrees /\ x[1][2][2]) = TRUE
    BY <1>9, <1>14, <1>15
  <2> HIDE DEF cS, cF, a
  <2> QED BY <1>12, <2>1
<1>17. <<a.next[1], TRUE>> \in XNext(w[2], y0)
  <2>1. (With(x, y) \in f0) = TRUE
    BY <1>11
  <2>2. <<a.next[1], With(x, y) \in f0>> \in XNext(w[2], y0)
    BY <1>10 DEF XNext
  <2> QED BY <2>1, <2>2
<1>18. NextXvX(w, y0) \in PostXvX[w]
  BY <1>3, <1>4 DEF PostXvX, StatesXvX
<1>19. Shadows(NextXvX(w, y0), <<xv[<<z[1], y>>].next, cS.next, cF.next>>)
  <2> HIDE DEF cS, cF, a
  <2> QED BY <1>7, <1>16, <1>17 DEF Shadows, NextXvX
<1> QED BY <1>15, <1>18, <1>19

LEMMA ContainedSolves ==
  ASSUME XvTaken, DrivesV, NeverX
  PROVE  XvSolves
<1> DEFINE start == <<initXv, initS, initF>>
           R(i) == Reached(start, PostXv, i)
           M(i) == Reached(startXvX, PostXvX, i)
           Shadowed(z, i) == \E w \in M(i) : Shadows(w, z)
           T == { i \in Nat : i <= Cycles => \A z \in R(i) : Shadowed(z, i) }
<1>1. Cycles \in Nat
  BY XvAssumption
<1>2. ASSUME NEW i \in Nat
      PROVE  R(i) \subseteq StatesXv /\ R(i + 1) = R(i) \cup UNION { PostXv[z] : z \in R(i) }
  BY PostXvType, ReachedEquation
<1>3. ASSUME NEW i \in Nat
      PROVE  M(i + 1) = M(i) \cup UNION { PostXvX[w] : w \in M(i) }
  BY PostXvXType, ReachedEquation
<1>4. R(0) = {start} /\ M(0) = {startXvX}
  BY PostXvType, PostXvXType, ReachedEquation
<1>5. ASSUME NEW i \in 0 .. Cycles PROVE M(i) \subseteq ReachedXvX
  BY <1>1, PostXvXType, ReachedMore DEF ReachedXvX
<1> HIDE DEF R, M
<1>6. 0 \in T
  <2>1. Shadows(startXvX, start)
    BY DEF Shadows, startXvX, initX, initIpS, initPrefix
  <2> QED BY <1>4, <2>1
<1>7. ASSUME NEW i \in Nat, i \in T PROVE i + 1 \in T
  <2> SUFFICES ASSUME i + 1 <= Cycles, NEW r \in R(i + 1) PROVE Shadowed(r, i + 1)
    OBVIOUS
  <2>1. i \in 0 .. Cycles /\ \A z \in R(i) : Shadowed(z, i)
    BY <1>1, <1>7
  <2>2. CASE r \in R(i)
    BY <1>3, <2>1, <2>2
  <2>3. ASSUME NEW z \in R(i), r \in PostXv[z] PROVE Shadowed(r, i + 1)
    <3>1. z \in StatesXv
      BY <1>2
    <3>2. PICK y \in XvDriven(z) :
            r = <<xv[<<z[1], y>>].next, prob.S[<<z[2], y>>].next, prob.F[<<z[3], y>>].next>>
      BY <2>3, <3>1 DEF PostXv, StatesXv
    <3>3. PICK w \in M(i) : Shadows(w, z)
      BY <2>1
    <3>4. w \in ReachedXvX
      BY <1>5, <2>1
    <3>5. \E s \in PostXvX[w] : Shadows(s, r)
      BY <3>1, <3>2, <3>3, <3>4, ShadowStep
    <3> QED BY <1>3, <3>5
  <2> QED BY <1>2, <2>2, <2>3
<1>8. Nat \subseteq T
  <2> HIDE DEF T
  <2> QED BY <1>6, <1>7, SetInduction
<1>9. ASSUME NEW z \in R(Cycles), NEW y \in XvDriven(z) PROVE prob.S[<<z[2], y>>].agrees
  <2>1. Shadowed(z, Cycles) /\ z \in StatesXv
    BY <1>1, <1>2, <1>8
  <2>2. PICK w \in ReachedXvX : Shadows(w, z)
    BY <1>1, <1>5, <2>1
  <2> QED BY <2>1, <2>2, ShadowStep
<1> QED BY <1>9 DEF XvSolves, R

(* "X is a valid solution" is true of the given circuit when the prover of   *)
(* -v decided, for every F, S and circuit over the names of X: F beside the  *)
(* circuit keeps to S for as many cycles as the miter is looked at.          *)
THEOREM ValidIsASolution ==
  ASSUME DrivesV
  PROVE  VSpec => []ValidSolves
<1>1. VInv => ValidSolves
  <2> SUFFICES ASSUME VInv, Valid, checks["VerifyX"].ans = 1 PROVE XvSolves
    BY DEF ValidSolves
  <2>1. vpc = "message"
    BY DEF Valid
  <2>2. XvTaken
    BY <2>1 DEF VInv, CommandType, XvTaken
  <2>3. NeverX
    BY <2>1 DEF VInv, XAnswered
  <2> QED BY <2>2, <2>3, ContainedSolves
<1> QED BY <1>1, CommandInductive, PTL

-----------------------------------------------------------------------------
(* A circuit that drives v by its latches is a component beside F, too.      *)
Drives(v, next) ==
  \A q \in XLatch : \A y \in Sym :
    /\ xv[<<q, y>>].agrees <=> y[2] = v[q]
    /\ xv[<<q, y>>].next = next[<<q, y[1]>>]

LEMMA MooreDrives ==
  ASSUME DrivesV, xv \in Xvs, XvIsMoore
  PROVE  \E v \in [XLatch -> V] : \E next \in [XLatch \X U -> XLatch] : Drives(v, next)
<1> DEFINE Out(q, w) == \A y \in Sym : xv[<<q, y>>].agrees <=> y[2] = w
           To(q, u, r) == \A y \in Sym : y[1] = u => xv[<<q, y>>].next = r
           v == [q \in XLatch |-> CHOOSE w \in V : Out(q, w)]
           next == [p \in XLatch \X U |-> CHOOSE r \in XLatch : To(p[1], p[2], r)]
<1>1. ASSUME NEW q \in XLatch, NEW u \in U
      PROVE  (\E w \in V : Out(q, w)) /\ (\E r \in XLatch : To(q, u, r))
  <2>1. PICK w \in V, r \in XLatch :
          \A w2 \in V : \A n \in N : xv[<<q, <<u, w2, n>>>>] = [agrees |-> w2 = w, next |-> r]
    BY DEF DrivesV
  <2>2. To(q, u, r)
    <3> SUFFICES ASSUME NEW y \in Sym, y[1] = u PROVE xv[<<q, y>>].next = r
      OBVIOUS
    <3>1. y = <<u, y[2], y[3]>> /\ y[2] \in V /\ y[3] \in N
      BY DEF Sym
    <3>2. xv[<<q, <<u, y[2], y[3]>>>>] = [agrees |-> y[2] = w, next |-> r]
      BY <2>1, <3>1
    <3> QED BY <3>1, <3>2
  <2>3. Out(q, w)
    <3>1. PICK n \in N : TRUE
      BY SymbolAssumption
    <3>2. <<u, w, n>> \in Sym /\ <<u, w, n>>[2] = w
      BY DEF Sym
    <3>3. xv[<<q, <<u, w, n>>>>] = [agrees |-> w = w, next |-> r]
      BY <2>1
    <3>4. xv[<<q, <<u, w, n>>>>].agrees
      <4>1. (w = w) = TRUE
        OBVIOUS
      <4>2. xv[<<q, <<u, w, n>>>>] = [agrees |-> TRUE, next |-> r]
        BY <3>3, <4>1
      <4> QED BY <4>2
    <3> QED BY <3>2, <3>4 DEF XvIsMoore
  <2> QED BY <2>2, <2>3
<1>2. 0 \in U
  BY SymbolAssumption DEF U
<1> HIDE DEF Out, To
<1>3. v \in [XLatch -> V] /\ \A q \in XLatch : Out(q, v[q])
  <2>1. \A q \in XLatch : \E w \in V : Out(q, w)
    BY <1>1, <1>2
  <2> QED BY <2>1
<1>4. /\ next \in [XLatch \X U -> XLatch]
      /\ \A q \in XLatch : \A u \in U : To(q, u, next[<<q, u>>])
  <2>1. \A p \in XLatch \X U : \E r \in XLatch : To(p[1], p[2], r)
    BY <1>1
  <2>2. \A p \in XLatch \X U : next[p] \in XLatch /\ To(p[1], p[2], next[p])
    BY <2>1
  <2> QED BY <2>2
<1> HIDE DEF v, next
<1>5. Drives(v, next)
  <2> SUFFICES ASSUME NEW q \in XLatch, NEW y \in Sym
               PROVE  /\ xv[<<q, y>>].agrees <=> y[2] = v[q]
                      /\ xv[<<q, y>>].next = next[<<q, y[1]>>]
    BY DEF Drives
  <2>1. y[1] \in U
    BY DEF Sym
  <2>2. Out(q, v[q]) /\ To(q, y[1], next[<<q, y[1]>>])
    BY <1>3, <1>4, <2>1
  <2> QED BY <2>2 DEF Out, To
<1> QED BY <1>3, <1>4, <1>5

(* What the circuit leads to is what the component does.                     *)
LEMMA DrivenSame ==
  ASSUME NEW v, NEW next, Drives(v, next)
  PROVE  /\ \A z \in StatesXv : XvDriven(z) = Driven(v, z)
         /\ PostXv = PostBeside(XLatch, v, next)
<1>1. ASSUME NEW z \in StatesXv PROVE XvDriven(z) = Driven(v, z)
  <2>1. z[1] \in XLatch
    BY DEF StatesXv
  <2>2. \A y \in Sym : xv[<<z[1], y>>].agrees <=> y[2] = v[z[1]]
    BY <2>1 DEF Drives
  <2> QED BY <2>2 DEF XvDriven, Driven
<1>2. ASSUME NEW z \in StatesXv PROVE PostXv[z] = PostBeside(XLatch, v, next)[z]
  <2>1. \A y \in Driven(v, z) : xv[<<z[1], y>>].next = next[<<z[1], y[1]>>]
    BY DEF Drives, Driven, StatesXv
  <2>2. PostXv[z] = { <<xv[<<z[1], y>>].next, prob.S[<<z[2], y>>].next,
                        prob.F[<<z[3], y>>].next>> : y \in Driven(v, z) }
    BY <1>1 DEF PostXv, StatesXv
  <2>3. PostBeside(XLatch, v, next)[z] =
          { <<next[<<z[1], y[1]>>], prob.S[<<z[2], y>>].next,
              prob.F[<<z[3], y>>].next>> : y \in Driven(v, z) }
    BY DEF PostBeside, StatesXv
  <2>4. \A y \in Driven(v, z) :
          <<xv[<<z[1], y>>].next, prob.S[<<z[2], y>>].next, prob.F[<<z[3], y>>].next>> =
            <<next[<<z[1], y[1]>>], prob.S[<<z[2], y>>].next, prob.F[<<z[3], y>>].next>>
    BY <2>1
  <2>5. PostXv[z] \subseteq PostBeside(XLatch, v, next)[z]
    BY <2>2, <2>3, <2>4
  <2>6. PostBeside(XLatch, v, next)[z] \subseteq PostXv[z]
    BY <2>2, <2>3, <2>4
  <2> QED BY <2>5, <2>6
<1>3. PostXv = [z \in StatesXv |-> PostXv[z]]
  BY DEF PostXv, StatesXv
<1>4. PostBeside(XLatch, v, next) = [z \in StatesXv |-> PostBeside(XLatch, v, next)[z]]
  BY DEF PostBeside, StatesXv
<1> QED BY <1>1, <1>2, <1>3, <1>4

(* Beside the circuit every branch of the solution stays where it can go on, *)
(* as long as the circuit agreed.                                            *)
LEMMA SolvingContained ==
  ASSUME XvTaken, DrivesV, EnoughCycles, XvIsMoore, XvSolves
  PROVE  NeverX
<1> USE DEF XvTaken, XInv
<1>1. PICK v \in [XLatch -> V], next \in [XLatch \X U -> XLatch] : Drives(v, next)
  BY MooreDrives
<1> DEFINE T == Reached(<<initXv, initS, initF>>, PostBeside(XLatch, v, next), Cycles)
           With_(w) == \A x \in w[2] : Beside(x, w[1][1], T)
           B == { w \in StatesXvX : w[1][2] => With_(w) }
<1>2. Keeps(v, next, T) /\ Beside(initX, initXv, T)
  <2>1. T = Reached(<<initXv, initS, initF>>, PostXv, Cycles)
    BY <1>1, DrivenSame
  <2>2. T \subseteq StatesXv
    BY <2>1, PostXvType, ReachedEquation, XvAssumption
  <2>3. \A z \in T : \A y \in Driven(v, z) : prob.S[<<z[2], y>>].agrees
    <3> HIDE DEF T
    <3> QED BY <1>1, <2>1, <2>2, DrivenSame DEF XvSolves
  <2>4. XLatch \in {CState, XLatch} /\ initXv \in XLatch
    BY XvAssumption
  <2> QED BY <2>3, <2>4, ReachedKeeps
<1> HIDE DEF T
<1>3. ASSUME NEW w \in B, NEW y \in Sym,
             xv[<<w[1][1], y>>].agrees, w[1][2],
             NEW t \in StepsOf(w[2], y)
      PROVE  /\ t \in f0
             /\ Beside(<<ba[t].next[1], TRUE>>, xv[<<w[1][1], y>>].next, T)
  <2>1. w \in StatesXvX /\ w[1][1] \in XLatch /\ w[2] \in SUBSET QX /\ With_(w)
    BY <1>3 DEF StatesXvX
  <2>2. PICK x \in w[2], n \in HiddenOf(y) :
          x \in QX /\ <<y[1], y[2], n>> \in Sym /\ t = With(x, <<y[1], y[2], n>>)
    BY <2>1, StepsOfType
  <2> DEFINE y1 == <<y[1], y[2], n>>
             q == w[1][1]
  <2>3. y1 \in Sym /\ y1[1] = y[1] /\ y1[2] = y[2] /\ t = With(x, y1)
    BY <2>2
  <2> HIDE DEF y1, q, B
  <2>4. y1[2] = v[q] /\ xv[<<q, y>>].next = next[<<q, y1[1]>>]
    BY <1>1, <1>3, <2>1, <2>3 DEF Drives, q
  <2>5. Beside(x, q, T) /\ q \in XLatch
    BY <2>1 DEF q
  <2>6. t \in f0 /\ Beside(ba[t].next, next[<<q, y1[1]>>], T)
    BY <1>2, <2>3, <2>4, <2>5, BesideAccepted
  <2>7. Beside(<<ba[t].next[1], TRUE>>, next[<<q, y1[1]>>], T)
    BY <2>6 DEF Beside, QX
  <2> QED BY <2>4, <2>6, <2>7 DEF q
<1>4. startXvX \in B
  <2>1. startXvX \in StatesXvX
    BY PostXvXType
  <2>2. \A x \in startXvX[2] : Beside(x, startXvX[1][1], T)
    BY <1>2 DEF startXvX
  <2> QED BY <2>1, <2>2
<1>5. ASSUME NEW w \in B, NEW y \in XInputs
      PROVE  NextXvX(w, y) \in B
  <2> DEFINE r == NextXvX(w, y)
  <2>1. w \in StatesXvX /\ y \in Sym /\ w[1] \in XLatch \X BOOLEAN
    BY InputsType DEF StatesXvX
  <2>2. r \in PostXvX[w]
    BY <2>1 DEF PostXvX, StatesXvX
  <2>3. r \in StatesXvX
    BY <2>1, <2>2, PostXvXType
  <2>4. r[1] = BaXv[With(w[1], y)].next /\ r[2] = XNext(w[2], y)
    BY DEF NextXvX
  <2> HIDE DEF r
  <2>5. r[1][1] = xv[<<w[1][1], y>>].next /\ (r[1][2] => xv[<<w[1][1], y>>].agrees /\ w[1][2])
    BY <2>1, <2>4, XvStep
  <2>6. ASSUME r[1][2], NEW x \in r[2] PROVE Beside(x, r[1][1], T)
    <3>1. PICK t \in StepsOf(w[2], y) : x = <<ba[t].next[1], t \in f0>>
      BY <2>4, <2>6 DEF XNext
    <3> HIDE DEF B
    <3>2. t \in f0 /\ Beside(<<ba[t].next[1], TRUE>>, r[1][1], T)
      BY <1>3, <2>1, <2>5, <2>6
    <3>3. (t \in f0) = TRUE
      BY <3>2
    <3> QED BY <3>1, <3>2, <3>3
  <2> QED BY <2>3, <2>6 DEF r
<1>6. \A w \in StatesXvX \cap B : PostXvX[w] \subseteq B
  <2> TAKE w \in StatesXvX \cap B
  <2>1. PostXvX[w] = { NextXvX(w, y) : y \in XInputs }
    BY DEF PostXvX, StatesXvX
  <2> HIDE DEF B
  <2> QED BY <1>5, <2>1
<1>7. ReachedXvX \subseteq B
  <2> HIDE DEF B
  <2> QED BY <1>4, <1>6, PostXvXType, ReachedInduction, XvAssumption DEF ReachedXvX
<1>8. ASSUME NEW w \in ReachedXvX, NEW y \in XInputs PROVE ~ MiterVerifyX(w, y)
  <2> SUFFICES ASSUME BaXv[With(w[1], y)].f0 PROVE XF0(w[2], y)
    BY DEF MiterVerifyX
  <2>1. w \in B /\ y \in Sym /\ w[1] \in XLatch \X BOOLEAN
    BY <1>7, InputsType DEF StatesXvX
  <2>2. xv[<<w[1][1], y>>].agrees /\ w[1][2]
    BY <2>1, XvStep
  <2> HIDE DEF B
  <2>3. \A t \in StepsOf(w[2], y) : t \in f0
    BY <1>3, <2>1, <2>2
  <2> QED BY <2>3 DEF XF0
<1> QED BY <1>8 DEF NeverX

(* A circuit that solves the problem and drives v by its latches is never    *)
(* called invalid, whichever prover is asked and whatever it gives up on.    *)
THEOREM SolvingIsNotRefuted ==
  ASSUME DrivesV, EnoughCycles
  PROVE  VSpec => []SolvingNotRefuted
<1>1. VInv => SolvingNotRefuted
  <2> SUFFICES ASSUME VInv, vpc = "message", ~ Valid, fUseCommand <= 3, XvIsMoore, XvSolves
               PROVE  FALSE
    BY DEF SolvingNotRefuted
  <2>1. XvTaken
    BY DEF VInv, CommandType, XvTaken
  <2>2. NeverX
    BY <2>1, SolvingContained
  <2>3. fUseCommand \in Commands
    BY DEF VInv, CommandType, Commands
  <2>4. checks["VerifyX"].ret = 1
    BY <2>2, <2>3 DEF VInv, XAnswered
  <2>5. checks["VerifyFXS"].ret = 1
    BY <2>4 DEF VInv, FXSAnswered
  <2> QED BY <2>4, <2>5 DEF Valid
<1> QED BY <1>1, CommandInductive, PTL
=============================================================================
