---------------------- MODULE InputProgressive2Proofs -----------------------
(***************************************************************************)
(* The fixpoint loop of InputProgressive2, for every family of automata.   *)
(* The inductive invariant says that f0 is always the given circuit        *)
(* restricted to pNtkCheck, and that eliminating the inputs of f0 can only *)
(* give fewer states.                                                      *)
(***************************************************************************)
EXTENDS InputProgressive2, TLAPS

Steps == State \X U \X V \X N

Restricted == f0 = { x \in Steps : ba[x].f0 /\ ba[x].next \in pNtkCheck }

Shrinking == EliminateVar(f0, bNondeterType) \subseteq pNtkCheck

IInv == TypeOK /\ Restricted /\ Shrinking

-----------------------------------------------------------------------------
(* Eliminating the inputs of fewer steps leaves fewer states.                *)
LEMMA EliminateMonotone ==
  ASSUME NEW f, NEW g, f \subseteq g, NEW type
  PROVE  EliminateVar(f, type) \subseteq EliminateVar(g, type)
<1>1. EliminateU(f) \subseteq EliminateU(g)
  BY DEF EliminateU
<1>2. EliminateV(EliminateU(f)) \subseteq EliminateV(EliminateU(g))
  BY <1>1 DEF EliminateV
<1> QED BY <1>2 DEF EliminateVar, EliminateN

LEMMA EliminateType ==
  ASSUME NEW f, NEW type
  PROVE  EliminateVar(f, type) \subseteq State
BY DEF EliminateVar, EliminateN

(* A state with a move into W survives the elimination of every f that has   *)
(* all the steps into W.                                                     *)
LEMMA MoveSurvives ==
  ASSUME TypeOK, NEW W \in SUBSET State, NEW f,
         { x \in Steps : ba[x].f0 /\ ba[x].next \in W } \subseteq f,
         NEW s \in State, HasMove(s, W)
  PROVE  s \in EliminateVar(f, bNondeterType)
<1> DEFINE Good(n) == \E v \in V : \A u \in U :
                        ba[s, u, v, n].f0 /\ ba[s, u, v, n].next \in W
<1>1. ASSUME NEW n \in N, Good(n) PROVE <<s, n>> \in EliminateV(EliminateU(f))
  <2>1. PICK v \in V : \A u \in U : ba[s, u, v, n].f0 /\ ba[s, u, v, n].next \in W
    BY <1>1
  <2>2. \A u \in U : <<s, u, v, n>> \in f
    BY <2>1 DEF Steps
  <2>3. 0 \in U
    BY InputAssumption DEF U
  <2>4. <<s, v, n>> \in EliminateU(f)
    BY <2>2, <2>3 DEF EliminateU
  <2> QED BY <2>4 DEF EliminateV
<1>2. CASE bNondeterType = 1
  BY <1>1, <1>2 DEF HasMove, EliminateVar, EliminateN
<1>3. CASE bNondeterType # 1
  BY <1>1, <1>3 DEF HasMove, EliminateVar, EliminateN
<1> QED BY <1>2, <1>3

(* Unless uBegin wraps, the states that survive the elimination of the       *)
(* circuit restricted to W have a move into W.                               *)
LEMMA SurvivorMoves ==
  ASSUME ~ UBeginWraps, TypeOK, NEW W \in SUBSET State, NEW f,
         f \subseteq { x \in Steps : ba[x].f0 /\ ba[x].next \in W },
         NEW s \in EliminateVar(f, bNondeterType)
  PROVE  HasMove(s, W)
<1> DEFINE Good(n) == \E v \in V : \A u \in U :
                        ba[s, u, v, n].f0 /\ ba[s, u, v, n].next \in W
<1>1. ASSUME NEW n \in N, <<s, n>> \in EliminateV(EliminateU(f)) PROVE Good(n)
  <2>1. PICK v \in V : <<s, v, n>> \in EliminateU(f)
    BY <1>1 DEF EliminateV
  <2>2. \A u \in U : <<s, u, v, n>> \in f
    BY <2>1 DEF EliminateU
  <2> QED BY <2>2
<1>2. CASE bNondeterType = 1
  BY <1>1, <1>2 DEF HasMove, EliminateVar, EliminateN
<1>3. CASE bNondeterType # 1
  BY <1>1, <1>3 DEF HasMove, EliminateVar, EliminateN
<1> QED BY <1>2, <1>3

-----------------------------------------------------------------------------
(* The loop starts with the given circuit and all states.                    *)
LEMMA InvInit == Init => IInv
<1> SUFFICES ASSUME Init PROVE IInv
  OBVIOUS
<1>1. TypeOK
  BY AutomataAssumption DEF Init, TypeOK
<1>2. ASSUME NEW x \in Steps PROVE ba[x].next \in State
  BY <1>1, <1>2 DEF TypeOK, Circuit, Steps
<1>3. Restricted
  BY <1>2 DEF Init, Restricted, Steps
<1>4. Shrinking
  BY EliminateType DEF Init, Shrinking
<1> QED BY <1>1, <1>3, <1>4 DEF IInv

(* One turn of the loop: the new check is the elimination of the old f0, and *)
(* eliminating the restricted f0 again can only give less.                   *)
LEMMA InvStep == IInv /\ [Next]_vars => IInv'
<1> SUFFICES ASSUME IInv, [Next]_vars PROVE IInv'
  OBVIOUS
<1> USE DEF IInv
<1>1. CASE Iterate
  <2> DEFINE check == EliminateVar(f0, bNondeterType)
  <2>1. f0' = AddCheckCir(f0, check) /\ pNtkCheck' = check
        /\ ba' = ba /\ bNondeterType' = bNondeterType
    BY <1>1 DEF Iterate
  <2>2. f0' \subseteq f0
    BY <2>1 DEF AddCheckCir
  <2>3. verdict' \in {0, 1, -1} /\ hasOld' \in BOOLEAN /\ pc' \in {"loop", "done", "exit"}
    BY <1>1 DEF Iterate, CheckEquivalent, TypeOK
  <2>4. TypeOK'
    BY <2>1, <2>2, <2>3, EliminateType DEF TypeOK
  <2>5. check \subseteq pNtkCheck
    BY DEF Shrinking
  <2>6. Restricted'
    BY <2>1, <2>5 DEF Restricted, AddCheckCir
  <2>7. EliminateVar(f0', bNondeterType) \subseteq check
    BY <2>2, EliminateMonotone
  <2>8. Shrinking'
    BY <2>1, <2>7 DEF Shrinking
  <2> QED BY <2>4, <2>6, <2>8
<1>2. CASE Timeout
  BY <1>2 DEF Timeout, TypeOK, Restricted, Shrinking
<1>3. CASE UNCHANGED vars
  BY <1>3 DEF vars, TypeOK, Restricted, Shrinking
<1> QED BY <1>1, <1>2, <1>3 DEF Next

(* Every variable of the loop keeps its type.                                *)
THEOREM TypeCorrect2 == Spec => []TypeOK
<1>1. IInv => TypeOK
  BY DEF IInv
<1> QED BY InvInit, InvStep, <1>1, PTL DEF Spec

(* The states found to have a move only ever become fewer.                   *)
THEOREM ChecksOnlyShrink == Spec => ChecksShrink
<1>1. IInv /\ [Next]_vars => [pNtkCheck' \subseteq pNtkCheck]_vars
  BY DEF IInv, Shrinking, Next, Iterate, Timeout, vars
<1> QED BY InvInit, InvStep, <1>1, PTL DEF Spec, ChecksShrink

(* No progressive set of states loses a state, whatever the comparisons      *)
(* answer and wherever the loop is left.                                     *)
THEOREM LargestKept2 == Spec => []LargestKept
<1>1. Init => LargestKept
  BY DEF Init, LargestKept
<1>2. IInv /\ LargestKept /\ [Next]_vars => LargestKept'
  <2> SUFFICES ASSUME IInv, LargestKept, [Next]_vars PROVE LargestKept'
    OBVIOUS
  <2>1. CASE Iterate
    <3>1. pNtkCheck' = EliminateVar(f0, bNondeterType) /\ ba' = ba
          /\ bNondeterType' = bNondeterType
      BY <2>1 DEF Iterate
    <3>2. ASSUME NEW W \in SUBSET State, \A s \in W : HasMove(s, W)'
          PROVE  W \subseteq pNtkCheck'
      <4>1. \A s \in W : HasMove(s, W)
        BY <3>1, <3>2 DEF HasMove
      <4>2. W \subseteq pNtkCheck
        BY <4>1 DEF LargestKept
      <4>3. { x \in Steps : ba[x].f0 /\ ba[x].next \in W } \subseteq f0
        BY <4>2 DEF IInv, Restricted
      <4>4. \A s \in W : s \in EliminateVar(f0, bNondeterType)
        BY <4>1, <4>3, MoveSurvives DEF IInv
      <4> QED BY <3>1, <4>4
    <3> QED BY <3>2 DEF LargestKept
  <2>2. CASE Timeout
    BY <2>2 DEF Timeout, LargestKept, HasMove
  <2>3. CASE UNCHANGED vars
    BY <2>3 DEF vars, LargestKept, HasMove
  <2> QED BY <2>1, <2>2, <2>3 DEF Next
<1> QED BY InvInit, InvStep, <1>1, <1>2, PTL DEF Spec

(* When the loop is left on a decided comparison it has found the fixpoint:  *)
(* every state that remains has a move into the states that remain.          *)
THEOREM FixpointReached ==
  ASSUME ~ UBeginWraps PROVE Spec => []FixpointOnEqual
<1>1. Init => FixpointOnEqual
  BY DEF Init, FixpointOnEqual
<1>2. IInv /\ FixpointOnEqual /\ [Next]_vars => FixpointOnEqual'
  <2> SUFFICES ASSUME IInv, FixpointOnEqual, [Next]_vars PROVE FixpointOnEqual'
    OBVIOUS
  <2>1. CASE Iterate
    <3> SUFFICES ASSUME pc' = "done", verdict' = 1 PROVE FixpointOnEqual'
      BY DEF FixpointOnEqual
    <3>1. pNtkCheck' = EliminateVar(f0, bNondeterType) /\ ba' = ba
          /\ bNondeterType' = bNondeterType
      BY <2>1 DEF Iterate
    <3>2. pNtkCheck' = pNtkCheck
      BY <2>1 DEF Iterate, CheckEquivalent
    <3>3. pNtkCheck \in SUBSET State
      BY DEF IInv, TypeOK
    <3>4. f0 \subseteq { x \in Steps : ba[x].f0 /\ ba[x].next \in pNtkCheck }
      BY DEF IInv, Restricted
    <3>5. \A s \in pNtkCheck : HasMove(s, pNtkCheck)
      BY <3>1, <3>2, <3>3, <3>4, SurvivorMoves DEF IInv
    <3>6. \A s \in pNtkCheck' : HasMove(s, pNtkCheck)'
      BY <3>1, <3>2, <3>5 DEF HasMove
    <3>7. Restricted'
      BY InvStep DEF IInv
    <3> QED BY <3>6, <3>7 DEF FixpointOnEqual, Restricted, Steps
  <2>2. CASE Timeout
    BY <2>2 DEF Timeout, FixpointOnEqual
  <2>3. CASE UNCHANGED vars
    BY <2>3 DEF vars, FixpointOnEqual, HasMove
  <2> QED BY <2>1, <2>2, <2>3 DEF Next
<1> QED BY InvInit, InvStep, <1>1, <1>2, PTL DEF Spec

(* Without inactive inputs, and unless uBegin wraps, that makes the states   *)
(* that remain input progressive as the explicit procedure understands it.   *)
THEOREM DeterministicProgressive ==
  ASSUME ~ UBeginWraps, NEW n0, N = {n0}
  PROVE  Spec => [](pc = "done" /\ verdict = 1 => Progressive(ba, pNtkCheck))
<1>1. TypeOK /\ FixpointOnEqual
        => (pc = "done" /\ verdict = 1 => Progressive(ba, pNtkCheck))
  <2> SUFFICES ASSUME TypeOK, FixpointOnEqual, pc = "done", verdict = 1,
                      NEW s \in pNtkCheck, NEW u \in U
               PROVE  \E v \in V : Move(ba, s, u, v)
                                   /\ Succ(ba, s, u, v) \subseteq pNtkCheck
    BY DEF Progressive
  <2>1. HasMove(s, pNtkCheck)
    BY DEF FixpointOnEqual
  <2>2. PICK v \in V : ba[s, u, v, n0].f0 /\ ba[s, u, v, n0].next \in pNtkCheck
    BY <2>1 DEF HasMove
  <2> QED BY <2>2 DEF Move, Succ
<1> QED BY <1>1, TypeCorrect2, FixpointReached, PTL
=============================================================================
