--------------------------- MODULE LeqSolveProofs ---------------------------
(***************************************************************************)
(* Leq_Solve for every F and S over any number of latches and symbols.     *)
(* The invariant names the automaton every call leaves behind and, while   *)
(* the result is clocked, reads the history of F and S off the latches of  *)
(* X: its latches of F and S keep whether those agreed so far, and its     *)
(* last latch keeps whether X accepted so far.                             *)
(***************************************************************************)
EXTENDS LeqSolve, TLAPS

Joint == ProductBaTransCir(Complement(BaS), BaF)
Safe == Complement(Joint)

Entered == {"loop", "done", "exit", "run"}

Stages ==
  /\ baS = IF pc = "complementS" THEN BaS ELSE Complement(BaS)
  /\ pc \in {"support", "complementX"} => ba = Joint
  /\ pc = "prefixClose" => ba = Safe
  /\ pc \in Entered => ba = PrefixCloseCir(Safe)

Accepts == \A x \in f0 : pc \in Entered /\ ba[x].f0

History ==
  /\ run.x = << << <<run.s, run.agS>>, <<run.f, run.agF>> >>, run.out>>
  /\ run.always = run.out

IInv == TypeOK /\ Stages /\ Accepts /\ History /\ LoopMeetsS

-----------------------------------------------------------------------------
LEMMA SymOfType ==
  ASSUME NEW L, NEW x \in Steps(L)
  PROVE  x[1] \in L /\ SymOf(x) \in Sym
BY DEF Steps, SymOf, Sym

LEMMA BaInitType ==
  ASSUME NEW L, NEW c \in Sequential(L)
  PROVE  BaInitTranCir(c, L) \in Automaton(L \X BOOLEAN)
<1> SUFFICES ASSUME NEW x \in Steps(L \X BOOLEAN)
             PROVE  LET g == c[<<x[1][1], SymOf(x)>>].agrees /\ x[1][2]
                    IN [f0 |-> g, next |-> <<c[<<x[1][1], SymOf(x)>>].next, g>>]
                         \in [f0 : BOOLEAN, next : L \X BOOLEAN]
  BY DEF BaInitTranCir, Automaton
<1>1. x[1] \in L \X BOOLEAN /\ SymOf(x) \in Sym
  BY SymOfType
<1>2. <<x[1][1], SymOf(x)>> \in L \X Sym
  BY <1>1
<1>3. c[<<x[1][1], SymOf(x)>>] \in [agrees : BOOLEAN, next : L]
  BY <1>2 DEF Sequential
<1> QED BY <1>1, <1>3

LEMMA ComplementsType ==
  ASSUME NEW L, NEW a \in Automaton(L)
  PROVE  Complement(a) \in Automaton(L)
BY DEF Complement, Automaton

LEMMA ProductType ==
  ASSUME NEW a \in Automaton(QS), NEW b \in Automaton(QF)
  PROVE  ProductBaTransCir(a, b) \in Automaton(Q)
<1> SUFFICES ASSUME NEW x \in Steps(Q)
             PROVE  [f0 |-> a[At(x[1][1], x)].f0 /\ b[At(x[1][2], x)].f0,
                     next |-> <<a[At(x[1][1], x)].next, b[At(x[1][2], x)].next>>]
                       \in [f0 : BOOLEAN, next : Q]
  BY DEF ProductBaTransCir, Automaton
<1>1. At(x[1][1], x) \in Steps(QS) /\ At(x[1][2], x) \in Steps(QF)
  BY DEF Steps, At, Q
<1>2. /\ a[At(x[1][1], x)] \in [f0 : BOOLEAN, next : QS]
      /\ b[At(x[1][2], x)] \in [f0 : BOOLEAN, next : QF]
  BY <1>1 DEF Automaton
<1> QED BY <1>2 DEF Q

LEMMA PrefixCloseType ==
  ASSUME NEW a \in Automaton(Q)
  PROVE  PrefixCloseCir(a) \in Automaton(QX)
<1> SUFFICES ASSUME NEW x \in Steps(QX)
             PROVE  LET g == a[At(x[1][1], x)].f0 /\ x[1][2]
                    IN [f0 |-> g, next |-> <<a[At(x[1][1], x)].next, g>>]
                         \in [f0 : BOOLEAN, next : QX]
  BY DEF PrefixCloseCir, Automaton
<1>1. At(x[1][1], x) \in Steps(Q)
  BY DEF Steps, At, QX
<1>2. a[At(x[1][1], x)] \in [f0 : BOOLEAN, next : Q]
  BY <1>1 DEF Automaton
<1> QED BY <1>2 DEF QX

(* The automata Leq_Solve passes through.                                    *)
LEMMA StageTypes ==
  ASSUME prob \in Problem
  PROVE  /\ BaS \in Automaton(QS) /\ Complement(BaS) \in Automaton(QS)
         /\ BaF \in Automaton(QF)
         /\ Joint \in Automaton(Q) /\ Safe \in Automaton(Q)
         /\ PrefixCloseCir(Safe) \in Automaton(QX)
<1>1. prob.S \in Sequential(SLatch) /\ prob.F \in Sequential(FLatch)
  BY DEF Problem
<1>2. BaS \in Automaton(QS) /\ BaF \in Automaton(QF)
  BY <1>1, BaInitType DEF BaS, BaF, QS, QF
<1>3. Complement(BaS) \in Automaton(QS)
  BY <1>2, ComplementsType
<1>4. Joint \in Automaton(Q)
  BY <1>2, <1>3, ProductType DEF Joint
<1>5. Safe \in Automaton(Q)
  BY <1>4, ComplementsType DEF Safe
<1> QED BY <1>2, <1>3, <1>4, <1>5, PrefixCloseType

(* The automaton of a sequential circuit keeps in its last latch whether the *)
(* outputs agreed so far.                                                    *)
LEMMA BaInitStep ==
  ASSUME NEW L, NEW c \in Sequential(L), NEW q \in L, NEW g \in BOOLEAN, NEW y \in Sym
  PROVE  LET a == BaInitTranCir(c, L)[<< <<q, g>>, y[1], y[2], y[3]>>]
         IN /\ a.f0 = (c[<<q, y>>].agrees /\ g)
            /\ a.next = <<c[<<q, y>>].next, a.f0>>
<1> DEFINE x == << <<q, g>>, y[1], y[2], y[3]>>
<1>1. x \in Steps(L \X BOOLEAN)
  BY DEF Steps, Sym
<1>2. SymOf(x) = y /\ x[1][1] = q /\ x[1][2] = g
  BY DEF SymOf, Sym
<1>3. BaInitTranCir(c, L)[x] =
        [f0 |-> c[<<x[1][1], SymOf(x)>>].agrees /\ x[1][2],
         next |-> <<c[<<x[1][1], SymOf(x)>>].next,
                    c[<<x[1][1], SymOf(x)>>].agrees /\ x[1][2]>>]
  BY <1>1 DEF BaInitTranCir
<1> QED BY <1>2, <1>3

(* One step of the solution before it is made progressive, by the automata   *)
(* of S and F: it accepts as long as that of S does or that of F does not.   *)
LEMMA SafeParts ==
  ASSUME prob \in Problem, NEW l \in QX, NEW y \in Sym
  PROVE  LET s == BaS[<<l[1][1], y[1], y[2], y[3]>>]
             f == BaF[<<l[1][2], y[1], y[2], y[3]>>]
             a == PrefixCloseCir(Safe)[<<l, y[1], y[2], y[3]>>]
         IN /\ a.f0 = ((f.f0 => s.f0) /\ l[2])
            /\ a.next = << <<s.next, f.next>>, a.f0>>
<1> DEFINE xS == <<l[1][1], y[1], y[2], y[3]>>
           xF == <<l[1][2], y[1], y[2], y[3]>>
           xQ == <<l[1], y[1], y[2], y[3]>>
           x  == <<l, y[1], y[2], y[3]>>
<1>1. /\ xS \in Steps(QS) /\ xF \in Steps(QF) /\ xQ \in Steps(Q) /\ x \in Steps(QX)
      /\ l[2] \in BOOLEAN
  BY DEF Steps, Sym, Q, QX
<1>2. /\ BaS[xS].f0 \in BOOLEAN /\ BaF[xF].f0 \in BOOLEAN
  BY <1>1, StageTypes DEF Automaton
<1>3. /\ Complement(BaS)[xS].f0 = (~ BaS[xS].f0)
      /\ Complement(BaS)[xS].next = BaS[xS].next
  BY <1>1, <1>2, StageTypes DEF Complement, Automaton
<1>4. /\ Joint[xQ].f0 = (Complement(BaS)[xS].f0 /\ BaF[xF].f0)
      /\ Joint[xQ].next = <<Complement(BaS)[xS].next, BaF[xF].next>>
  <2>1. At(xQ[1][1], xQ) = xS /\ At(xQ[1][2], xQ) = xF
    BY DEF At
  <2> QED BY <1>1, <2>1 DEF Joint, ProductBaTransCir
<1>5. /\ Safe[xQ].f0 = (~ Joint[xQ].f0)
      /\ Safe[xQ].next = Joint[xQ].next
  BY <1>1, StageTypes DEF Safe, Complement, Automaton
<1>6. /\ PrefixCloseCir(Safe)[x].f0 = (Safe[xQ].f0 /\ l[2])
      /\ PrefixCloseCir(Safe)[x].next = <<Safe[xQ].next, PrefixCloseCir(Safe)[x].f0>>
  <2>1. At(x[1][1], x) = xQ /\ x[1][2] = l[2]
    BY DEF At
  <2> QED BY <1>1, <2>1 DEF PrefixCloseCir
<1> HIDE DEF xS, xF, xQ, x
<1>7. PrefixCloseCir(Safe)[x].f0 = ((BaF[xF].f0 => BaS[xS].f0) /\ l[2])
  BY <1>1, <1>2, <1>3, <1>4, <1>5, <1>6
<1>8. PrefixCloseCir(Safe)[x].next =
        << <<BaS[xS].next, BaF[xF].next>>, PrefixCloseCir(Safe)[x].f0>>
  BY <1>3, <1>4, <1>5, <1>6
<1> QED BY <1>7, <1>8 DEF xS, xF, x

(* The same by the circuits of S and F: it accepts as long as S agreed or F  *)
(* did not, and keeps in its latches whether they did.                       *)
LEMMA SafeStep ==
  ASSUME prob \in Problem, NEW l \in QX, NEW y \in Sym
  PROVE  LET s  == l[1][1][1]
             f  == l[1][2][1]
             nS == prob.S[<<s, y>>].agrees /\ l[1][1][2]
             nF == prob.F[<<f, y>>].agrees /\ l[1][2][2]
             a  == PrefixCloseCir(Safe)[<<l, y[1], y[2], y[3]>>]
         IN /\ a.f0 = ((nF => nS) /\ l[2])
            /\ a.next = << << <<prob.S[<<s, y>>].next, nS>>,
                              <<prob.F[<<f, y>>].next, nF>> >>, a.f0>>
<1> DEFINE s  == l[1][1][1]
           gS == l[1][1][2]
           f  == l[1][2][1]
           gF == l[1][2][2]
           xS == <<l[1][1], y[1], y[2], y[3]>>
           xF == <<l[1][2], y[1], y[2], y[3]>>
<1>1. /\ l[1][1] = <<s, gS>> /\ l[1][2] = <<f, gF>>
      /\ s \in SLatch /\ f \in FLatch /\ gS \in BOOLEAN /\ gF \in BOOLEAN
  BY DEF QX, Q, QS, QF
<1>2. prob.S \in Sequential(SLatch) /\ prob.F \in Sequential(FLatch)
  BY DEF Problem
<1>3. /\ BaS[xS].f0 = (prob.S[<<s, y>>].agrees /\ gS)
      /\ BaS[xS].next = <<prob.S[<<s, y>>].next, BaS[xS].f0>>
  BY <1>1, <1>2, BaInitStep DEF BaS
<1>4. /\ BaF[xF].f0 = (prob.F[<<f, y>>].agrees /\ gF)
      /\ BaF[xF].next = <<prob.F[<<f, y>>].next, BaF[xF].f0>>
  BY <1>1, <1>2, BaInitStep DEF BaF
<1> DEFINE a == PrefixCloseCir(Safe)[<<l, y[1], y[2], y[3]>>]
<1>5. /\ a.f0 = ((BaF[xF].f0 => BaS[xS].f0) /\ l[2])
      /\ a.next = << <<BaS[xS].next, BaF[xF].next>>, a.f0>>
  BY SafeParts
<1> HIDE DEF a, xS, xF
<1>6. a.f0 = (((prob.F[<<f, y>>].agrees /\ gF) => (prob.S[<<s, y>>].agrees /\ gS)) /\ l[2])
  BY <1>3, <1>4, <1>5
<1>7. a.next = << << <<prob.S[<<s, y>>].next, prob.S[<<s, y>>].agrees /\ gS>>,
                     <<prob.F[<<f, y>>].next, prob.F[<<f, y>>].agrees /\ gF>> >>, a.f0>>
  BY <1>3, <1>4, <1>5
<1> QED BY <1>6, <1>7 DEF a

-----------------------------------------------------------------------------
LEMMA Initially == Init => IInv
<1> SUFFICES ASSUME Init PROVE IInv
  OBVIOUS
<1>1. prob \in Problem
  BY ProblemAssumption DEF Init
<1>2. baS = BaS /\ baS \in Automaton(QS)
  BY <1>1, StageTypes DEF Init, BaS
<1>3. initX \in QX
  BY LatchAssumption DEF initX, initIpS, initPrefix, QX, Q, QS, QF
<1>4. TypeOK
  BY <1>1, <1>2, <1>3, LatchAssumption DEF Init, TypeOK
<1>5. History
  BY DEF Init, History, initX, initIpS, initPrefix
<1> QED BY <1>2, <1>4, <1>5 DEF Init, IInv, Stages, Accepts, Entered, LoopMeetsS

(* The calls that build X before the fixpoint leave its run alone.           *)
LEMMA BuildKeeps ==
  ASSUME IInv, ComplementS \/ Product \/ Support \/ ComplementX \/ PrefixClose
  PROVE  IInv'
<1> USE DEF IInv
<1>1. prob \in Problem /\ prob' = prob /\ run' = run
  BY DEF TypeOK, ComplementS, Product, Support, ComplementX, PrefixClose
<1>2. BaS' = BaS /\ BaF' = BaF /\ Joint' = Joint /\ Safe' = Safe
  BY <1>1 DEF BaS, BaF, Joint, Safe
<1>3. History' /\ LoopMeetsS'
  BY <1>1 DEF History, LoopMeetsS
<1>4. CASE ComplementS
  <2>1. baS' = Complement(BaS) /\ pc' = "product"
    BY <1>4 DEF ComplementS, Stages
  <2>2. TypeOK'
    BY <1>1, <1>4, <2>1, StageTypes DEF ComplementS, TypeOK, inpro
  <2>3. Stages' /\ Accepts'
    BY <1>2, <1>4, <2>1 DEF ComplementS, Stages, Accepts, Entered, inpro
  <2> QED BY <1>3, <2>2, <2>3
<1>5. CASE Product
  <2>1. ba' = Joint /\ pc' = "support" /\ baS = Complement(BaS)
    BY <1>5 DEF Product, Stages, Joint, BaF
  <2>2. TypeOK'
    BY <1>1, <1>5, <2>1, StageTypes DEF Product, TypeOK, inpro
  <2>3. Stages' /\ Accepts'
    BY <1>2, <1>5, <2>1 DEF Product, Stages, Accepts, Entered, inpro
  <2> QED BY <1>3, <2>2, <2>3
<1>6. CASE Support
  <2>1. TypeOK'
    BY <1>6 DEF Support, TypeOK, HasHidden, inpro
  <2>2. Stages' /\ Accepts'
    BY <1>2, <1>6 DEF Support, Stages, Accepts, Entered, inpro
  <2> QED BY <1>3, <2>1, <2>2
<1>7. CASE ComplementX
  <2>1. ba' = Safe /\ pc' = "prefixClose"
    BY <1>7 DEF ComplementX, Stages, Safe
  <2>2. bNondeterType' \in {0, 1}
    BY <1>7 DEF ComplementX, ComplementType, TypeOK, inpro
  <2>3. TypeOK'
    BY <1>1, <1>7, <2>1, <2>2, StageTypes DEF ComplementX, TypeOK, inpro
  <2>4. Stages' /\ Accepts'
    BY <1>2, <1>7, <2>1 DEF ComplementX, Stages, Accepts, Entered, inpro
  <2> QED BY <1>3, <2>3, <2>4
<1>8. CASE PrefixClose
  <2>1. ba' = PrefixCloseCir(Safe) /\ pc' = "loop"
    BY <1>8 DEF PrefixClose, Stages
  <2>2. TypeOK'
    BY <1>1, <1>8, <2>1, StageTypes DEF PrefixClose, TypeOK, inpro
  <2>3. Stages' /\ Accepts'
    BY <1>2, <1>8, <2>1 DEF PrefixClose, Stages, Accepts, Entered, inpro
  <2> QED BY <1>3, <2>2, <2>3
<1> QED BY <1>4, <1>5, <1>6, <1>7, <1>8

(* The fixpoint only takes steps away from f0.                               *)
LEMMA ProgressKeeps ==
  ASSUME IInv, MakeProgressive
  PROVE  IInv'
<1> USE DEF IInv
<1>1. /\ pc = "loop" /\ pc' \in {"loop", "done", "exit"}
      /\ f0' \subseteq f0
      /\ UNCHANGED <<prob, bVerify, baS, ba, inact, bNondeterType, run>>
  BY DEF MakeProgressive, Inpro!Next, Inpro!Iterate, Inpro!Timeout, Inpro!AddCheckCir, TypeOK
<1>2. pNtkCheck' \subseteq QX
  BY DEF MakeProgressive, Inpro!Next, Inpro!Iterate, Inpro!Timeout, TypeOK,
         Inpro!EliminateVar, Inpro!EliminateN
<1>3. hasOld' \in BOOLEAN /\ verdict' \in {0, 1, -1}
  BY DEF MakeProgressive, Inpro!Next, Inpro!Iterate, Inpro!Timeout, TypeOK,
         Inpro!CheckEquivalent
<1>4. TypeOK'
  BY <1>1, <1>2, <1>3 DEF TypeOK
<1>5. BaS' = BaS /\ BaF' = BaF /\ Joint' = Joint /\ Safe' = Safe
  BY <1>1 DEF BaS, BaF, Joint, Safe
<1>6. Stages' /\ Accepts'
  BY <1>1, <1>5 DEF Stages, Accepts, Entered
<1>7. History' /\ LoopMeetsS'
  BY <1>1 DEF History, LoopMeetsS
<1> QED BY <1>4, <1>6, <1>7

(* A cycle moves the latches of X along with those of F and S.               *)
LEMMA ClockKeeps ==
  ASSUME IInv, Clock
  PROVE  IInv'
<1> USE DEF IInv
<1> DEFINE X(y) == <<run.x, y[1], y[2], y[3]>>
<1>1. PICK y \in Sym :
        run' = [s |-> prob.S[<<run.s, y>>].next,
                f |-> prob.F[<<run.f, y>>].next,
                x |-> <<ba[X(y)].next[1], X(y) \in f0>>,
                agS |-> run.agS /\ prob.S[<<run.s, y>>].agrees,
                agF |-> run.agF /\ prob.F[<<run.f, y>>].agrees,
                out |-> X(y) \in f0,
                always |-> run.always /\ X(y) \in f0]
  BY DEF Clock
<1>2. /\ pc \in {"done", "run"} /\ pc' = "run"
      /\ UNCHANGED <<prob, bVerify, baS, ba, inact, bNondeterType, inpro>>
  BY DEF Clock
<1>3. /\ run.s \in SLatch /\ run.f \in FLatch
      /\ run.agS \in BOOLEAN /\ run.agF \in BOOLEAN /\ run.out \in BOOLEAN
      /\ prob \in Problem
  BY DEF TypeOK
<1> DEFINE nS == prob.S[<<run.s, y>>].agrees /\ run.agS
           nF == prob.F[<<run.f, y>>].agrees /\ run.agF
<1>4. ba = PrefixCloseCir(Safe)
  BY <1>2 DEF Stages, Entered
<1>5. /\ run.x \in QX
      /\ run.x[1][1][1] = run.s /\ run.x[1][1][2] = run.agS
      /\ run.x[1][2][1] = run.f /\ run.x[1][2][2] = run.agF
      /\ run.x[2] = run.out
  BY DEF History, TypeOK
<1>6. /\ ba[X(y)].f0 => (nF => nS) /\ run.out
      /\ ba[X(y)].next[1] = << <<prob.S[<<run.s, y>>].next, nS>>,
                               <<prob.F[<<run.f, y>>].next, nF>> >>
  <2> DEFINE l == run.x
             a == PrefixCloseCir(Safe)[<<l, y[1], y[2], y[3]>>]
  <2>1. /\ a.f0 = (((prob.F[<<l[1][2][1], y>>].agrees /\ l[1][2][2])
                      => (prob.S[<<l[1][1][1], y>>].agrees /\ l[1][1][2])) /\ l[2])
        /\ a.next = << << <<prob.S[<<l[1][1][1], y>>].next,
                            prob.S[<<l[1][1][1], y>>].agrees /\ l[1][1][2]>>,
                          <<prob.F[<<l[1][2][1], y>>].next,
                            prob.F[<<l[1][2][1], y>>].agrees /\ l[1][2][2]>> >>, a.f0>>
    BY <1>3, <1>5, SafeStep
  <2>2. a = ba[X(y)]
    BY <1>4
  <2> HIDE DEF a
  <2>3. a.f0 = ((nF => nS) /\ run.out)
    BY <1>5, <2>1
  <2>4. a.next[1] = << <<prob.S[<<run.s, y>>].next, nS>>,
                       <<prob.F[<<run.f, y>>].next, nF>> >>
    BY <1>5, <2>1
  <2> QED BY <2>2, <2>3, <2>4
<1>7. /\ prob.S[<<run.s, y>>] \in [agrees : BOOLEAN, next : SLatch]
      /\ prob.F[<<run.f, y>>] \in [agrees : BOOLEAN, next : FLatch]
  BY <1>3 DEF Problem, Sequential
<1>8. X(y) \in f0 => ba[X(y)].f0
  BY DEF Accepts
<1> HIDE DEF X
<1>9. History'
  BY <1>1, <1>6, <1>7, <1>8, <1>3 DEF History
<1>10. LoopMeetsS'
  BY <1>1, <1>6, <1>8, <1>7, <1>3 DEF LoopMeetsS
<1>11. run' \in [s : SLatch, f : FLatch, x : QX, agS : BOOLEAN, agF : BOOLEAN,
                 out : BOOLEAN, always : BOOLEAN]
  <2>1. nS \in BOOLEAN /\ nF \in BOOLEAN /\ run.always \in BOOLEAN
    BY <1>3, <1>7 DEF TypeOK
  <2>2. <<ba[X(y)].next[1], X(y) \in f0>> \in QX
    <3>1. X(y) \in Steps(QX)
      BY <1>5 DEF X, Steps, Sym
    <3>2. ba[X(y)].next \in QX
      BY <1>2, <3>1 DEF TypeOK, Automaton
    <3>3. ba[X(y)].next[1] \in Q /\ (X(y) \in f0) \in BOOLEAN
      BY <3>2 DEF QX
    <3> QED BY <3>3 DEF QX
  <2> QED BY <1>1, <1>7, <2>1, <2>2
<1>12. TypeOK'
  BY <1>2, <1>11 DEF TypeOK, inpro
<1>13. Stages' /\ Accepts'
  BY <1>2 DEF Stages, Accepts, Entered, inpro, BaS, BaF, Joint, Safe
<1> QED BY <1>9, <1>10, <1>12, <1>13

LEMMA Stutter == IInv /\ UNCHANGED vars => IInv'
BY DEF IInv, vars, inpro, TypeOK, Stages, Accepts, History, LoopMeetsS, Entered,
       BaS, BaF, Joint, Safe

LEMMA Inductively == IInv /\ [Next]_vars => IInv'
BY BuildKeeps, ProgressKeeps, ClockKeeps, Stutter DEF Next

(* The calls of Leq_Solve leave what the next ones rely on.                  *)
THEOREM Inductive == Spec => []IInv
BY Initially, Inductively, PTL DEF Spec

(* Every variable keeps its type: every call of Leq_Solve leaves an automaton*)
(* with the latches of its stage.                                            *)
THEOREM TypeCorrect == Spec => []TypeOK
BY Inductive, PTL DEF IInv

(* F under the solution stays within S, for every F and S: no call of        *)
(* Leq_Solve adds a word that the specification forbids.                     *)
THEOREM SolutionSound == Spec => []LoopMeetsS
BY Inductive, PTL DEF IInv

(* The solution is prefix closed: the latch of Leq_PrefixClose and the f0    *)
(* that Leq_AddCheckCir feeds it keep X at 0 once it rejected.               *)
THEOREM SolutionPrefixClosed == Spec => []PrefixClosed
<1>1. IInv => PrefixClosed
  BY DEF IInv, History, PrefixClosed
<1> QED BY Inductive, <1>1, PTL

-----------------------------------------------------------------------------
(* The second invariant follows the type of X and the fixpoint: f0 is the    *)
(* circuit restricted to the states left, eliminating its inputs gives fewer *)
(* states, or the same ones when the last comparison said so, and a run that *)
(* was accepted so far is in one of them.                                    *)
Entering == Entered \cup {"prefixClose"}

TypeFound ==
  /\ pc = "support" => bNondeterType = 0
  /\ pc = "complementX" => bNondeterType = 0 /\ inact = HasHidden
  /\ pc \in Entering => bNondeterType = IF HasHidden /\ ~ IsDeter THEN 1 ELSE 0

Left == Inpro!EliminateVar(f0, bNondeterType)

Restricted ==
  pc \in Entered =>
    f0 = { x \in Steps(QX) : ba[x].f0 /\ ba[x].next \in pNtkCheck }

Shrinking == pc \in Entered => Left \subseteq pNtkCheck

Fixpoint == pc \in {"done", "run"} /\ verdict = 1 => Left = pNtkCheck

InSolution ==
  /\ pc # "run" => run.x = initX
  /\ Solved /\ run.out => run.x \in pNtkCheck

PInv == TypeFound /\ Restricted /\ Shrinking /\ Fixpoint /\ InSolution

(* Eliminating the inputs of fewer steps leaves fewer states.                *)
LEMMA EliminateMonotone ==
  ASSUME NEW f, NEW g, f \subseteq g, NEW type
  PROVE  /\ Inpro!EliminateVar(f, type) \subseteq Inpro!EliminateVar(g, type)
         /\ Inpro!EliminateVar(f, type) \subseteq QX
<1>1. Inpro!EliminateU(f) \subseteq Inpro!EliminateU(g)
  BY DEF Inpro!EliminateU
<1>2. Inpro!EliminateV(Inpro!EliminateU(f)) \subseteq Inpro!EliminateV(Inpro!EliminateU(g))
  BY <1>1 DEF Inpro!EliminateV
<1> QED BY <1>2 DEF Inpro!EliminateVar, Inpro!EliminateN

(* What survives the elimination of f0 has a move, for each value of the     *)
(* hidden inputs if the type says so, for some value otherwise.              *)
LEMMA LeftMoves ==
  ASSUME ~ Inpro!UBeginWraps, NEW s \in Left
  PROVE  LET Good(n) == \E v \in V : \A u \in U : <<s, u, v, n>> \in f0
         IN IF bNondeterType = 1 THEN \A n \in N : Good(n) ELSE \E n \in N : Good(n)
<1> DEFINE Good(n) == \E v \in V : \A u \in U : <<s, u, v, n>> \in f0
<1>0. Inpro!U = U /\ Inpro!V = V
  BY DEF Inpro!U, Inpro!V, U, V
<1>1. ASSUME NEW n \in N, <<s, n>> \in Inpro!EliminateV(Inpro!EliminateU(f0))
      PROVE  Good(n)
  <2>1. PICK v \in V : <<s, v, n>> \in Inpro!EliminateU(f0)
    BY <1>0, <1>1 DEF Inpro!EliminateV
  <2>2. \A u \in U : <<s, u, v, n>> \in f0
    BY <1>0, <2>1 DEF Inpro!EliminateU
  <2> QED BY <2>2
<1>2. CASE bNondeterType = 1
  BY <1>1, <1>2 DEF Left, Inpro!EliminateVar, Inpro!EliminateN
<1>3. CASE bNondeterType # 1
  BY <1>1, <1>3 DEF Left, Inpro!EliminateVar, Inpro!EliminateN
<1> QED BY <1>2, <1>3

LEMMA LatchKeepsF0 ==
  ASSUME NEW a, NEW x \in Steps(QX)
  PROVE  PrefixCloseCir(a)[x].next[2] = PrefixCloseCir(a)[x].f0
BY DEF PrefixCloseCir

LEMMA PInitially == Init => PInv
BY DEF Init, PInv, TypeFound, Restricted, Shrinking, Fixpoint, InSolution, Solved,
       Entering, Entered

LEMMA PBuildKeeps ==
  ASSUME IInv, PInv, ComplementS \/ Product \/ Support \/ ComplementX \/ PrefixClose
  PROVE  PInv'
<1> USE DEF PInv
<1>1. run' = run /\ prob' = prob /\ bVerify' = bVerify /\ IsDeter' = IsDeter
  BY DEF ComplementS, Product, Support, ComplementX, PrefixClose, IsDeter
<1>2. CASE ComplementS \/ Product \/ Support \/ ComplementX
  <2>1. /\ pc' \in {"product", "support", "complementX", "prefixClose"}
        /\ pc \notin Entered /\ pc # "run"
    BY <1>2 DEF ComplementS, Product, Support, ComplementX, Entered
  <2>2. TypeFound'
    BY <1>1, <1>2 DEF ComplementS, Product, Support, ComplementX, TypeFound,
       Entering, Entered, ComplementType, inpro
  <2>3. (Restricted /\ Shrinking /\ Fixpoint /\ InSolution)'
    BY <1>1, <2>1 DEF Restricted, Shrinking, Fixpoint, InSolution, Solved, Entered
  <2> QED BY <2>2, <2>3
<1>3. CASE PrefixClose
  <2>1. /\ pc = "prefixClose" /\ pc' = "loop" /\ pNtkCheck' = QX
        /\ f0' = { x \in Steps(QX) : ba'[x].f0 } /\ bNondeterType' = bNondeterType
    BY <1>3 DEF PrefixClose
  <2>2. TypeFound'
    BY <1>1, <2>1 DEF TypeFound, Entering, Entered
  <2>3. \A x \in Steps(QX) : ba'[x].next \in QX
    BY <2>1, BuildKeeps DEF IInv, TypeOK, Automaton
  <2>4. Restricted'
    BY <2>1, <2>3 DEF Restricted
  <2>5. Shrinking'
    BY <2>1, EliminateMonotone DEF Shrinking, Left
  <2>6. Fixpoint' /\ InSolution'
    BY <1>1, <2>1 DEF Fixpoint, InSolution, Solved
  <2> QED BY <2>2, <2>4, <2>5, <2>6
<1> QED BY <1>2, <1>3

(* A turn of the loop restricts f0 to what the elimination left of it; when  *)
(* that is what was there before, f0 does not change.                        *)
LEMMA PProgressKeeps ==
  ASSUME IInv, PInv, MakeProgressive
  PROVE  PInv'
<1> USE DEF PInv
<1>1. /\ pc = "loop" /\ pc' \in {"loop", "done", "exit"}
      /\ UNCHANGED <<prob, bVerify, baS, ba, inact, bNondeterType, run>>
  BY DEF MakeProgressive, Inpro!Next, Inpro!Iterate, Inpro!Timeout
<1>2. TypeFound'
  BY <1>1 DEF TypeFound, Entering, Entered, IsDeter
<1>3. run.x = initX /\ InSolution'
  BY <1>1 DEF InSolution, Solved
<1>4. CASE Inpro!Iterate
  <2>1. /\ f0' = { x \in f0 : ba[x].next \in Left }
        /\ pNtkCheck' = Left
        /\ pc' \in {"loop", "done"}
        /\ pc' = "done" /\ verdict' = 1 => Left = pNtkCheck
    BY <1>4 DEF Inpro!Iterate, Inpro!AddCheckCir, Inpro!CheckEquivalent, Left
  <2>2. Left \subseteq pNtkCheck
    BY <1>1 DEF Shrinking, Entered
  <2>3. f0 = { x \in Steps(QX) : ba[x].f0 /\ ba[x].next \in pNtkCheck }
    BY <1>1 DEF Restricted, Entered
  <2>4. Restricted'
    BY <1>1, <2>1, <2>2, <2>3 DEF Restricted
  <2>5. Left' \subseteq Left
    BY <1>1, <2>1, EliminateMonotone DEF Left
  <2>6. Shrinking'
    BY <2>1, <2>5 DEF Shrinking
  <2>7. Fixpoint'
    <3> SUFFICES ASSUME pc' = "done", verdict' = 1 PROVE Left' = pNtkCheck'
      BY <2>1 DEF Fixpoint
    <3>1. f0' = f0
      BY <2>1, <2>3
    <3> QED BY <1>1, <2>1, <3>1 DEF Left
  <2> QED BY <1>2, <1>3, <2>4, <2>6, <2>7
<1>5. CASE Inpro!Timeout
  <2>1. pc' = "exit" /\ UNCHANGED <<f0, pNtkCheck>>
    BY <1>5 DEF Inpro!Timeout
  <2>2. (Restricted /\ Shrinking /\ Fixpoint)'
    BY <1>1, <2>1 DEF Restricted, Shrinking, Fixpoint, Left, Entered
  <2> QED BY <1>2, <1>3, <2>2
<1> QED BY <1>4, <1>5 DEF MakeProgressive, Inpro!Next

(* An accepted step leads to a state left.                                   *)
LEMMA PClockKeeps ==
  ASSUME IInv, PInv, Clock
  PROVE  PInv'
<1> USE DEF PInv
<1>1. /\ pc \in {"done", "run"} /\ pc' = "run"
      /\ UNCHANGED <<prob, bVerify, baS, ba, inact, bNondeterType, inpro>>
  BY DEF Clock
<1>2. (TypeFound /\ Restricted /\ Shrinking /\ Fixpoint)'
  BY <1>1 DEF TypeFound, Restricted, Shrinking, Fixpoint, Left, Entering, Entered,
     IsDeter, inpro
<1>3. ASSUME Solved', run'.out PROVE run'.x \in pNtkCheck'
  <2>1. PICK y \in Sym :
          run' = [s |-> prob.S[<<run.s, y>>].next,
                  f |-> prob.F[<<run.f, y>>].next,
                  x |-> <<ba[<<run.x, y[1], y[2], y[3]>>].next[1],
                          <<run.x, y[1], y[2], y[3]>> \in f0>>,
                  agS |-> run.agS /\ prob.S[<<run.s, y>>].agrees,
                  agF |-> run.agF /\ prob.F[<<run.f, y>>].agrees,
                  out |-> <<run.x, y[1], y[2], y[3]>> \in f0,
                  always |-> run.always /\ <<run.x, y[1], y[2], y[3]>> \in f0]
    BY DEF Clock
  <2> DEFINE x == <<run.x, y[1], y[2], y[3]>>
  <2>2. x \in f0 /\ run'.x = <<ba[x].next[1], TRUE>>
    BY <1>3, <2>1
  <2>3. x \in Steps(QX) /\ ba[x].f0 /\ ba[x].next \in pNtkCheck
    BY <1>1, <2>2 DEF Restricted, Entered
  <2>4. ba[x].f0 \in BOOLEAN /\ ba[x].next \in QX
    BY <1>1, <2>3 DEF IInv, TypeOK, Automaton
  <2>5. ba[x].next[2] = ba[x].f0
    BY <1>1, <2>3, LatchKeepsF0 DEF IInv, Stages, Entered
  <2>6. ba[x].next = <<ba[x].next[1], TRUE>>
    <3>1. ba[x].f0 = TRUE
      BY <2>3, <2>4
    <3>2. ba[x].next[2] = TRUE
      BY <2>5, <3>1
    <3>3. ba[x].next = <<ba[x].next[1], ba[x].next[2]>>
      BY <2>4 DEF QX
    <3> QED BY <3>2, <3>3
  <2> QED BY <1>1, <2>2, <2>3, <2>6 DEF inpro
<1> QED BY <1>1, <1>2, <1>3 DEF InSolution

LEMMA PStutter == PInv /\ UNCHANGED vars => PInv'
BY DEF PInv, vars, inpro, TypeFound, Restricted, Shrinking, Fixpoint, InSolution,
       Solved, Left, Entering, Entered, IsDeter

LEMMA PInductively == IInv /\ PInv /\ [Next]_vars => PInv'
BY PBuildKeeps, PProgressKeeps, PClockKeeps, PStutter DEF Next

(* When X is not declared deterministic, and there is an input beside u, a   *)
(* solution that is not empty never gets stuck, for every F and S: an        *)
(* accepted word always leads to a state of the fixpoint.                    *)
THEOREM SolutionNondeterProgressive ==
  ASSUME ~ Inpro!UBeginWraps PROVE Spec => []NondeterProgressive
<1>1. PInv => NondeterProgressive
  <2> SUFFICES ASSUME PInv, Solved, ~ IsDeter, run.out, NEW n \in N
               PROVE  \E v \in V : \A u \in U : <<run.x, u, v, n>> \in f0
    BY DEF NondeterProgressive
  <2>1. run.x \in Left
    BY DEF PInv, InSolution, Fixpoint, Solved
  <2>2. bNondeterType = IF HasHidden THEN 1 ELSE 0
    BY DEF PInv, TypeFound, Solved, Entering, Entered
  <2> DEFINE Good(o) == \E v \in V : \A u \in U : <<run.x, u, v, o>> \in f0
  <2>3. IF bNondeterType = 1 THEN \A o \in N : Good(o) ELSE \E o \in N : Good(o)
    BY <2>1, LeftMoves
  <2>4. CASE HasHidden
    BY <2>2, <2>3, <2>4
  <2>5. CASE ~ HasHidden
    <3>1. PICK o \in N : Good(o)
      BY <2>2, <2>3, <2>5
    <3>2. o = n
      BY <2>5 DEF HasHidden
    <3> QED BY <3>1, <3>2
  <2> QED BY <2>4, <2>5
<1> QED BY Inductive, PInitially, PInductively, <1>1, PTL DEF Spec

-----------------------------------------------------------------------------
(* The third invariant: the fixpoint takes no state from a set of states that*)
(* can stay in it, accepted, whatever u and the hidden inputs are.           *)
Progressing(W) ==
  \A s \in W : \A n \in N : \E v \in V : \A u \in U :
    ba[<<s, u, v, n>>].f0 /\ ba[<<s, u, v, n>>].next \in W

Kept == pc \in Entered => \A W \in SUBSET QX : Progressing(W) => W \subseteq pNtkCheck

(* Such a set survives the elimination of every f that has all its steps,    *)
(* whichever way the hidden inputs are quantified, and u, too.               *)
LEMMA ProgressingSurvives ==
  ASSUME NEW W \in SUBSET QX, Progressing(W), NEW f, NEW type,
         { x \in Steps(QX) : ba[x].f0 /\ ba[x].next \in W } \subseteq f
  PROVE  W \subseteq Inpro!EliminateVar(f, type)
<1> SUFFICES ASSUME NEW s \in W PROVE s \in Inpro!EliminateVar(f, type)
  OBVIOUS
<1>0. Inpro!U = U /\ Inpro!V = V /\ 0 \in U
  BY SymbolAssumption DEF Inpro!U, Inpro!V, U, V
<1>1. ASSUME NEW n \in N PROVE <<s, n>> \in Inpro!EliminateV(Inpro!EliminateU(f))
  <2>1. PICK v \in V : \A u \in U : ba[<<s, u, v, n>>].f0 /\ ba[<<s, u, v, n>>].next \in W
    BY DEF Progressing
  <2>2. \A u \in U : <<s, u, v, n>> \in f
    BY <2>1 DEF Steps
  <2>3. <<s, v, n>> \in Inpro!EliminateU(f)
    BY <1>0, <2>2 DEF Inpro!EliminateU
  <2> QED BY <1>0, <2>3 DEF Inpro!EliminateV
<1>2. s \in QX /\ N # {}
  BY SymbolAssumption
<1> QED BY <1>1, <1>2 DEF Inpro!EliminateVar, Inpro!EliminateN

LEMMA KeptInitially == Init => Kept
BY DEF Init, Kept, Entered

LEMMA KeptStep == IInv /\ PInv /\ Kept /\ [Next]_vars => Kept'
<1> SUFFICES ASSUME IInv, PInv, Kept, [Next]_vars, pc' \in Entered,
                    NEW W \in SUBSET QX, Progressing(W)'
             PROVE  W \subseteq pNtkCheck'
  BY DEF Kept
<1>1. CASE ComplementS \/ Product \/ Support \/ ComplementX
  BY <1>1 DEF ComplementS, Product, Support, ComplementX, Entered
<1>2. CASE PrefixClose
  BY <1>2 DEF PrefixClose
<1>3. CASE MakeProgressive
  <2>1. pc = "loop" /\ ba' = ba
    BY <1>3 DEF MakeProgressive, Inpro!Next, Inpro!Iterate, Inpro!Timeout
  <2>2. Progressing(W) /\ W \subseteq pNtkCheck
    BY <2>1 DEF Progressing, Kept, Entered
  <2>3. CASE Inpro!Iterate
    <3>1. pNtkCheck' = Inpro!EliminateVar(f0, bNondeterType)
      BY <2>3 DEF Inpro!Iterate
    <3>2. { x \in Steps(QX) : ba[x].f0 /\ ba[x].next \in W } \subseteq f0
      BY <2>1, <2>2 DEF PInv, Restricted, Entered
    <3> QED BY <2>2, <3>1, <3>2, ProgressingSurvives
  <2>4. CASE Inpro!Timeout
    BY <2>2, <2>4 DEF Inpro!Timeout
  <2> QED BY <1>3, <2>3, <2>4 DEF MakeProgressive, Inpro!Next
<1>4. CASE Clock \/ UNCHANGED vars
  <2>1. pc \in Entered /\ ba' = ba /\ pNtkCheck' = pNtkCheck
    BY <1>4 DEF Clock, vars, inpro, Entered
  <2> QED BY <2>1 DEF Kept, Progressing
<1> QED BY <1>1, <1>2, <1>3, <1>4 DEF Next

(* The solution is the largest of its kind: no call of Leq_InputProgressive2 *)
(* takes a state from a set in which X can go on for ever, accepted, whatever*)
(* u and the hidden inputs are, also when it is left undecided.              *)
THEOREM SolutionLargest == Spec => []Kept
BY Initially, Inductively, PInitially, PInductively, KeptInitially, KeptStep, PTL DEF Spec
=============================================================================
