------------------------------ MODULE LeqSolve ------------------------------
(***************************************************************************)
(* Leq_Solve (leqOperation.cpp), the command `solve': from the automata of *)
(* the fixed component F and the specification S it builds the solution    *)
(*       X  =  Prefix( not Hide( not S x F ) )  made input progressive,    *)
(* one call after the other, ending in Leq_InputProgressive2.  The written *)
(* circuit is then clocked beside F and S.                                 *)
(*                                                                         *)
(* A symbol is <<u, v, n>>: what X reads, what X writes, and the hidden    *)
(* rest (the outputs of S, and its inputs when X does not read them).      *)
(***************************************************************************)
EXTENDS Integers

CONSTANTS
  SLatch, FLatch,   \* latch vectors of the sequential circuits of S and F
  initS, initF,     \* and their initial values
  UNum, VNum,       \* 2^|u| and 2^|v|
  N,                \* values of the hidden inputs
  Problems          \* the pairs of S and F to solve

U == 0 .. UNum - 1
V == 0 .. VNum - 1
Sym == U \X V \X N

(* A sequential circuit beside a symbol: whether its outputs are those of    *)
(* the symbol, and its next latches.                                         *)
Sequential(L) == [L \X Sym -> [agrees : BOOLEAN, next : L]]

Problem == [S : Sequential(SLatch), F : Sequential(FLatch), iInU : BOOLEAN]

ASSUME LatchAssumption == initS \in SLatch /\ initF \in FLatch
ASSUME SymbolAssumption == UNum \in Nat \ {0} /\ VNum \in Nat \ {0} /\ N # {}
ASSUME ProblemAssumption == Problems \subseteq Problem

VARIABLES
  prob,          \* the circuits of S and F
  bVerify,       \* option -v
  baS,           \* the automaton of S
  ba,            \* the automaton X under construction
  inact,         \* X has inactive inputs
  bNondeterType, \* of X: 0 existential, 1 universal
  f0, pNtkCheck, hasOld, verdict, \* of Leq_InputProgressive2
  pc,            \* the next call
  run            \* the clocked circuits

inpro == <<f0, pNtkCheck, hasOld, verdict>>
vars == <<prob, bVerify, baS, ba, inact, bNondeterType, inpro, pc, run>>

-----------------------------------------------------------------------------
(* Automata: functions from a latch vector and a symbol, [Q x U x V x N].    *)
Steps(Q) == Q \X U \X V \X N
Automaton(Q) == [Steps(Q) -> [f0 : BOOLEAN, next : Q]]
SymOf(x) == <<x[2], x[3], x[4]>>
At(q, x) == <<q, x[2], x[3], x[4]>>

QS == SLatch \X BOOLEAN
QF == FLatch \X BOOLEAN
Q  == QS \X QF
QX == Q \X BOOLEAN

(* Mutant: the latch is left at the default, 0.                              *)
initIpS0 == FALSE

(* The latches that keep f0 start at 1 (Abc_LatchSetInit1).                  *)
initIpS == TRUE
initPrefix == TRUE
initX == << << <<initS, initIpS>>, <<initF, initIpS>> >>, initPrefix>>

(* Mutant: f0 says that the outputs agree now, whatever they did before.     *)
BaInitTranCirNow(c, L) ==
  [x \in Steps(L \X BOOLEAN) |->
     LET y == c[<<x[1][1], SymOf(x)>>]
     IN [f0 |-> y.agrees, next |-> <<y.next, y.agrees>>]]

(* Leq_BaInitTranCir: the outputs become inputs, f0 says that they agree now *)
(* and did so before, and an extra latch keeps f0.                           *)
BaInitTranCir(c, L) ==
  [x \in Steps(L \X BOOLEAN) |->
     LET g == c[<<x[1][1], SymOf(x)>>].agrees /\ x[1][2]
     IN [f0 |-> g, next |-> <<c[<<x[1][1], SymOf(x)>>].next, g>>]]

Complement(a) == [x \in DOMAIN a |-> [f0 |-> ~ a[x].f0, next |-> a[x].next]]

(* Mutant: the type stays, as if the support were hidden after this.         *)
ComplementTypeStays(type, hasInact, bIsDeter) == type

(* The type is flipped only for an automaton with inactive inputs that is not*)
(* declared deterministic.                                                   *)
ComplementType(type, hasInact, bIsDeter) ==
  IF hasInact /\ ~ bIsDeter THEN 1 - type ELSE type

(* Mutant: the latches of F are connected before those of S.                 *)
ProductBaTransCirSwapped(a, b) ==
  [x \in Steps(Q) |->
     LET s == a[At(x[1][1], x)]
         f == b[At(x[1][2], x)]
     IN [f0 |-> s.f0 /\ f.f0, next |-> <<f.next, s.next>>]]

ProductBaTransCir(a, b) ==
  [x \in Steps(Q) |->
     LET s == a[At(x[1][1], x)]
         f == b[At(x[1][2], x)]
     IN [f0 |-> s.f0 /\ f.f0, next |-> <<s.next, f.next>>]]

(* Mutant: the latch is connected, but f0 stays as it was.                   *)
PrefixCloseCirOpen(a) ==
  [x \in Steps(QX) |->
     LET y == a[At(x[1][1], x)]
     IN [f0 |-> y.f0, next |-> <<y.next, y.f0 /\ x[1][2]>>]]

(* Leq_PrefixClose: a latch that keeps f0, conjoined to f0.                  *)
PrefixCloseCir(a) ==
  [x \in Steps(QX) |->
     LET y == a[At(x[1][1], x)]
         g == y.f0 /\ x[1][2]
     IN [f0 |-> g, next |-> <<y.next, g>>]]

(* The automata of S and F.                                                  *)
BaS == BaInitTranCir(prob.S, SLatch)
BaF == BaInitTranCir(prob.F, FLatch)

(* Some input is neither in U nor in V.                                      *)
HasHidden == \E m, n \in N : m # n

(* The command finds out only under -v whether X reads every input of S.     *)
IsDeter == ~ (bVerify /\ ~ prob.iInU)

Inpro == INSTANCE InputProgressive2 WITH
           State <- QX, initS <- initX, Automata <- Automaton(QX)

-----------------------------------------------------------------------------
Init ==
  /\ prob \in Problems
  /\ bVerify \in BOOLEAN
  /\ baS = BaS
  /\ ba = <<>>
  /\ inact = FALSE
  /\ bNondeterType = 0
  /\ f0 = {} /\ pNtkCheck = {} /\ hasOld = FALSE /\ verdict = 0
  /\ pc = "complementS"
  /\ run = [s |-> initS, f |-> initF, x |-> initX, agS |-> TRUE, agF |-> TRUE,
            out |-> TRUE, always |-> TRUE]

(* S has no inactive inputs yet, so its type stays.                          *)
ComplementS ==
  /\ pc = "complementS"
  /\ baS' = Complement(baS)
  /\ pc' = "product"
  /\ UNCHANGED <<prob, bVerify, ba, inact, bNondeterType, inpro, run>>

(* Leq_ProductBaTransCir and Leq_BaInit of its result.                       *)
Product ==
  /\ pc = "product"
  /\ ba' = ProductBaTransCir(baS, BaF)
  /\ bNondeterType' = 0
  /\ inact' = FALSE
  /\ pc' = "support"
  /\ UNCHANGED <<prob, bVerify, baS, inpro, run>>

Support ==
  /\ pc = "support"
  /\ inact' = HasHidden
  /\ pc' = "complementX"
  /\ UNCHANGED <<prob, bVerify, baS, ba, bNondeterType, inpro, run>>

ComplementX ==
  /\ pc = "complementX"
  /\ ba' = Complement(ba)
  /\ bNondeterType' = ComplementType(bNondeterType, inact, IsDeter)
  /\ pc' = "prefixClose"
  /\ UNCHANGED <<prob, bVerify, baS, inact, inpro, run>>

(* Leq_PrefixClose, and the first lines of Leq_InputProgressive2.            *)
PrefixClose ==
  /\ pc = "prefixClose"
  /\ ba' = PrefixCloseCir(ba)
  /\ f0' = { x \in Steps(QX) : ba'[x].f0 }
  /\ pNtkCheck' = QX
  /\ pc' = "loop"
  /\ UNCHANGED <<prob, bVerify, baS, inact, bNondeterType, hasOld, verdict, run>>

MakeProgressive ==
  /\ Inpro!Next
  /\ UNCHANGED <<prob, bVerify, baS, inact, run>>

(* One clock cycle of F, S and the written circuit, whose last latch keeps   *)
(* the f0 that Leq_AddCheckCir left it.                                      *)
Clock ==
  /\ pc \in {"done", "run"}
  /\ pc' = "run"
  /\ \E y \in Sym :
       LET x == <<run.x, y[1], y[2], y[3]>>
           o == x \in f0
       IN run' = [s |-> prob.S[<<run.s, y>>].next,
                  f |-> prob.F[<<run.f, y>>].next,
                  x |-> <<ba[x].next[1], o>>,
                  agS |-> run.agS /\ prob.S[<<run.s, y>>].agrees,
                  agF |-> run.agF /\ prob.F[<<run.f, y>>].agrees,
                  out |-> o,
                  always |-> run.always /\ o]
  /\ UNCHANGED <<prob, bVerify, baS, ba, inact, bNondeterType, inpro>>

Next ==
  \/ ComplementS \/ Product \/ Support \/ ComplementX \/ PrefixClose
  \/ MakeProgressive \/ Clock

Spec == Init /\ [][Next]_vars

-----------------------------------------------------------------------------
(* Every variable has its type; the circuits have the latches of their stage.*)
TypeOK ==
  /\ prob \in Problem /\ bVerify \in BOOLEAN
  /\ baS \in Automaton(QS)
  /\ CASE pc \in {"complementS", "product"} -> ba = <<>>
       [] pc \in {"support", "complementX", "prefixClose"} -> ba \in Automaton(Q)
       [] OTHER -> ba \in Automaton(QX)
  /\ inact \in BOOLEAN /\ bNondeterType \in {0, 1}
  /\ f0 \subseteq Steps(QX) /\ pNtkCheck \subseteq QX
  /\ hasOld \in BOOLEAN /\ verdict \in {0, 1, -1}
  /\ pc \in {"complementS", "product", "support", "complementX", "prefixClose",
             "loop", "done", "exit", "run"}
  /\ run \in [s : SLatch, f : FLatch, x : QX, agS : BOOLEAN, agF : BOOLEAN,
              out : BOOLEAN, always : BOOLEAN]

(* As long as X accepts and the outputs are those of F, they are those of S: *)
(* F under X stays within S, over any number of cycles (what                 *)
(* Leq_VerifyFXS asks of a solution).                                        *)
LoopMeetsS == run.out /\ run.agF => run.agS

(* Once X rejected it never accepts again.                                   *)
PrefixClosed == run.out => run.always

Solved == pc \in {"done", "run"} /\ verdict = 1 /\ initX \in pNtkCheck

(* Unless X is declared deterministic, a solution that is not empty never    *)
(* gets stuck: after any accepted word, on every branch and for each value   *)
(* of the hidden inputs, there is a v that is accepted for all u.            *)
NondeterProgressive ==
  Solved /\ ~ IsDeter /\ run.out =>
    \A n \in N : \E v \in V : \A u \in U : <<run.x, u, v, n>> \in f0

(* From the latches q, for each u there is a v that is accepted whatever the *)
(* hidden inputs are: the move Leq_InputProgressive demands.                 *)
Moves(q) == \A u \in U : \E v \in V : \A n \in N : <<q, u, v, n>> \in f0

(* A solution that is not empty and was declared deterministic never gets    *)
(* stuck on the branch F takes: the solution is made input progressive.      *)
DeterNeverStuck == Solved /\ IsDeter /\ run.out /\ run.agF => Moves(run.x)

(* A solution that is not empty and nondeterministic has a first move.       *)
NondeterFirstMove == Solved /\ ~ IsDeter => Moves(initX)
=============================================================================
