-------------------------- MODULE InputProgressive2 -------------------------
(***************************************************************************)
(* Leq_InputProgressive2 (leqInpro2.cpp) with Leq_EliminateVar             *)
(* (leqEliQuan.cpp): the symbolic fixpoint that `solve' uses to make the   *)
(* solution input progressive.  Every iteration quantifies the inputs out  *)
(* of f0, which leaves the states that still have a move (pNtkCheck),      *)
(* conjoins "the next state is one of them" to f0, and compares pNtkCheck  *)
(* with the one of the iteration before.                                   *)
(***************************************************************************)
EXTENDS TransitionCircuit, Integers

VARIABLES
  ba,            \* the circuit as given; never changes
  bNondeterType, \* 0: a move for some n, 1: a move for every n
  f0,            \* the accepted steps <<s, u, v, n>> of the current circuit
  pNtkCheck,     \* the states the last iteration found to have a move
  hasOld,        \* an iteration was completed: pNtkCheckOld is not NULL
  pc,            \* "loop", "done" or "exit"
  verdict        \* the last answer of Leq_CheckEquivalent

vars == <<ba, bNondeterType, f0, pNtkCheck, hasOld, pc, verdict>>

-----------------------------------------------------------------------------
(* uBegin = nInput - |u| - 1 is unsigned: it wraps when u is all there is,   *)
(* and no index is above it then.                                            *)
UBeginWraps == VNum = 1 /\ \A m, n \in N : m = n

(* The inputs are quantified from the last position down: u, then v, then n. *)
EliminateU(f) ==
  { x \in State \X V \X N :
      IF UBeginWraps THEN \E u \in U : <<x[1], u, x[2], x[3]>> \in f
                     ELSE \A u \in U : <<x[1], u, x[2], x[3]>> \in f }

(* Mutant: v is quantified universally.                                      *)
EliminateVForAll(g) == { x \in State \X N : \A v \in V : <<x[1], v, x[2]>> \in g }

EliminateV(g) == { x \in State \X N : \E v \in V : <<x[1], v, x[2]>> \in g }

EliminateN(h, type) ==
  { s \in State : IF type = 1 THEN \A n \in N : <<s, n>> \in h
                              ELSE \E n \in N : <<s, n>> \in h }

EliminateVar(f, type) == EliminateN(EliminateV(EliminateU(f)), type)

(* Mutants: the check is or-ed to f0 instead of and-ed, and it is left out.  *)
AddCheckCirOr(f, check) ==
  { x \in State \X U \X V \X N : x \in f \/ ba[x].next \in check }

AddCheckCirNot(f, check) == f

(* Leq_AddCheckCir: the steps of f whose next state is in check.             *)
AddCheckCir(f, check) == { x \in f : ba[x].next \in check }

(* Mutant: the answer is only ever 1 for a constant.                         *)
CheckEquivalentNever(check) == {0}

(* Leq_CheckEquivalent: 0 different, 1 equal, -1 undecided within the        *)
(* conflict limit.  The first call has nothing to compare with; pNtkCheck is *)
(* never constant 1 there, being 0 for a latch vector that is no state.      *)
CheckEquivalent(check) ==
  IF hasOld THEN {IF pNtkCheck = check THEN 1 ELSE 0, -1} ELSE {0}

-----------------------------------------------------------------------------
Init ==
  /\ ba \in Automata
  /\ bNondeterType \in {0, 1}
  /\ f0 = { x \in State \X U \X V \X N : ba[x].f0 }
  /\ pNtkCheck = State
  /\ hasOld = FALSE
  /\ pc = "loop"
  /\ verdict = 0

(* One turn of the loop; any answer but 0 leaves it.                         *)
Iterate ==
  /\ pc = "loop"
  /\ LET check == EliminateVar(f0, bNondeterType)
     IN /\ verdict' \in CheckEquivalent(check)
        /\ f0' = AddCheckCir(f0, check)
        /\ pNtkCheck' = check
  /\ IF verdict' = 0 THEN hasOld' = TRUE /\ UNCHANGED pc
                     ELSE pc' = "done" /\ UNCHANGED hasOld
  /\ UNCHANGED <<ba, bNondeterType>>

(* An elimination that takes over 3600 s ends the whole program.             *)
Timeout ==
  /\ pc = "loop"
  /\ pc' = "exit"
  /\ UNCHANGED <<ba, bNondeterType, f0, pNtkCheck, hasOld, verdict>>

Next == Iterate \/ Timeout

Spec == Init /\ [][Next]_vars

(* One sequential loop, whose calls all return; nothing obliges a call to run*)
(* into the time limit.                                                      *)
FairSpec == Spec /\ WF_vars(Iterate)

-----------------------------------------------------------------------------
(* Every variable has its type. *)
TypeOK ==
  /\ ba \in Circuit
  /\ bNondeterType \in {0, 1}
  /\ f0 \subseteq State \X U \X V \X N
  /\ pNtkCheck \subseteq State
  /\ hasOld \in BOOLEAN
  /\ pc \in {"loop", "done", "exit"}
  /\ verdict \in {0, 1, -1}

(* From s, for some n (every n, when bNondeterType is 1), there is one v     *)
(* that for all u is an accepted step into W.                                *)
HasMove(s, W) ==
  LET Good(n) == \E v \in V : \A u \in U :
        ba[s, u, v, n].f0 /\ ba[s, u, v, n].next \in W
  IN IF bNondeterType = 1 THEN \A n \in N : Good(n) ELSE \E n \in N : Good(n)

(* The states found to have a move never come back once they were dropped:   *)
(* the fixpoint is approached from above only.                               *)
ChecksShrink == [][pNtkCheck' \subseteq pNtkCheck]_vars

(* No state of a set that is progressive in this sense is ever dropped, even *)
(* when the loop is left on an undecided comparison.                         *)
LargestKept ==
  \A W \in SUBSET State : (\A s \in W : HasMove(s, W)) => W \subseteq pNtkCheck

(* When the loop is left on a decided comparison the states that remain are  *)
(* progressive, and the circuit is the given one restricted to them.         *)
FixpointOnEqual ==
  pc = "done" /\ verdict = 1 =>
    /\ \A s \in pNtkCheck : HasMove(s, pNtkCheck)
    /\ f0 = { x \in State \X U \X V \X N : ba[x].f0 /\ ba[x].next \in pNtkCheck }

(* The loop is left, by a comparison or by the time limit: every turn that   *)
(* does not leave it drops a state.                                          *)
Termination == <>(pc # "loop")
=============================================================================
