----------------------------- MODULE Determinize ----------------------------
(***************************************************************************)
(* Leq_Aba2Ba and Leq_Aba2Ba2 (leqBa.cpp), Leq_EqnWriteNetwork             *)
(* (leqEqn.cpp): a Boolean automaton with inactive inputs becomes a        *)
(* deterministic circuit with one latch per reachable latch vector.  The   *)
(* vectors are explored by simulation and numbered in the order they are   *)
(* met; then a network is written in which latch d is set by input j       *)
(* whenever a latch with an edge to d under j is set.  The module goes on  *)
(* to run that network beside the automaton it was made of.                *)
(***************************************************************************)
EXTENDS Naturals, FiniteSets

CONSTANTS
  State,   \* latch vectors
  initS,   \* the initial one
  PiNum,   \* 2^(number of active inputs)
  N,       \* values of the inactive inputs
  Automata \* the circuits the procedure is run on

J == 0 .. PiNum - 1

(* Every circuit that gets here was given a latch that is fed by f0 itself   *)
(* (Leq_BaInitTranCir, Leq_PrefixClose): the next vector determines f0.      *)
LatchedF0(a) ==
  \A x, y \in State \X J \X N : a[x].next = a[y].next => a[x].f0 = a[y].f0

Circuit == [State \X J \X N -> [f0 : BOOLEAN, next : State]]

ASSUME StateAssumption == initS \in State
ASSUME StateFinite == IsFiniteSet(State)
(* Without inactive inputs the procedures return at once.                    *)
ASSUME InputAssumption == PiNum \in Nat \ {0} /\ \E x, y \in N : x # y
ASSUME AutomataAssumption ==
  Automata \subseteq Circuit /\ \A a \in Automata : LatchedF0(a)

VARIABLES
  ba,         \* the circuit; never changes
  pc,         \* "choose", "simulate" or "run"
  cs, i,      \* the state under simulation and the next input for it
  sCS,        \* the worklist
  m,          \* mOldState2NewState
  id,         \* the next free number
  edges,      \* <<s, j, d>>: number s has an edge to number d under j
  sF0, sNF0,  \* the numbers entered by an accepted, by a rejected step
  latches,    \* run: the latches of the new network that are 1
  branches    \* run: the states the automaton's branches are in

vars == <<ba, pc, cs, i, sCS, m, id, edges, sF0, sNF0, latches, branches>>

-----------------------------------------------------------------------------
(* Simulation of state s under input j for every inactive input.             *)
Succ(s, j) == { ba[s, j, n].next : n \in N }

(* The states s goes to under j by a step with f0 = b.                       *)
SuccBy(s, j, b) == { ba[s, j, n].next : n \in { n \in N : ba[s, j, n].f0 = b } }

(* The numberings of the states of new from first on, one state per number.  *)
Numberings(new, first) ==
  { f \in [new -> first .. first + Cardinality(new) - 1] :
      /\ \A s, t \in new : f[s] = f[t] => s = t
      /\ \A k \in first .. first + Cardinality(new) - 1 : \E s \in new : f[s] = k }

NumbersOf(f, S) == { f[s] : s \in S }

(* Definitions whose comment begins with "Mutant" are faulty variants used   *)
(* only to see that the properties notice them.                              *)

(* Mutant: number 1 is skipped, as in the line the source has commented out. *)
FirstIdTwo == 2

FirstId == 1

LastInput == i = PiNum - 1

(* Mutant: the state stays in the worklist.                                  *)
WorklistKeeps(S) == S

(* The worklist after this input of cs.                                      *)
Worklist(S) == IF LastInput THEN S \ {cs} ELSE S

(* Mutant: only the states just numbered get an edge.                        *)
EdgesToNew(f) == { <<m[cs], i, f[s]>> : s \in Succ(cs, i) \ DOMAIN m }

(* The edges found by simulating input i of cs, with the numbers f.          *)
Edges(f) == { <<m[cs], i, f[s]>> : s \in Succ(cs, i) }

-----------------------------------------------------------------------------
Init ==
  /\ ba \in Automata
  /\ pc = "choose"
  /\ cs = initS
  /\ i = 0
  /\ sCS = {initS}
  /\ m = [s \in {initS} |-> 0]
  /\ id = FirstId
  /\ edges = {}
  /\ sF0 = {}
  /\ sNF0 = {}
  /\ latches = {0}
  /\ branches = {initS}

(* The head of the loop: any state of the worklist may come first.           *)
Choose(s) ==
  /\ pc = "choose"
  /\ s \in sCS
  /\ cs' = s
  /\ i' = 0
  /\ pc' = "simulate"
  /\ UNCHANGED <<ba, sCS, m, id, edges, sF0, sNF0, latches, branches>>

(* One input of cs: the states not met before are numbered and join the      *)
(* worklist, the edges and the values of f0 are recorded; after the last     *)
(* input cs leaves the worklist.                                             *)
Simulate ==
  /\ pc = "simulate"
  /\ LET new == Succ(cs, i) \ DOMAIN m
     IN \E f \in Numberings(new, id) :
          /\ m' = [s \in DOMAIN m \cup new |-> IF s \in new THEN f[s] ELSE m[s]]
          /\ id' = id + Cardinality(new)
          /\ sCS' = Worklist(sCS \cup new)
  /\ edges' = edges \cup Edges(m')
  /\ sF0' = sF0 \cup NumbersOf(m', SuccBy(cs, i, TRUE))
  /\ sNF0' = sNF0 \cup NumbersOf(m', SuccBy(cs, i, FALSE))
  /\ IF LastInput THEN pc' = "choose" /\ UNCHANGED i
                  ELSE i' = i + 1 /\ UNCHANGED pc
  /\ UNCHANGED <<ba, cs, latches, branches>>

(* The worklist is empty: the network is written and becomes the circuit.    *)
Write ==
  /\ pc = "choose"
  /\ sCS = {}
  /\ pc' = "run"
  /\ UNCHANGED <<ba, cs, i, sCS, m, id, edges, sF0, sNF0, latches, branches>>

(* Mutants: the edges are followed backwards (the "ba case" of the source),  *)
(* and the rejecting latches are left out of f0.                             *)
NextLatchesBackwards(j) ==
  { d \in 0 .. id - 1 : \E s \in latches : <<d, j, s>> \in edges }

F0WithoutRejecting(j) ==
  sF0 # {} => \E d \in sF0, s \in latches : <<s, j, d>> \in edges

(* The functions of the network: s<d>_i, and f0 over the s<d>_i.             *)
NextLatches(j) ==
  { d \in 0 .. id - 1 : \E s \in latches : <<s, j, d>> \in edges }

F0(j) ==
  /\ NextLatches(j) \cap sNF0 = {}
  /\ sF0 # {} => NextLatches(j) \cap sF0 # {}

(* A clock cycle of the network, and of the automaton it stands for.         *)
Clock(j) ==
  /\ pc = "run"
  /\ latches' = NextLatches(j)
  /\ branches' = UNION { Succ(s, j) : s \in branches }
  /\ UNCHANGED <<ba, pc, cs, i, sCS, m, id, edges, sF0, sNF0>>

Next ==
  \/ \E s \in State : Choose(s)
  \/ Simulate
  \/ Write
  \/ \E j \in J : Clock(j)

Spec == Init /\ [][Next]_vars

(* The exploration is one sequential loop.  Nothing obliges the network to   *)
(* be clocked.                                                               *)
Explore == (\E s \in State : Choose(s)) \/ Simulate \/ Write

FairSpec == Spec /\ WF_vars(Explore)

-----------------------------------------------------------------------------
(* Every variable has its type. *)
TypeOK ==
  /\ ba \in Circuit /\ LatchedF0(ba)
  /\ pc \in {"choose", "simulate", "run"}
  /\ cs \in State /\ i \in J
  /\ sCS \subseteq State
  /\ DOMAIN m \subseteq State
  /\ id \in Nat
  /\ edges \subseteq (0 .. id - 1) \X J \X (0 .. id - 1)
  /\ sF0 \subseteq 0 .. id - 1 /\ sNF0 \subseteq 0 .. id - 1
  /\ latches \subseteq 0 .. id - 1
  /\ branches \subseteq State

(* assert(id == mOldState2NewState.size()), and more: every number below id  *)
(* stands for one state, so no two states share a latch.                     *)
Numbered ==
  /\ NumbersOf(m, DOMAIN m) = 0 .. id - 1
  /\ \A s, t \in DOMAIN m : m[s] = m[t] => s = t

EdgesOf(s, j) == { <<m[s], j, m[t]>> : t \in Succ(s, j) }

(* Once the network is written, every edge of every state met is in it, and  *)
(* no other.                                                                 *)
EdgesExact ==
  pc = "run" => edges = UNION { EdgesOf(s, j) : s \in DOMAIN m, j \in J }

(* The latches that are 1 are those of the states the automaton's branches   *)
(* are in, after any sequence of inputs.                                     *)
LatchesAreBranches == pc = "run" => latches = NumbersOf(m, branches)

(* The network accepts the next input exactly when every branch of the       *)
(* automaton does: the determinized automaton has the universal language.    *)
AcceptsForAllBranches ==
  pc = "run" =>
    \A j \in J : F0(j) <=> \A s \in branches, n \in N : ba[s, j, n].f0

(* "-d: determinize the ba after support operation", for the automaton that  *)
(* command builds, which is existential: an input is accepted when some      *)
(* branch accepts it.                                                        *)
AcceptsForSomeBranch ==
  pc = "run" =>
    \A j \in J : F0(j) <=> \E s \in branches, n \in N : ba[s, j, n].f0

(* The exploration comes to an end and the network is written.               *)
Written == <>(pc = "run")
=============================================================================
