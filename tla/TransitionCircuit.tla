-------------------------- MODULE TransitionCircuit -------------------------
(***************************************************************************)
(* The combinational view of a Boolean automaton (Leq_Ba_t, leqSolving.hpp *)
(* and leqSim.cpp): the latches and the inputs select a value of the       *)
(* output f0 and a next latch vector.  The inputs fall into three groups:  *)
(* u, the inputs of the component to be controlled from outside (sU), v,   *)
(* the other active inputs, and n, the inactive inputs the automaton is    *)
(* nondeterministic about.                                                 *)
(*                                                                         *)
(* A state is the vector of latch values with the prefix-closing latch at  *)
(* 1.  That latch holds the previous f0, so a vector with 0 there accepts  *)
(* nothing and no accepted step leads to it.                               *)
(***************************************************************************)
EXTENDS Naturals

CONSTANTS
  State,      \* latch vectors
  initS,      \* the initial vector, Leq_Bin2Dec(pBa->_vIniVal)
  UNum, VNum, \* 2^|u| and 2^|v|
  N,          \* values of the inactive inputs
  Automata    \* the transition circuits the procedures are run on

U == 0 .. UNum - 1
V == 0 .. VNum - 1

Circuit == [State \X U \X V \X N -> [f0 : BOOLEAN, next : State]]

ASSUME StateAssumption == initS \in State
ASSUME InputAssumption == UNum \in Nat \ {0} /\ VNum \in Nat \ {0} /\ N # {}
ASSUME AutomataAssumption == Automata \subseteq Circuit

(* What one simulation of circuit a returns for a state and (u, v): the next *)
(* states over all n, and whether f0 is 1 for all of them.                   *)
Succ(a, s, u, v) == { a[s, u, v, n].next : n \in N }

Move(a, s, u, v) == \A n \in N : a[s, u, v, n].f0

(* The same for the circuit with "never enter a state of cut" conjoined.     *)
Accepted(a, cut, s, u, v) == Move(a, s, u, v) /\ Succ(a, s, u, v) \cap cut = {}

(* s has no move for u in the patched circuit.                               *)
NoV(a, cut, s, u) == \A v \in V : ~ Accepted(a, cut, s, u, v)

Stuck(a, cut, s) == \E u \in U : NoV(a, cut, s, u)

(* W is input progressive: from every state of W and for every u there is a  *)
(* v whose steps, whatever n, are accepted and stay in W.                    *)
Progressive(a, W) ==
  \A s \in W : \A u \in U : \E v \in V :
    Move(a, s, u, v) /\ Succ(a, s, u, v) \subseteq W
=============================================================================
