-------------------------- MODULE ProgressiveSubset -------------------------
(***************************************************************************)
(* What making an automaton input progressive promises, without a word on  *)
(* how the states are explored: stuck states are cut in any order and any  *)
(* number at a time, the answer is "the empty automaton" only when the     *)
(* initial state itself is stuck, and "the cut circuit" only when the      *)
(* initial state lies in a progressive set that was not touched.           *)
(***************************************************************************)
EXTENDS TransitionCircuit

VARIABLES ba, cut, result

absVars == <<ba, cut, result>>

AbsInit ==
  /\ ba \in Automata
  /\ cut = {}
  /\ result = "none"

Cut(D) ==
  /\ result = "none"
  /\ initS \notin D
  /\ \A s \in D : Stuck(ba, cut, s)
  /\ cut' = cut \cup D
  /\ UNCHANGED <<ba, result>>

Empty ==
  /\ result = "none"
  /\ Stuck(ba, cut, initS)
  /\ result' = "empty"
  /\ UNCHANGED <<ba, cut>>

Return ==
  /\ result = "none"
  /\ \E W \in SUBSET State : initS \in W /\ W \cap cut = {} /\ Progressive(ba, W)
  /\ result' = "circuit"
  /\ UNCHANGED <<ba, cut>>

AbsNext ==
  \/ \E D \in SUBSET State : Cut(D)
  \/ Empty
  \/ Return

AbsSpec == AbsInit /\ [][AbsNext]_absVars

-----------------------------------------------------------------------------
(* No state of a progressive set is ever cut: the largest progressive        *)
(* sub-automaton survives.                                                   *)
LargestSurvives ==
  \A W \in SUBSET State : Progressive(ba, W) => W \cap cut = {}

(* The empty answer means that no progressive set holds the initial state.   *)
EmptyIsRight ==
  result = "empty" => ~ \E W \in SUBSET State : Progressive(ba, W) /\ initS \in W
=============================================================================
