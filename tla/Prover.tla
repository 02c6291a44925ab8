-------------------------------- MODULE Prover --------------------------------
(***************************************************************************)
(* What a prover promises, as leqVerify.cpp relies on it: asked whether the *)
(* output of a miter is never 1, it answers once, rightly or not at all.   *)
(***************************************************************************)
EXTENDS Integers

VARIABLES
  never,  \* the output of the miter is 0 in every cycle
  answer  \* 1: never, 0: it can be 1, -1: undecided, 2: not answered yet

Unanswered == 2

Init == never \in BOOLEAN /\ answer = Unanswered

(* The answers that may be given about a miter.                            *)
Answers(isNever) == {IF isNever THEN 1 ELSE 0, -1}

Reply ==
  /\ answer = Unanswered
  /\ answer' \in Answers(never)
  /\ UNCHANGED never

Spec == Init /\ [][Reply]_<<never, answer>>
===============================================================================
