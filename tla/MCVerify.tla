------------------------------ MODULE MCVerify ------------------------------
(* Instances of Verify: the problems of MCLeqSolve with hidden inputs and    *)
(* without, and circuits of one latch that drive v by it or by an input, too.*)
EXTENDS Verify, MCLeqSolve

XvCir(v, next) ==
  [x \in Bit \X (U \X V \X MCN) |->
     LET w == WOf(x[2])
         Val(k) == CASE k = "w" -> w [] k = "q" -> x[1] [] k = "wq" -> (w + x[1]) % 2
     IN [agrees |-> x[2][2] = Val(v), next |-> Val(next)]]

(* Problems whose S is met by F as it is, by a controller, or not at all.    *)
MCVerifyProblems ==
  { p \in MCProblems :
      p.F \in { FCir(d[1], d[2], d[3], p.iInU) :
                  d \in {<<"v", "i", "i">>, <<"i", "i", "v">>, <<"vi", "q", "v">>} } }

MCXvs == { XvCir(d[1], d[2]) : d \in {<<"q", "w">>, <<"w", "w">>, <<"q", "wq">>} }

(* All controllers of two states.                                            *)
MCControllers ==
  [ init : {0}, v : [Bit -> V], next : [Bit \X U -> Bit] ]

(* What the theorems about Verify take for granted holds of this instance.   *)
ASSUME MCVerifyAssumption == DrivesV /\ EnoughCycles
=============================================================================
