--------------------------- MODULE MCDeterminize ----------------------------
(* Automata for Determinize as Leq_BaInitTranCir makes them: a state is a    *)
(* pair of a machine state and the latch fed by f0.                          *)
EXTENDS Determinize, TLC

Q == 0 .. 2
MCState == Q \X BOOLEAN
MCInit == <<0, TRUE>>
MCN == 0 .. 1

(* An option gives, for n = 0 and 1, the next state and whether the machine  *)
(* agrees with the input.                                                    *)
Opt(d0, a0, d1, a1) == << <<d0, a0>>, <<d1, a1>> >>

WithLatch(opt) ==
  [x \in MCState \X (0 .. 1) \X MCN |->
     LET o  == opt[x[1][1]][x[2]][x[3] + 1]
         ok == x[1][2] /\ o[2]
     IN [f0 |-> ok, next |-> <<o[1], ok>>]]

Opts0 == { Opt(1, TRUE, 2, TRUE), Opt(0, TRUE, 1, FALSE) }
Opts1 == { Opt(2, TRUE, 2, TRUE), Opt(0, TRUE, 2, TRUE), Opt(1, FALSE, 0, FALSE) }
Opts2 == { Opt(0, TRUE, 0, TRUE), Opt(2, TRUE, 1, FALSE), Opt(1, TRUE, 2, TRUE) }

MCAutomata ==
  { WithLatch((0 :> (0 :> a0 @@ 1 :> b0)) @@ (1 :> (0 :> a1 @@ 1 :> b1))
                @@ (2 :> (0 :> a2 @@ 1 :> b2))) :
      a0, b0 \in Opts0, a1, b1 \in Opts1, a2, b2 \in Opts2 }
=============================================================================
