----------------------------- MODULE MCLeqSolve -----------------------------
(* Problems over single bits.  F reads i and v and writes o and w, S reads i *)
(* and writes o, both have one latch.  X reads w (and i, if iInU) and writes *)
(* v; the rest is hidden.  The least bit of u is i if iInU, that of n if not *)
(* (unused in the other case); with UNum = 2 there is no room for w beside i.*)
EXTENDS LeqSolve

CONSTANTS
  IKinds, \* whether X reads i: the kinds of problems
  NNum    \* values of the hidden inputs

Bit == 0 .. 1
MCFLatch == 2 .. 3 \* F's latch is 0 or 1, plus 2: apart from the latch of S
MCN == 0 .. NNum - 1

IOf(y, iInU) == IF iInU THEN y[1] % 2 ELSE y[3] % 2
WOf(y) == IF UNum = 4 THEN y[1] \div 2 ELSE y[1]
OOf(y) == y[3] \div (NNum \div 2)

(* What an output or a latch of F, and of S, is driven by.                   *)
FBit(k, q, i, v) ==
  CASE k = "i" -> i [] k = "v" -> v [] k = "q" -> q [] k = "0" -> 0
    [] k = "vq" -> (v + q) % 2 [] k = "vi" -> v * i

FCir(o, w, q, iInU) ==
  [x \in MCFLatch \X (U \X V \X MCN) |->
     LET Val(k) == FBit(k, x[1] - 2, IOf(x[2], iInU), x[2][2])
     IN [agrees |-> OOf(x[2]) = Val(o) /\ ((iInU /\ UNum = 2) \/ WOf(x[2]) = Val(w)), next |-> 2 + Val(q)]]

SCir(o, q, iInU) ==
  [x \in Bit \X (U \X V \X MCN) |->
     [agrees |-> OOf(x[2]) = FBit(o, x[1], IOf(x[2], iInU), 0),
      next |-> FBit(q, x[1], IOf(x[2], iInU), 0)]]

MCProblems ==
  UNION { [ S : { SCir(d[1], d[2], b) : d \in {<<"i", "i">>, <<"q", "i">>, <<"0", "q">>} },
            F : { FCir(o, w, q, b) : o \in {"v", "vq", "vi", "i"}, w \in {"i", "q", "0"},
                                     q \in {"i", "v", "q"} },
            iInU : {b} ] : b \in IKinds }
=============================================================================
