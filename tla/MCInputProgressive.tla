------------------------- MODULE MCInputProgressive -------------------------
(* Families of small automata for InputProgressive: four states, two values  *)
(* of u, two of v and two of n.  An option says where a step goes for n = 0  *)
(* and n = 1 and for which n it is accepted.                                 *)
EXTENDS InputProgressive

MCState == 0 .. 3
MCN == 0 .. 1

Opt(d0, d1, ok) == [n \in MCN |-> [f0 |-> n \in ok, next |-> IF n = 0 THEN d0 ELSE d1]]
To(d)      == Opt(d, d, {0, 1})
Split(d, e) == Opt(d, e, {0, 1})
Half(d, e) == Opt(d, e, {0})
Rej        == Opt(0, 1, {})

(* row[s] = options of (u, v) = (0,0), (0,1), (1,0), (1,1), in this order.   *)
Build(r0, r1, r2, r3) ==
  [x \in MCState \X (0 .. 1) \X (0 .. 1) \X MCN |->
     LET row == CASE x[1] = 0 -> r0 [] x[1] = 1 -> r1 [] x[1] = 2 -> r2 [] x[1] = 3 -> r3
     IN row[2 * x[2] + x[3] + 1][x[4]]]

Rows0 == {To(1), Split(1, 2)} \X {Rej, To(2)} \X {To(0)} \X {Rej, Half(3, 1)}
Rows1 == {Rej, To(0), To(2)} \X {Rej, To(3)} \X {Rej, To(3)} \X {Rej}
Rows2 == {Rej, Split(0, 3)} \X {Rej, To(3)} \X {To(2), Split(1, 3)} \X {Half(1, 0)}
Rows3 == {Rej, To(3), To(2)} \X {Rej} \X {Rej, To(1), To(3)} \X {Rej}

MCAutomata == { Build(a, b, c, d) : a \in Rows0, b \in Rows1, c \in Rows2, d \in Rows3 }

(* What the command `inpro' builds: a circuit without inactive inputs.       *)
MCOneN == {0}
DetAutomata ==
  { [x \in MCState \X (0 .. 1) \X (0 .. 1) \X MCOneN |-> a[x]] : a \in MCAutomata }

(* A single value of u and three of v: row[s] = options of v = 0, 1, 2.      *)
BuildOneU(r0, r1, r2, r3) ==
  [x \in MCState \X {0} \X (0 .. 2) \X MCN |->
     LET row == CASE x[1] = 0 -> r0 [] x[1] = 1 -> r1 [] x[1] = 2 -> r2 [] x[1] = 3 -> r3
     IN row[x[3] + 1][x[4]]]

OneURow0 == {To(1)} \X {Rej, Split(1, 2)} \X {To(3)}
OneURow1 == {Rej, To(2), Split(2, 3), Half(1, 0)} \X {Rej, To(3)} \X {Rej}
OneURow2 == {Rej, To(3), Split(0, 3)} \X {Rej, To(1)} \X {Rej}
OneURow3 == {Rej, To(1), To(2)} \X {Rej} \X {Rej, Half(3, 3), To(0)}

OneUAutomata ==
  { BuildOneU(a, b, c, d) :
      a \in OneURow0, b \in OneURow1, c \in OneURow2, d \in OneURow3 }
=============================================================================
