------------------------- MODULE MCInputProgressive2 ------------------------
(* Families of small automata for InputProgressive2: four states, two values *)
(* of u, of v and of n.  An option says where a step goes for n = 0 and n = 1*)
(* and for which n it is accepted.                                           *)
EXTENDS InputProgressive2

MCState == 0 .. 3
MCN == 0 .. 1

Opt(d0, d1, ok) == [n \in MCN |-> [f0 |-> n \in ok, next |-> IF n = 0 THEN d0 ELSE d1]]
To(d)       == Opt(d, d, {0, 1})
Split(d, e) == Opt(d, e, {0, 1})
Half(d, e)  == Opt(d, e, {0})
Rej         == Opt(0, 1, {})

(* row[s] = options of (u, v) = (0,0), (1,0), (0,1), (1,1), in this order.   *)
Build(r0, r1, r2, r3) ==
  [x \in MCState \X (0 .. 1) \X (0 .. 1) \X MCN |->
     LET row == CASE x[1] = 0 -> r0 [] x[1] = 1 -> r1 [] x[1] = 2 -> r2 [] x[1] = 3 -> r3
     IN row[x[2] + 2 * x[3] + 1][x[4]]]

Rows0 == {To(1)} \X {To(2), Split(1, 2)} \X {Rej, To(0)} \X {Half(3, 1)}
Rows1 == {To(2), Half(0, 2)} \X {Rej, To(3), To(1)} \X {To(1)} \X {Rej, Split(0, 3)}
Rows2 == {To(3), Split(3, 2)} \X {To(3), Half(2, 3)} \X {Rej} \X {To(2), To(0)}
Rows3 == {To(3), Rej, To(0)} \X {To(3), Half(3, 0)} \X {Rej, To(2)} \X {To(3)}

MCAutomata == { Build(a, b, c, d) : a \in Rows0, b \in Rows1, c \in Rows2, d \in Rows3 }

=============================================================================
