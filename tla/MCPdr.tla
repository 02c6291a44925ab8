--------------------------------- MODULE MCPdr ---------------------------------
(***************************************************************************)
(* Circuits of three latches for Pdr.  A circuit is given by the number of *)
(* the next state for each state, under input 0 and under input 1.         *)
(***************************************************************************)
EXTENDS Pdr, TLC

CONSTANTS a, b, c

MCLatch == {a, b, c}

N(s) == s[a] + 2 * s[b] + 4 * s[c]
St(n) == [l \in Latch |-> IF l = a THEN n % 2 ELSE IF l = b THEN (n \div 2) % 2 ELSE n \div 4]

Net(f, g, bad) ==
  [next |-> [x \in State \X Input |-> St((IF x[2] = 0 THEN f ELSE g)[N(x[1]) + 1])],
   bad |-> { x \in State \X Input : <<N(x[1]), x[2]>> \in bad }]

(* Safe ones (the first needs a solver built anew); from the ninth on such *)
(* that go bad after 2, 2, 3 and 4 steps, never, and at once in all states.*)
MCNets ==
  {
    Net(<<4, 2, 2, 3, 6, 2, 6, 0>>, <<4, 2, 2, 3, 6, 2, 6, 0>>, {<<1, 0>>, <<2, 0>>}),
    Net(<<4, 7, 4, 4, 5, 2, 0, 7>>, <<0, 1, 2, 3, 4, 2, 6, 0>>, {<<7, 0>>}),
    Net(<<2, 4, 4, 7, 4, 6, 0, 7>>, <<0, 4, 1, 3, 0, 6, 6, 3>>, {<<7, 0>>}),
    Net(<<2, 3, 1, 1, 7, 3, 2, 0>>, <<0, 5, 0, 3, 4, 0, 2, 0>>, {<<7, 0>>}),
    Net(<<2, 0, 7, 6, 5, 2, 2, 7>>, <<2, 2, 2, 3, 7, 0, 2, 0>>, {<<6, 1>>}),
    Net(<<1, 4, 2, 0, 6, 2, 5, 7>>, <<1, 4, 2, 6, 6, 2, 5, 1>>, {<<7, 0>>}),
    Net(<<4, 6, 1, 3, 6, 0, 4, 3>>, <<0, 1, 1, 0, 6, 1, 4, 7>>, {<<5, 0>>, <<7, 1>>}),
    Net(<<1, 0, 6, 4, 1, 6, 2, 7>>, <<0, 4, 2, 4, 1, 6, 6, 7>>, {<<5, 0>>, <<7, 1>>}),
    Net(<<4, 5, 4, 2, 7, 5, 4, 3>>, <<0, 0, 4, 3, 0, 0, 0, 3>>, {<<5, 0>>, <<7, 1>>}),
    Net(<<1, 6, 5, 7, 2, 2, 6, 0>>, <<0, 0, 2, 3, 6, 0, 6, 7>>, {<<6, 1>>}),
    Net(<<1, 2, 6, 3, 5, 1, 5, 7>>, <<1, 0, 7, 3, 5, 0, 5, 0>>, {<<6, 1>>}),
    Net(<<1, 6, 3, 4, 2, 7, 5, 3>>, <<0, 6, 1, 0, 0, 0, 5, 2>>, {<<7, 0>>}),
    Net(<<1, 2, 4, 3, 0, 7, 3, 1>>, <<1, 2, 4, 3, 0, 7, 3, 1>>, {}),
    Net(<<1, 1, 2, 3, 4, 5, 6, 7>>, <<1, 1, 2, 3, 4, 5, 6, 7>>, (0 .. 7) \X {1})
  }
===============================================================================
