---------------------------- MODULE MCInputOrder ----------------------------
(* Instances of InputOrder: circuits of four inputs whose names U and V hold *)
(* in any way, in any order, with a name the circuit lacks.                  *)
EXTENDS InputOrder

MCName == {2, 3, 5, 7}
MCUnknown == {9}
=============================================================================
