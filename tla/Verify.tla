------------------------------- MODULE Verify -------------------------------
(***************************************************************************)
(* What the command `solve' does with its solution X (leqCmd.cpp): options *)
(* -z, -d and -v compare it with a circuit the user gives (leqVerify.cpp). *)
(* Each comparison is a miter, a circuit whose output must never be 1,     *)
(* handed to one of the provers of ABC, which answers 1 (never), 0 (it can *)
(* be) or -1 (undecided).                                                  *)
(***************************************************************************)
EXTENDS LeqSolve, FiniteSets

CONSTANTS
  XLatch, initXv, \* latch vectors of the given circuit and its initial one
  Xvs,            \* the circuits to give
  UseCommands,    \* the numbers of a prover to give
  CState, Controllers, \* controllers a solution is compared to, and their states
  Cycles          \* cycles that reach every state of a miter, and controllers are followed for

ASSUME XvAssumption == initXv \in XLatch /\ Xvs \subseteq Sequential(XLatch) /\ UseCommands \subseteq Nat /\ Cycles \in Nat

ASSUME ControllerAssumption ==
  Controllers \subseteq [init : CState, v : [CState -> V], next : [CState \X U -> CState]]

VARIABLES
  xv,     \* the given circuit, <<>> before it is looked at
  fUseCommand, \* option -i
  det,    \* Leq_Aba2Ba2 replaced X by its determinized network
  checks, \* for each check, the prover's answer and what is returned; 2: not made
  vpc     \* the next step of the command

vvars == <<xv, fUseCommand, det, checks, vpc>>

Check == {"VerifyEqX", "directVerifyX", "VerifyX", "VerifyFXS"}
Answer == {1, 0, -1}

-----------------------------------------------------------------------------
With(q, y) == <<q, y[1], y[2], y[3]>>

(* A state of X is the set of branches it may be in (Determinize): one       *)
(* unless it was determinized, which joins the values of the hidden inputs.  *)
HiddenOf(y) == IF det THEN N ELSE {y[3]}
StepsOf(B, y) == { With(x, <<y[1], y[2], n>>) : x \in B, n \in HiddenOf(y) }

(* Definitions that begin with "Mutant" are faulty variants of the one below;*)
(* the specification does not use them.                                      *)
(* Mutant: f0 of the network is that of some branch.                         *)
XF0Some(B, y) == StepsOf(B, y) \cap f0 # {}

XF0(B, y) == StepsOf(B, y) \subseteq f0
XNext(B, y) == { <<ba[x].next[1], x \in f0>> : x \in StepsOf(B, y) }

(* The automaton of the given circuit (-z and -d are given it as such).      *)
BaXv == BaInitTranCir(xv, XLatch)

(* What can be reached in at most k steps, post[z] being what one step from z*)
(* leads to: all of it, and what the last step added.                        *)
Layers(start, post) ==
  LET R[i \in Nat] ==
        IF i = 0 THEN [all |-> {start}, new |-> {start}]
        ELSE LET r == R[i - 1]
                 s == UNION { post[z] : z \in r.new }
             IN [all |-> r.all \cup s, new |-> s \ r.all]
  IN R

Reached(start, post, k) == Layers(start, post)[k].all

(* The inputs of X; the network has no hidden ones, any values stand for them*)
XInputs == U \X V \X (IF det THEN {CHOOSE n \in N : TRUE} ELSE N)

startXvX == << <<initXv, TRUE>>, {initX} >>
NextXvX(z, y) == << BaXv[With(z[1], y)].next, XNext(z[2], y) >>
PostXvX ==
  [z \in (XLatch \X BOOLEAN) \X SUBSET QX |-> { NextXvX(z, y) : y \in XInputs }]
ReachedXvX == Reached(startXvX, PostXvX, Cycles)

(* Leq_VerifyX: the given circuit and the complement of X.                   *)
MiterVerifyX(z, y) ==
  BaXv[With(z[1], y)].f0 /\ ~ XF0(z[2], y)

(* Mutant: an and-gate with one inverter for the exclusive-or.               *)
MiterVerifyEqXHalf(z, y) ==
  ~ BaXv[With(z[1], y)].f0 /\ XF0(z[2], y)

(* Leq_VerifyEqX: the exclusive-or of the two.                               *)
MiterVerifyEqX(z, y) ==
  BaXv[With(z[1], y)].f0 # XF0(z[2], y)

startFXS == << {initX}, <<initF, TRUE>>, <<initS, TRUE>> >>
NextFXS(z, y) ==
  << XNext(z[1], y), BaF[With(z[2], y)].next, BaS[With(z[3], y)].next >>
PostFXS ==
  [z \in (SUBSET QX) \X QF \X QS |-> { NextFXS(z, y) : y \in Sym }]
ReachedFXS == Reached(startFXS, PostFXS, Cycles)

(* Mutant: the product without F.                                            *)
MiterVerifyFXSWithoutF(z, y) ==
  XF0(z[1], y) /\ ~ BaS[With(z[3], y)].f0

(* Leq_VerifyFXS: the product of X and F, and the complement of S.           *)
MiterVerifyFXS(z, y) ==
  XF0(z[1], y) /\ BaF[With(z[2], y)].f0 /\ ~ BaS[With(z[3], y)].f0

(* No reachable state makes the miter 1.                                     *)
NeverEqX == \A z \in ReachedXvX : \A y \in XInputs : ~ MiterVerifyEqX(z, y)
NeverX   == \A z \in ReachedXvX : \A y \in XInputs : ~ MiterVerifyX(z, y)
NeverFXS == \A z \in ReachedFXS : \A y \in Sym : ~ MiterVerifyFXS(z, y)

(* The answers a prover may give about a miter that is never 1, or can be.   *)
Answers(never) == {IF never THEN 1 ELSE 0, -1}

(* Mutant: an undecided answer fails.                                        *)
ReturnedDecided(a) == IF a = 1 THEN 1 ELSE 0

(* What a check makes of the prover's answer: an undecided one passes.       *)
Returned(a) == IF a # 0 THEN 1 ELSE 0

(* fUseCommand: 0 for dsec, 1 for pdr, 2 for dprove, 3 for int.              *)
Commands == 0 .. 3

(* One check asks one prover; another number of a command asks none, and     *)
(* the check fails.                                                          *)
Ask(c, command, never) ==
  IF command \in Commands
  THEN \E a \in Answers(never) : checks' = [checks EXCEPT ![c] = [ans |-> a, ret |-> Returned(a)]]
  ELSE checks' = [checks EXCEPT ![c] = [ans |-> -1, ret |-> 0]]

VInit ==
  /\ Init
  /\ xv = <<>> /\ fUseCommand = 0
  /\ det = FALSE
  /\ checks = [c \in Check |-> [ans |-> -1, ret |-> 2]]
  /\ vpc = "solve"

(* Leq_Solve, and then the written circuit.                                  *)
Solve ==
  /\ vpc = "solve"
  /\ Next
  /\ UNCHANGED vvars

(* The circuit was read with the options and is looked at from now on.       *)
Given ==
  /\ vpc = "solve" /\ pc = "done"
  /\ xv' \in Xvs /\ fUseCommand' \in UseCommands
  /\ vpc' = "given"
  /\ UNCHANGED <<vars, det, checks>>

(* Leq_Aba2Ba2 returns at once when X has no inactive input.                 *)
Aba2Ba2 == det \/ inact

(* Option -z.                                                                *)
DirectVerifyDeter ==
  /\ vpc = "given"
  /\ det' = Aba2Ba2
  /\ vpc' = "deter"
  /\ UNCHANGED <<vars, xv, fUseCommand, checks>>

VerifyEqX ==
  /\ vpc = "deter"
  /\ Ask("VerifyEqX", fUseCommand, NeverEqX)
  /\ vpc' = "verifiedDeter"
  /\ UNCHANGED <<vars, xv, fUseCommand, det>>

(* Option -d.                                                                *)
DirectVerify ==
  /\ vpc \in {"given", "verifiedDeter"}
  /\ Ask("directVerifyX", fUseCommand, NeverX)
  /\ vpc' = "verifiedDirectly"
  /\ UNCHANGED <<vars, xv, fUseCommand, det>>

(* Option -v: X is determinized unless it reads every input of S.            *)
Determinize ==
  /\ vpc \in {"given", "verifiedDeter", "verifiedDirectly"}
  /\ bVerify
  /\ det' = IF IsDeter THEN det ELSE Aba2Ba2
  /\ vpc' = "verifyX"
  /\ UNCHANGED <<vars, xv, fUseCommand, checks>>

VerifyX ==
  /\ vpc = "verifyX"
  /\ Ask("VerifyX", fUseCommand, NeverX)
  /\ vpc' = IF checks'["VerifyX"].ret = 1 THEN "verifyFXS" ELSE "message"
  /\ UNCHANGED <<vars, xv, fUseCommand, det>>

(* Only one prover is used here.                                             *)
VerifyFXS ==
  /\ vpc = "verifyFXS"
  /\ Ask("VerifyFXS", 0, NeverFXS)
  /\ vpc' = "message"
  /\ UNCHANGED <<vars, xv, fUseCommand, det>>

VNext ==
  \/ Solve \/ Given \/ DirectVerifyDeter \/ VerifyEqX \/ DirectVerify \/ Determinize
  \/ VerifyX \/ VerifyFXS

VSpec == VInit /\ [][VNext]_<<vars, vvars>>

-----------------------------------------------------------------------------
(* "X is a valid solution".                                                  *)
Valid == vpc = "message" /\ checks["VerifyX"].ret = 1 /\ checks["VerifyFXS"].ret = 1

(* A component that drives v by its state, beside S and F: the symbols it and*)
(* F can take, and what they lead to.                                        *)
Driven(v, z) == { y \in Sym : y[2] = v[z[1]] /\ prob.F[<<z[3], y>>].agrees }
PostBeside(K, v, next) ==
  [z \in K \X SLatch \X FLatch |->
     { <<next[<<z[1], y[1]>>], prob.S[<<z[2], y>>].next, prob.F[<<z[3], y>>].next>> :
       y \in Driven(v, z) }]

(* Beside F a controller keeps to S.                                         *)
Solves(c, k) ==
  \A z \in Reached(<<c.init, initS, initF>>, PostBeside(CState, c.v, c.next), k) :
    \A y \in Driven(c.v, z) : prob.S[<<z[2], y>>].agrees

(* X accepts every word of the controller, whatever the hidden inputs are.   *)
Controlled(c, z) == { y \in Sym : y[2] = c.v[z[1]] }
PostControlled(c) ==
  [z \in CState \X QX |->
     { <<c.next[<<z[1], y[1]>>], ba[With(z[2], y)].next>> : y \in Controlled(c, z) }]
Accepted(c, k) ==
  \A z \in Reached(<<c.init, initX>>, PostControlled(c), k) :
    \A y \in Controlled(c, z) : With(z[2], y) \in f0

(* The solution holds every controller that solves the problem (what         *)
(* Leq_VerifyX asks of it): neither the quantification nor the fixpoint      *)
(* loses one.                                                                *)
ControllersContained ==
  pc = "done" /\ vpc = "solve" =>
    \A c \in Controllers : Solves(c, Cycles) => Accepted(c, Cycles)

(* The given circuit beside F keeps to S.                                    *)
XvDriven(z) == { y \in Sym : xv[<<z[1], y>>].agrees /\ prob.F[<<z[3], y>>].agrees }
PostXv ==
  [z \in XLatch \X SLatch \X FLatch |->
     { <<xv[<<z[1], y>>].next, prob.S[<<z[2], y>>].next, prob.F[<<z[3], y>>].next>> :
       y \in XvDriven(z) }]
XvSolves ==
  \A z \in Reached(<<initXv, initS, initF>>, PostXv, Cycles) :
    \A y \in XvDriven(z) : prob.S[<<z[2], y>>].agrees

(* What the circuits to give are: circuits over u with the outputs v, the    *)
(* names of X.                                                               *)
DrivesV ==
  \A c \in Xvs : \A q \in XLatch : \A u \in U : \E v \in V : \E r \in XLatch :
    \A w \in V : \A n \in N : c[<<q, <<u, w, n>>>>] = [agrees |-> w = v, next |-> r]

(* The cycles a controller, or the given circuit, is followed for reach every*)
(* state it can be in beside S and F.                                        *)
EnoughCycles ==
  \A K \in {CState, XLatch} :
    LET states == K \X SLatch \X FLatch
    IN IsFiniteSet(states) /\ Cardinality(states) <= Cycles

(* Its outputs do not depend on what it reads now.                           *)
XvIsMoore ==
  \A c \in XLatch : \A v \in V :
    (\E y \in Sym : y[2] = v /\ xv[<<c, y>>].agrees) =>
      \A y \in Sym : xv[<<c, y>>].agrees <=> y[2] = v

(* When the provers decided, "X is a valid solution" is printed only if the  *)
(* given circuit itself keeps F within S, whichever checks came before.      *)
ValidSolves ==
  Valid /\ checks["VerifyX"].ans = 1 => XvSolves

(* No prover ever refutes that F under the solution stays within S, whether  *)
(* it was determinized or not.                                               *)
SolutionNotRefuted ==
  checks["VerifyFXS"].ret # 0

(* A given circuit that solves the problem and drives v by its latches is    *)
(* never called invalid, by any of the four provers.                         *)
SolvingNotRefuted ==
  vpc = "message" /\ ~ Valid /\ fUseCommand <= 3 => ~ (XvIsMoore /\ XvSolves)

(* A circuit found equivalent to the solution is never found outside of it.  *)
EquivalentContained ==
  checks["VerifyEqX"].ans = 1 =>
    \A c \in {"directVerifyX", "VerifyX"} : checks[c].ret # 0

(* "Check origin X is contain by solution X": the check passes only if it is.*)
PassedOnlyIfContained ==
  checks["VerifyX"].ret = 1 => NeverX
=============================================================================
