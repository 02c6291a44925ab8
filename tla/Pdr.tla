---------------------------------- MODULE Pdr ----------------------------------
(***************************************************************************)
(* The prover behind the checks of a solution (src/proof/pdr): property    *)
(* directed reachability.  It asks whether an output of a sequential       *)
(* circuit can ever be 1.  Frame k is the set of states no clause of level *)
(* k or above forbids, a superset of what k steps reach; proof obligations *)
(* are cubes of states from which the output can be reached, and blocking  *)
(* one adds a clause.  The proof is found when two frames are equal.       *)
(*                                                                         *)
(* Parameters are those of Pdr_ManSetDefaultParams, which leqVerify.cpp    *)
(* takes: one output, no limit but nFrameMax.  The SAT solver is what it   *)
(* answers; which model, which final conflict, which literals are dropped  *)
(* and in which order clauses are tried is left open.  Also open is when a *)
(* solver has used up its activation variables and is built anew           *)
(* (nRecycle): the queries of one step of a frame see one solver.          *)
(***************************************************************************)
EXTENDS Integers, Sequences

CONSTANTS
  Latch,
  latch0,    \* the latch of literal 0
  Input,     \* values of the inputs
  Nets,      \* the circuits to ask about
  Limits,    \* values of pPars->nFrameMax
  MaxFrame   \* bound on the limits

Bit == {0, 1}
State == [Latch -> Bit]
Frame == 0 .. MaxFrame

ASSUME LatchAssumption == latch0 \in Latch
ASSUME FrameAssumption == MaxFrame \in Nat /\ Limits \subseteq 1 .. MaxFrame
ASSUME NetAssumption == Nets \subseteq [next : [State \X Input -> State], bad : SUBSET (State \X Input)]

(* Registers start at 0: the conversion of the network inverts the others. *)
init == [l \in Latch |-> 0]

(* A literal is a latch with a value, a cube a set of literals; as a clause *)
(* it stands for the complement of its states.                              *)
Literal == Latch \X Bit
Cube == { c \in SUBSET Literal : \A l \in Latch : ~ ({<<l, 0>>, <<l, 1>>} \subseteq c) }
Holds(s, c) == \A l \in c : s[l[1]] = l[2]

(* Pdr_SetIsInit: no literal of the cube is positive.                      *)
SetIsInit(c) == \A l \in c : l[2] = 0

(* An obligation: all states of pState reach the bad output with the inputs *)
(* of path, the inputs kept with the cubes along pNext.                    *)
Obligation == [iFrame : Frame, pState : Cube, path : Seq(Input)]

VARIABLES
  net,      \* the circuit
  nFrameMax, \* the number of frames to give up at
  iFrame,   \* the last frame opened
  vClauses, \* the cubes blocked at each level
  vSolvers, \* the states the clauses in the solver of each frame leave
  propOut,  \* the frames whose solver has the output set to 0
  pQueue,   \* the obligations, in the order they are taken
  push,     \* Pdr_ManPushClauses: level, cubes still to try, value to return
  cex,      \* the inputs of a counterexample
  result,   \* the answer; 2: none yet
  pc        \* the loop the prover is in

vars == <<net, nFrameMax, iFrame, vClauses, vSolvers, propOut, pQueue, push, cex, result, pc>>

-----------------------------------------------------------------------------
(* Pdr_ManNewSolver: the solver of frame 0 starts with the initial state.  *)
NewSolver(k) == IF k = 0 THEN {init} ELSE State

Outside(c) == { s \in State : ~ Holds(s, c) }

(* The frame: what the clauses of level k and above leave.                 *)
InFrame(k) == { s \in NewSolver(k) : \A j \in k .. iFrame : \A c \in vClauses[j] : ~ Holds(s, c) }

(* The models of a query to the solver of frame k: a state and an input.   *)
Models(k) ==
  { x \in vSolvers[k] \X Input : k \in propOut => x \notin net.bad }

(* Pdr_ManCheckCube: the models of frame k that are outside of the cube and *)
(* go into it.                                                             *)
Into(k, c) == { x \in Models(k) : ~ Holds(x[1], c) /\ Holds(net.next[x], c) }

(* Pdr_ManCheckCubeCs: the cube itself is out of the frame.                *)
Excluded(k, c) == \A x \in Models(k) : ~ Holds(x[1], c)

(* Pdr_ManCheckContainment: a clause of this level or above has no literal *)
(* the cube lacks.                                                         *)
Contained(k, c) == \E j \in k .. iFrame : \E d \in vClauses[j] : d \subseteq c

(* Definitions that begin with "Mutant" are faulty variants of the one     *)
(* below; the specification does not use them.                             *)

(* Mutant: literals are dropped without asking the solver.                 *)
MutantGeneralized(k, c) == { d \in SUBSET c : ~ SetIsInit(d) }

(* Pdr_ManGeneralize: literals of the cube are dropped while it stays      *)
(* without the initial state and nothing of the frame goes into it.        *)
Generalized(k, c) == { d \in SUBSET c : ~ SetIsInit(d) /\ Into(k, d) = {} }

(* Pdr_ManReduceClause: the literals of the final conflict, with a positive *)
(* one added if there is none.                                             *)
Reduced(k, c) ==
  { d \in SUBSET c : /\ ~ SetIsInit(d)
                     /\ \A x \in Models(k) : ~ Holds(x[1], c) => ~ Holds(net.next[x], d) }

(* Mutant: literal 0 is given to every cube.                               *)
MutantWidened(x, Target) ==
  { c \cup {<<latch0, 1>>} :
      c \in { d \in Cube : Holds(x[1], d) /\ \A s \in State : Holds(s, d) => <<s, x[2]>> \in Target } }

(* Pdr_ManTernarySim: a cube around the model, all of whose states go to   *)
(* the target with the input of the model.  Pdr_ManDeriveResult gives an   *)
(* empty one literal 0.                                                    *)
Widened(x, Target) ==
  { IF c = {} THEN {<<latch0, 1>>} ELSE c :
      c \in { d \in Cube : Holds(x[1], d) /\ \A s \in State : Holds(s, d) => <<s, x[2]>> \in Target } }

GoingInto(c) == { x \in State \X Input : Holds(net.next[x], c) }

(* Pdr_QueuePush: before the first obligation of this frame or a later one, *)
(* as priorities only fall.                                                *)
Pushed(q, o) ==
  { SubSeq(q, 1, n) \o <<o>> \o SubSeq(q, n + 1, Len(q)) :
      n \in { m \in 0 .. Len(q) : /\ \A i \in 1 .. m : q[i].iFrame < o.iFrame
                                  /\ m < Len(q) => q[m + 1].iFrame >= o.iFrame } }

-----------------------------------------------------------------------------
Init ==
  /\ net \in Nets /\ nFrameMax \in Limits
  /\ iFrame = 0
  /\ vClauses = [k \in Frame |-> {}]
  /\ vSolvers = [k \in Frame |-> NewSolver(k)]
  /\ propOut = {}
  /\ pQueue = <<>>
  /\ push = [k |-> 0, todo |-> {}, ret |-> 0]
  /\ cex = <<>> /\ result = 2
  /\ pc = "check"

(* Mutant: the used-up solver is kept, and only the output set again.      *)
MutantFetchSolver(k) ==
  /\ pc \in {"block", "push"} /\ k < iFrame
  /\ propOut' = propOut \cup {k}
  /\ UNCHANGED <<net, nFrameMax, iFrame, vClauses, vSolvers, pQueue, push, cex, result, pc>>

(* Pdr_ManFetchSolver finds the solver of an earlier frame used up: it gets *)
(* the clauses of its level and above, and the output is set again.        *)
FetchSolver(k) ==
  /\ pc \in {"block", "push"} /\ k < iFrame
  /\ vSolvers' = [vSolvers EXCEPT ![k] = InFrame(k)]
  /\ propOut' = propOut \cup {k}
  /\ UNCHANGED <<net, nFrameMax, iFrame, vClauses, pQueue, push, cex, result, pc>>

(* Pdr_ManSolveInt: the output can be 1 in a state of the last frame.      *)
PropertyFails ==
  /\ pc = "check"
  /\ \E x \in Models(iFrame) \cap net.bad : \E c \in Widened(x, net.bad) :
       pQueue' \in Pushed(pQueue, [iFrame |-> iFrame, pState |-> c, path |-> <<x[2]>>])
  /\ pc' = "block"
  /\ UNCHANGED <<net, nFrameMax, iFrame, vClauses, vSolvers, propOut, push, cex, result>>

(* Mutant: a frame is opened after one cube, without asking again.         *)
MutantOpenFrame ==
  /\ pc = "check"
  /\ propOut' = propOut \cup {iFrame}
  /\ iFrame' = iFrame + 1
  /\ push' = [k |-> 1, todo |-> vClauses[1], ret |-> 0]
  /\ pc' = "push"
  /\ UNCHANGED <<net, nFrameMax, vClauses, vSolvers, pQueue, cex, result>>

(* Pdr_ManSolveInt: it cannot, and the next frame is opened.               *)
OpenFrame ==
  /\ pc = "check"
  /\ Models(iFrame) \cap net.bad = {}
  /\ propOut' = propOut \cup {iFrame}
  /\ iFrame' = iFrame + 1
  /\ push' = [k |-> 1, todo |-> vClauses[1], ret |-> 0]
  /\ pc' = "push"
  /\ UNCHANGED <<net, nFrameMax, vClauses, vSolvers, pQueue, cex, result>>

-----------------------------------------------------------------------------
(* Pdr_ManBlockCube: there is an obligation to take, above frame 0.        *)
Taken == pc = "block" /\ pQueue # <<>> /\ Head(pQueue).iFrame > 0

Finished ==
  /\ pc = "block" /\ pQueue = <<>>
  /\ pc' = "check"
  /\ UNCHANGED <<net, nFrameMax, iFrame, vClauses, vSolvers, propOut, pQueue, push, cex, result>>

(* Mutant: an obligation that reaches frame 1 is taken for the end.        *)
MutantDisprove ==
  /\ pc = "block" /\ pQueue # <<>> /\ Head(pQueue).iFrame <= 1
  /\ cex' = Head(pQueue).path
  /\ result' = 0
  /\ pc' = "done"
  /\ UNCHANGED <<net, nFrameMax, iFrame, vClauses, vSolvers, propOut, pQueue, push>>

(* An obligation in frame 0: Pdr_ManDeriveCex takes its inputs.            *)
Disprove ==
  /\ pc = "block" /\ pQueue # <<>> /\ Head(pQueue).iFrame = 0
  /\ cex' = Head(pQueue).path
  /\ result' = 0
  /\ pc' = "done"
  /\ UNCHANGED <<net, nFrameMax, iFrame, vClauses, vSolvers, propOut, pQueue, push>>

AlreadyBlocked(o) == Contained(o.iFrame, o.pState) \/ Excluded(o.iFrame, o.pState)

Drop ==
  /\ Taken
  /\ AlreadyBlocked(Head(pQueue))
  /\ pQueue' = Tail(pQueue)
  /\ UNCHANGED <<net, nFrameMax, iFrame, vClauses, vSolvers, propOut, push, cex, result, pc>>

(* The last frame, from f on, up to which nothing goes into the cube.      *)
LastFrame(f, c, k) ==
  /\ k \in f .. iFrame
  /\ \A j \in f .. k - 1 : Into(j, c) = {}
  /\ k < iFrame => Into(k, c) # {}

(* Mutant: the clause is also told to the solver of the next frame.        *)
MutantBlock ==
  /\ Taken
  /\ LET o == Head(pQueue)
     IN /\ ~ AlreadyBlocked(o)
        /\ Into(o.iFrame - 1, o.pState) = {}
        /\ \E c \in Generalized(o.iFrame - 1, o.pState) : \E k \in o.iFrame .. iFrame :
             /\ LastFrame(o.iFrame, c, k)
             /\ vClauses' = [vClauses EXCEPT ![k] = @ \cup {c}]
             /\ vSolvers' = [j \in Frame |-> IF j \in 1 .. k + 1 THEN vSolvers[j] \cap Outside(c) ELSE vSolvers[j]]
             /\ IF k < iFrame
                THEN pQueue' \in Pushed(Tail(pQueue), [o EXCEPT !.iFrame = k + 1])
                ELSE pQueue' = Tail(pQueue)
  /\ UNCHANGED <<net, nFrameMax, iFrame, propOut, push, cex, result, pc>>

(* Mutant: the cube comes back one frame late.                             *)
Mutant2Block ==
  /\ Taken
  /\ LET o == Head(pQueue)
     IN /\ ~ AlreadyBlocked(o)
        /\ Into(o.iFrame - 1, o.pState) = {}
        /\ \E c \in Generalized(o.iFrame - 1, o.pState) : \E k \in o.iFrame .. iFrame :
             /\ LastFrame(o.iFrame, c, k)
             /\ vClauses' = [vClauses EXCEPT ![k] = @ \cup {c}]
             /\ vSolvers' = [j \in Frame |-> IF j \in 1 .. k THEN vSolvers[j] \cap Outside(c) ELSE vSolvers[j]]
             /\ IF k < iFrame - 1
                THEN pQueue' \in Pushed(Tail(pQueue), [o EXCEPT !.iFrame = k + 2])
                ELSE pQueue' = Tail(pQueue)
  /\ UNCHANGED <<net, nFrameMax, iFrame, propOut, push, cex, result, pc>>

(* The cube is blocked, and tried again one frame above the last one that  *)
(* blocks it.                                                              *)
Block ==
  /\ Taken
  /\ LET o == Head(pQueue)
     IN /\ ~ AlreadyBlocked(o)
        /\ Into(o.iFrame - 1, o.pState) = {}
        /\ \E c \in Generalized(o.iFrame - 1, o.pState) : \E k \in o.iFrame .. iFrame :
             /\ LastFrame(o.iFrame, c, k)
             /\ vClauses' = [vClauses EXCEPT ![k] = @ \cup {c}]
             /\ vSolvers' = [j \in Frame |-> IF j \in 1 .. k THEN vSolvers[j] \cap Outside(c) ELSE vSolvers[j]]
             /\ IF k < iFrame
                THEN pQueue' \in Pushed(Tail(pQueue), [o EXCEPT !.iFrame = k + 1])
                ELSE pQueue' = Tail(pQueue)
  /\ UNCHANGED <<net, nFrameMax, iFrame, propOut, push, cex, result, pc>>

(* Mutant: the inputs are put together from the end.                       *)
MutantPredecessor ==
  /\ Taken
  /\ LET o == Head(pQueue)
     IN /\ ~ AlreadyBlocked(o)
        /\ \E x \in Into(o.iFrame - 1, o.pState) : \E c \in Widened(x, GoingInto(o.pState)) :
           \E q \in Pushed(Tail(pQueue), o) :
             pQueue' \in Pushed(q, [iFrame |-> o.iFrame - 1, pState |-> c, path |-> Append(o.path, x[2])])
  /\ UNCHANGED <<net, nFrameMax, iFrame, vClauses, vSolvers, propOut, push, cex, result, pc>>

(* A state of the frame below goes into the cube: it is to be blocked first.*)
Predecessor ==
  /\ Taken
  /\ LET o == Head(pQueue)
     IN /\ ~ AlreadyBlocked(o)
        /\ \E x \in Into(o.iFrame - 1, o.pState) : \E c \in Widened(x, GoingInto(o.pState)) :
           \E q \in Pushed(Tail(pQueue), o) :
             pQueue' \in Pushed(q, [iFrame |-> o.iFrame - 1, pState |-> c, path |-> <<x[2]>> \o o.path])
  /\ UNCHANGED <<net, nFrameMax, iFrame, vClauses, vSolvers, propOut, push, cex, result, pc>>

-----------------------------------------------------------------------------
(* Pdr_ManPushClauses, one cube of the level: those still to come that it  *)
(* subsumes are removed.                                                   *)
Pushing(c) == pc = "push" /\ push.k < iFrame /\ c \in push.todo
SubsumedBy(c, cubes) == { d \in cubes : c \subseteq d }

StayAt(c) ==
  /\ Pushing(c)
  /\ Into(push.k, c) # {}
  /\ LET gone == SubsumedBy(c, push.todo \ {c})
     IN /\ vClauses' = [vClauses EXCEPT ![push.k] = @ \ gone]
        /\ push' = [push EXCEPT !.todo = @ \ (gone \cup {c})]
  /\ UNCHANGED <<net, nFrameMax, iFrame, vSolvers, propOut, pQueue, cex, result, pc>>

(* It moves on, reduced, and the solver of the next frame alone is told.   *)
MoveUp(c) ==
  /\ Pushing(c)
  /\ Into(push.k, c) = {}
  /\ LET k == push.k
         gone == SubsumedBy(c, push.todo)
     IN \E d \in Reduced(k, c) :
          /\ vClauses' = [vClauses EXCEPT ![k] = @ \ gone,
                            ![k + 1] = (@ \ SubsumedBy(d, @)) \cup {d}]
          /\ vSolvers' = [vSolvers EXCEPT ![k + 1] = @ \cap Outside(d)]
          /\ push' = [push EXCEPT !.todo = @ \ gone]
  /\ UNCHANGED <<net, nFrameMax, iFrame, propOut, pQueue, cex, result, pc>>

(* Mutant: the level filled last is the one tested.                        *)
MutantLevelPushed ==
  /\ pc = "push" /\ push.k < iFrame /\ push.todo = {}
  /\ push' = [k |-> push.k + 1, todo |-> vClauses[push.k + 1],
              ret |-> IF vClauses[push.k + 1] = {} THEN 1 ELSE push.ret]
  /\ UNCHANGED <<net, nFrameMax, iFrame, vClauses, vSolvers, propOut, pQueue, cex, result, pc>>

LevelPushed ==
  /\ pc = "push" /\ push.k < iFrame /\ push.todo = {}
  /\ push' = [k |-> push.k + 1, todo |-> vClauses[push.k + 1],
              ret |-> IF vClauses[push.k] = {} THEN 1 ELSE push.ret]
  /\ UNCHANGED <<net, nFrameMax, iFrame, vClauses, vSolvers, propOut, pQueue, cex, result, pc>>

(* What cleaning up may leave of a level: what was removed is subsumed.    *)
CleanedUp(cubes) ==
  { kept \in SUBSET cubes : \A d \in cubes \ kept : \E c \in kept : c \subseteq d }

(* The last level is cleaned up.  An empty level below is the proof.       *)
AllPushed ==
  /\ pc = "push" /\ push.k = iFrame
  /\ \E kept \in CleanedUp(vClauses[iFrame]) : vClauses' = [vClauses EXCEPT ![iFrame] = kept]
  /\ result' = IF push.ret = 1 THEN 1 ELSE IF iFrame >= nFrameMax THEN -1 ELSE 2
  /\ pc' = IF result' = 2 THEN "check" ELSE "done"
  /\ UNCHANGED <<net, nFrameMax, iFrame, vSolvers, propOut, pQueue, push, cex>>

Next ==
  \/ \E k \in Frame : FetchSolver(k)
  \/ PropertyFails \/ OpenFrame
  \/ Finished \/ Disprove \/ Drop \/ Block \/ Predecessor
  \/ \E c \in Cube : StayAt(c) \/ MoveUp(c)
  \/ LevelPushed \/ AllPushed

Fairness == WF_vars(Next) /\ \A k \in Frame : SF_vars(FetchSolver(k))
Spec == Init /\ [][Next]_vars /\ Fairness

-----------------------------------------------------------------------------
(* The variables keep their types; iFrame stays within the limit           *)
(* (pdrCore.c:1368).                                                       *)
TypeOK ==
  /\ net \in Nets /\ nFrameMax \in Limits
  /\ iFrame \in 0 .. nFrameMax
  /\ vClauses \in [Frame -> SUBSET Cube]
  /\ vSolvers \in [Frame -> SUBSET State]
  /\ propOut \in SUBSET Frame
  /\ pQueue \in Seq(Obligation)
  /\ push \in [k : Frame, todo : SUBSET Cube, ret : {0, 1}]
  /\ cex \in Seq(Input)
  /\ result \in {-1, 0, 1, 2}
  /\ pc \in {"check", "block", "push", "done"}

(* Clauses dropped, reduced, moved up and cleaned away leave every frame   *)
(* with the initial state and with all states a step from the frame below  *)
(* ends in (pdrCore.c:149).                                                *)
FramesFollow ==
  /\ \A k \in 0 .. iFrame : init \in InFrame(k)
  /\ \A k \in 0 .. iFrame - 1 : \A x \in InFrame(k) \X Input : net.next[x] \in InFrame(k + 1)

(* The output stays 0 in the frames left behind, whatever becomes of their *)
(* clauses later (pdrCore.c:1282).                                         *)
ClosedFramesSafe == \A k \in 0 .. iFrame - 1 : (InFrame(k) \X Input) \cap net.bad = {}

(* A solver never excludes a state that the clauses of its frame leave,    *)
(* though clauses are reduced, removed as subsumed and told to some solvers*)
(* only (pdrCore.c:196, 993).                                              *)
SolversKeepFrames == \A k \in 0 .. iFrame : InFrame(k) \subseteq vSolvers[k]

(* Obligations that were blocked and came back, or wait while others are   *)
(* worked on, still stand for states that the frame below their own        *)
(* excludes (pdrCore.c:995-999).                                           *)
ObligationsBehind ==
  \A j \in DOMAIN pQueue :
    LET o == pQueue[j]
    IN o.iFrame > 0 => o.iFrame <= iFrame /\ InFrame(o.iFrame - 1) \subseteq Outside(o.pState)

(* An obligation above frame 0 that was just found is the next one taken,  *)
(* and it holds a state its solver still leaves, with the input found: what *)
(* is blocked for it is news to that solver.  An empty cube is given a     *)
(* literal the state need not satisfy (pdrTsim.c:301) and could be found   *)
(* again and again.                                                        *)
FoundInSolver ==
  [][Len(pQueue') > Len(pQueue) =>
       LET o == Head(pQueue')
       IN o.iFrame > 0 =>
            \E x \in Models(o.iFrame) : Holds(x[1], o.pState) /\ x[2] = Head(o.path)]_vars

(* The assertion at pdrCore.c:923: no obligation above frame 0 holds the   *)
(* initial state.                                                          *)
NoInitInQueue == \A j \in DOMAIN pQueue : pQueue[j].iFrame > 0 => ~ SetIsInit(pQueue[j].pState)

(* The output is never 1: a set of states shows it that holds the initial  *)
(* one, is closed under steps and has no bad step.                         *)
Shows(I, n) == /\ init \in I
               /\ \A x \in I \X Input : n.next[x] \in I /\ x \notin n.bad
NeverBad(n) == \E I \in SUBSET State : Shows(I, n)

(* Pdr_ManFindInvariantStart and Pdr_ManCollectCubes: the clauses above the *)
(* first empty level, or of the last one, are reported as the invariant.   *)
InvariantStart ==
  CHOOSE k \in 1 .. iFrame : /\ \A j \in 1 .. k - 1 : vClauses[j] # {}
                             /\ vClauses[k] = {} \/ k = iFrame
Reported == UNION { vClauses[j] : j \in InvariantStart .. iFrame }

(* Pdr_ManVerifyInvariant: the states the clauses leave stay among them.   *)
Verified ==
  LET inv == { s \in State : \A c \in Reported : ~ Holds(s, c) }
  IN \A x \in inv \X Input : net.next[x] \in inv

(* The verification of the reported invariant does not fail (pdrInv.c:531),*)
(* though its clauses come from different frames, were reduced on the way  *)
(* and what they were reduced with may be gone; with it the output is 0.   *)
InvariantVerified == result = 1 => Verified /\ NeverBad(net)

(* The states the circuit takes under the inputs of a path.                *)
Replayed(path) ==
  LET R[j \in 1 .. Len(path)] == IF j = 1 THEN init ELSE net.next[<<R[j - 1], path[j - 1]>>]
  IN R

(* Saig_ManVerifyCex never complains (pdrMan.c:432): the counterexample,   *)
(* put together from obligations of different times, starts in the initial *)
(* state and ends with the output at 1.                                    *)
CexRight ==
  result = 0 => cex # <<>> /\ <<Replayed(cex)[Len(cex)], cex[Len(cex)]>> \in net.bad

(* The prover is one of those the verification of a solution relies on:    *)
(* it answers once, 1 or 0 only if that is right (leqVerify.cpp:132).      *)
Asked == INSTANCE Prover WITH never <- NeverBad(net), answer <- result
ImplementsProver == Asked!Spec

(* An answer comes.  It needs the solvers to be built anew: a clause moved *)
(* up and reduced is not told to the solvers below (pdrCore.c:196), which  *)
(* find the same predecessor again and again, and each time it is dropped  *)
(* as blocked already (pdrCore.c:926).                                     *)
Termination == <>(pc = "done")
===============================================================================
