-------------------------------- MODULE PdrProofs --------------------------------
(***************************************************************************)
(* Proofs about Pdr.  A clause that is added is one no state of the frame  *)
(* below steps into, and what is removed is subsumed: frames only shrink   *)
(* and still follow each other.  Solvers are weaker than their frames, so  *)
(* what a solver refutes the frame does.                                   *)
(***************************************************************************)
EXTENDS Pdr, Recursion

-----------------------------------------------------------------------------
(* A cube without positive literals is one that holds the initial state.   *)
LEMMA InitCube == ASSUME NEW c \in Cube PROVE SetIsInit(c) <=> Holds(init, c)
BY DEF Cube, Literal, SetIsInit, Holds, init

(* The initial state is a state.                                           *)
LEMMA InitState == init \in State
BY DEF init, State, Bit

(* Fewer literals hold in more states.                                     *)
LEMMA Subsumes == ASSUME NEW c, NEW d, d \subseteq c, NEW s, Holds(s, c) PROVE Holds(s, d)
BY DEF Holds

(* A part of a cube is a cube.                                             *)
LEMMA SubCube == ASSUME NEW c \in Cube, NEW d \in SUBSET c PROVE d \in Cube
BY DEF Cube

(* Circuits are functions on states.                                       *)
LEMMA NetType ==
  ASSUME net \in Nets
  PROVE  net.next \in [State \X Input -> State] /\ net.bad \in SUBSET (State \X Input)
BY NetAssumption

(* Literal 0 alone is a cube.                                              *)
LEMMA Literal0 == {<<latch0, 1>>} \in Cube
BY LatchAssumption DEF Cube, Literal, Bit

(* Ternary simulation gives a cube whose states all go to the target.      *)
LEMMA WidenedRight ==
  ASSUME NEW x, NEW T, NEW c \in Widened(x, T)
  PROVE  c \in Cube /\ \A s \in State : Holds(s, c) => <<s, x[2]>> \in T
<1>1. PICK d \in Cube : /\ \A s \in State : Holds(s, d) => <<s, x[2]>> \in T
                        /\ c = IF d = {} THEN {<<latch0, 1>>} ELSE d
  BY DEF Widened
<1>2. CASE d = {}
  <2>1. \A s : Holds(s, d)
    BY <1>2 DEF Holds
  <2> QED BY <1>1, <1>2, <2>1, Literal0
<1>3. CASE d # {}
  BY <1>1, <1>3
<1> QED BY <1>2, <1>3

(* The queue holds what it held and the obligation pushed.                 *)
LEMMA PushedSeq ==
  ASSUME NEW S, NEW q \in Seq(S), NEW o \in S, NEW r \in Pushed(q, o)
  PROVE  r \in Seq(S)
<1>1. PICK n \in 0 .. Len(q) : r = SubSeq(q, 1, n) \o <<o>> \o SubSeq(q, n + 1, Len(q))
  BY DEF Pushed
<1>2. SubSeq(q, 1, n) \in Seq(S) /\ SubSeq(q, n + 1, Len(q)) \in Seq(S) /\ <<o>> \in Seq(S)
  OBVIOUS
<1> QED BY <1>1, <1>2

(* The first of a queue and the rest.                                      *)
LEMMA TakenSeq ==
  ASSUME NEW S, NEW q \in Seq(S), q # <<>>
  PROVE  Head(q) \in S /\ Tail(q) \in Seq(S)
OBVIOUS

-----------------------------------------------------------------------------
(* The invariant.  Levels above the last frame are empty, no clause forbids*)
(* the initial state, the last solver still lets the output be 1.          *)
LevelsOK ==
  /\ \A k \in Frame : k > iFrame => vClauses[k] = {} /\ vSolvers[k] = State
  /\ \A k \in Frame : \A c \in vClauses[k] : ~ SetIsInit(c)
  /\ propOut \subseteq 0 .. iFrame - 1
  /\ vSolvers[0] \subseteq {init}

(* Frames, as far as they are opened.                                      *)
FramesOK == FramesFollow /\ ClosedFramesSafe /\ SolversKeepFrames

(* An obligation holds no state of the frame below and none of a set that  *)
(* shows the output to be 0; in frame 0 there is no such set.              *)
Doomed(o) ==
  /\ o.iFrame \in 0 .. iFrame
  /\ o.iFrame > 0 => InFrame(o.iFrame - 1) \subseteq Outside(o.pState)
  /\ o.iFrame = 0 => ~ NeverBad(net)
  /\ \A I \in SUBSET State : Shows(I, net) => I \subseteq Outside(o.pState)

DoomedObligation == { o \in Obligation : Doomed(o) }

(* The first empty level, if the level pushed is behind it.                *)
FirstEmpty(k) ==
  /\ k \in 1 .. iFrame - 1
  /\ vClauses[k] = {}
  /\ \A j \in 1 .. k - 1 : vClauses[j] # {}

PushOK ==
  pc = "push" =>
    /\ push.k \in 1 .. iFrame
    /\ push.todo \subseteq vClauses[push.k]
    /\ push.ret = 0 => \A j \in 1 .. push.k - 1 : vClauses[j] # {}
    /\ push.ret = 1 => \E k \in 1 .. push.k - 1 : FirstEmpty(k)

LoopOK ==
  /\ pc = "check" => result = 2 /\ pQueue = <<>> /\ iFrame < nFrameMax
  /\ pc = "block" => result = 2 /\ iFrame < nFrameMax
  /\ pc = "push" => result = 2 /\ pQueue = <<>>
  /\ pc = "done" => result # 2

ResultOK ==
  /\ result = 0 => ~ NeverBad(net)
  /\ result = 1 => \E k \in Frame : FirstEmpty(k)

IInv ==
  /\ TypeOK /\ LevelsOK /\ FramesOK
  /\ pQueue \in Seq(DoomedObligation)
  /\ PushOK /\ LoopOK /\ ResultOK

-----------------------------------------------------------------------------
(* Steps that change clauses.  What is removed is subsumed at its level or *)
(* above, what is added is not reached from the frame below.               *)
Kept ==
  \A j \in 0 .. iFrame : \A c \in vClauses[j] :
    \E i \in j .. iFrame : \E e \in vClauses'[i] : e \subseteq c

Added ==
  \A j \in Frame : \A c \in vClauses'[j] \ vClauses[j] :
    /\ j \in 1 .. iFrame
    /\ ~ SetIsInit(c)
    /\ \A x \in InFrame(j - 1)' \X Input : ~ Holds(net.next[x], c)

(* What is removed is subsumed, so frames only shrink.                     *)
LEMMA Shrinks ==
  ASSUME TypeOK, UNCHANGED iFrame, Kept, NEW k \in 0 .. iFrame
  PROVE  InFrame(k)' \subseteq InFrame(k)
<1>0. iFrame \in Nat
  BY FrameAssumption DEF TypeOK
<1> SUFFICES ASSUME NEW s \in InFrame(k)' PROVE s \in InFrame(k)
  OBVIOUS
<1>1. s \in NewSolver(k) /\ \A j \in k .. iFrame : \A c \in vClauses'[j] : ~ Holds(s, c)
  BY DEF InFrame, NewSolver
<1>2. ASSUME NEW j \in k .. iFrame, NEW c \in vClauses[j], Holds(s, c)
      PROVE  FALSE
  <2>1. PICK i \in j .. iFrame : \E e \in vClauses'[i] : e \subseteq c
    BY <1>0 DEF Kept
  <2>2. PICK e \in vClauses'[i] : e \subseteq c
    BY <2>1
  <2>3. Holds(s, e)
    BY <1>2, <2>2, Subsumes
  <2> QED BY <1>1, <2>1, <2>3, <1>0
<1> QED BY <1>1, <1>2 DEF InFrame

(* Such a step shrinks frames, and they still follow each other.           *)
LEMMA FrameStep ==
  ASSUME TypeOK, vClauses' \in [Frame -> SUBSET Cube], LevelsOK, FramesOK,
         UNCHANGED <<net, iFrame>>, Kept, Added
  PROVE  /\ \A k \in 0 .. iFrame : InFrame(k)' \subseteq InFrame(k)
         /\ FramesFollow' /\ ClosedFramesSafe'
         /\ \A k \in Frame : \A c \in vClauses'[k] : ~ SetIsInit(c)
         /\ \A k \in Frame : k > iFrame => vClauses'[k] = {}
<1>0. iFrame \in Nat /\ 0 .. iFrame \subseteq Frame /\ net.next \in [State \X Input -> State]
  BY FrameAssumption, NetType DEF TypeOK, Frame
<1>1. \A k \in 0 .. iFrame : InFrame(k)' \subseteq InFrame(k)
  BY Shrinks
<1>2. ASSUME NEW k \in Frame, NEW c \in vClauses'[k]
      PROVE  ~ SetIsInit(c) /\ k <= iFrame
  BY <1>0 DEF LevelsOK, Added, Frame
<1>3. ASSUME NEW k \in 0 .. iFrame
      PROVE  init \in InFrame(k)'
  <2>1. \A j \in k .. iFrame : \A c \in vClauses'[j] : ~ Holds(init, c)
    BY <1>0, <1>2, InitCube
  <2> QED BY <2>1, InitState DEF InFrame, NewSolver
<1>4. ASSUME NEW k \in 0 .. iFrame, NEW j \in k .. iFrame
      PROVE  InFrame(k)' \subseteq InFrame(j)'
  <2>1. CASE k = 0
    <3>1. InFrame(k)' \subseteq {init}
      BY <2>1 DEF InFrame, NewSolver
    <3> QED BY <3>1, <1>3, <1>0
  <2>2. CASE k # 0
    BY <2>2, <1>0 DEF InFrame, NewSolver
  <2> QED BY <2>1, <2>2
<1>5. ASSUME NEW k \in 0 .. iFrame - 1, NEW x \in InFrame(k)' \X Input
      PROVE  net.next[x] \in InFrame(k + 1)'
  <2>1. x \in InFrame(k) \X Input
    BY <1>1, <1>0
  <2>2. net.next[x] \in InFrame(k + 1)
    BY <2>1 DEF FramesOK, FramesFollow
  <2>3. ASSUME NEW j \in k + 1 .. iFrame, NEW c \in vClauses'[j]
        PROVE  ~ Holds(net.next[x], c)
    <3>1. CASE c \in vClauses[j]
      BY <2>2, <3>1 DEF InFrame
    <3>2. CASE c \notin vClauses[j]
      <4>1. j \in Frame /\ k \in 0 .. iFrame /\ j - 1 \in k .. iFrame
        BY <1>0
      <4>2. x \in InFrame(j - 1)' \X Input
        BY <4>1, <1>4
      <4> QED BY <3>2, <4>1, <4>2 DEF Added
    <3> QED BY <3>1, <3>2
  <2>4. net.next[x] \in NewSolver(k + 1)
    BY <2>2 DEF InFrame
  <2> QED BY <2>3, <2>4 DEF InFrame, NewSolver
<1>6. FramesFollow'
  BY <1>3, <1>5 DEF FramesFollow
<1>7. ClosedFramesSafe'
  BY <1>0, <1>1 DEF FramesOK, ClosedFramesSafe
<1> QED BY <1>0, <1>1, <1>2, <1>6, <1>7 DEF Frame

(* A step that leaves the circuit, the levels and their number alone leaves*)
(* the frames and what obligations stand for.                              *)
LEMMA SameFrames ==
  ASSUME UNCHANGED <<net, iFrame, vClauses>>
  PROVE  /\ \A k : InFrame(k)' = InFrame(k)
         /\ FramesFollow' <=> FramesFollow
         /\ ClosedFramesSafe' <=> ClosedFramesSafe
         /\ DoomedObligation' = DoomedObligation
         /\ \A k : FirstEmpty(k)' <=> FirstEmpty(k)
         /\ NeverBad(net)' <=> NeverBad(net)
BY DEF InFrame, FramesFollow, ClosedFramesSafe, DoomedObligation, Doomed, FirstEmpty, NeverBad, Shows

(* When frames shrink, obligations stay what they are.                     *)
LEMMA StillDoomed ==
  ASSUME TypeOK, UNCHANGED <<net, iFrame>>,
         \A k \in 0 .. iFrame : InFrame(k)' \subseteq InFrame(k)
  PROVE  DoomedObligation \subseteq DoomedObligation'
<1>1. ASSUME NEW o \in Obligation, Doomed(o)
      PROVE  Doomed(o)'
  <2>1. iFrame \in Nat /\ o.iFrame \in Nat
    BY FrameAssumption DEF TypeOK, Obligation, Frame
  <2>2. o.iFrame > 0 => (InFrame(o.iFrame - 1) \subseteq Outside(o.pState))'
    BY <1>1, <2>1 DEF Doomed, Outside
  <2>3. NeverBad(net)' <=> NeverBad(net)
    BY DEF NeverBad, Shows
  <2> QED BY <1>1, <2>2, <2>3 DEF Doomed, Shows, Outside
<1> QED BY <1>1 DEF DoomedObligation

(* What the frame has, its solver has.                                     *)
LEMMA ModelsCover ==
  ASSUME TypeOK, FramesOK, NEW k \in 0 .. iFrame - 1
  PROVE  InFrame(k) \X Input \subseteq Models(k)
<1>1. iFrame \in Nat /\ k \in 0 .. iFrame
  BY FrameAssumption DEF TypeOK
<1>2. InFrame(k) \subseteq vSolvers[k] /\ (InFrame(k) \X Input) \cap net.bad = {}
  BY <1>1 DEF FramesOK, SolversKeepFrames, ClosedFramesSafe
<1> QED BY <1>2 DEF Models

-----------------------------------------------------------------------------
(* The invariant holds at the start.                                       *)
LEMMA Starts == Init => IInv
<1> SUFFICES ASSUME Init PROVE IInv
  OBVIOUS
<1> USE DEF Init
<1>1. iFrame = 0 /\ 0 \in Frame /\ nFrameMax \in 1 .. MaxFrame /\ {} \in SUBSET Cube
  BY FrameAssumption DEF Frame
<1>2. TypeOK
  BY <1>1, InitState DEF TypeOK, NewSolver
<1>3. LevelsOK
  BY <1>1 DEF LevelsOK, NewSolver, Frame
<1>4. init \in InFrame(0) /\ InFrame(0) \subseteq {init}
  BY <1>1 DEF InFrame, NewSolver
<1>5. FramesOK
  BY <1>1, <1>4 DEF FramesOK, FramesFollow, ClosedFramesSafe, SolversKeepFrames, NewSolver
<1>6. PushOK /\ LoopOK /\ ResultOK
  BY <1>1 DEF PushOK, LoopOK, ResultOK
<1> QED BY <1>2, <1>3, <1>5, <1>6 DEF IInv

(* FetchSolver: the solver built anew leaves just what the frame does.     *)
LEMMA FetchSolverOK == ASSUME IInv, NEW k \in Frame, FetchSolver(k) PROVE IInv'
<1> USE DEF FetchSolver, IInv
<1>1. iFrame \in Nat /\ k \in 0 .. iFrame /\ k \in 0 .. iFrame - 1
  BY FrameAssumption DEF TypeOK, Frame
<1>2. InFrame(k) \subseteq State /\ InFrame(0) \subseteq {init}
  BY InitState DEF InFrame, NewSolver
<1>3. TypeOK'
  BY <1>1, <1>2 DEF TypeOK
<1>4. LevelsOK'
  BY <1>1, <1>2 DEF LevelsOK, TypeOK
<1>5. SolversKeepFrames'
  BY SameFrames, <1>1 DEF SolversKeepFrames, FramesOK, TypeOK
<1>6. FramesOK' /\ pQueue' \in Seq(DoomedObligation')
  BY <1>5, SameFrames DEF FramesOK
<1>7. PushOK' /\ LoopOK' /\ ResultOK'
  BY SameFrames DEF PushOK, LoopOK, ResultOK
<1> QED BY <1>3, <1>4, <1>6, <1>7

(* PropertyFails: the frame below was closed without such a state.         *)
LEMMA PropertyFailsOK == ASSUME IInv, PropertyFails PROVE IInv'
<1> USE DEF PropertyFails, IInv
<1>0. iFrame \in Nat /\ iFrame \in Frame /\ pQueue = <<>>
  BY FrameAssumption DEF TypeOK, Frame, LoopOK
<1>1. PICK x \in Models(iFrame) \cap net.bad : \E c \in Widened(x, net.bad) :
        pQueue' \in Pushed(pQueue, [iFrame |-> iFrame, pState |-> c, path |-> <<x[2]>>])
  OBVIOUS
<1>2. PICK c \in Widened(x, net.bad) :
        pQueue' \in Pushed(pQueue, [iFrame |-> iFrame, pState |-> c, path |-> <<x[2]>>])
  BY <1>1
<1> DEFINE o == [iFrame |-> iFrame, pState |-> c, path |-> <<x[2]>>]
<1>3. /\ x \in State \X Input /\ x[1] \in vSolvers[iFrame]
      /\ c \in Cube /\ \A s \in State : Holds(s, c) => <<s, x[2]>> \in net.bad
  BY <1>0, WidenedRight DEF Models, TypeOK
<1>4. o \in Obligation
  BY <1>0, <1>3 DEF Obligation
<1>5. ASSUME NEW I \in SUBSET State, (I \X Input) \cap net.bad = {}
      PROVE  I \subseteq Outside(c)
  BY <1>3, <1>5 DEF Outside
<1>6. iFrame > 0 => InFrame(iFrame - 1) \subseteq Outside(c)
  <2>1. InFrame(iFrame - 1) \in SUBSET State
    BY InitState DEF InFrame, NewSolver
  <2> QED BY <1>0, <1>5, <2>1 DEF FramesOK, ClosedFramesSafe
<1>7. \A I \in SUBSET State : Shows(I, net) => I \subseteq Outside(c)
  BY <1>5 DEF Shows
<1>8. iFrame = 0 => ~ NeverBad(net)
  <2>1. iFrame = 0 => x[1] = init
    BY <1>3 DEF LevelsOK
  <2>2. x \in net.bad
    BY <1>1
  <2> QED BY <1>3, <2>1, <2>2 DEF NeverBad, Shows
<1>9. o \in DoomedObligation
  BY <1>0, <1>4, <1>6, <1>7, <1>8 DEF DoomedObligation, Doomed
<1>10. pQueue' \in Seq(DoomedObligation')
  BY <1>2, <1>9, PushedSeq, SameFrames
<1>11. pQueue' \in Seq(Obligation)
  BY <1>2, <1>4, PushedSeq DEF TypeOK
<1>12. TypeOK'
  BY <1>11 DEF TypeOK
<1>13. FramesOK' /\ LevelsOK'
  BY SameFrames DEF FramesOK, LevelsOK, SolversKeepFrames
<1>14. PushOK' /\ LoopOK' /\ ResultOK'
  BY SameFrames DEF PushOK, LoopOK, ResultOK
<1> QED BY <1>10, <1>12, <1>13, <1>14

(* OpenFrame: the new frame is empty, and the last one is closed safe.     *)
LEMMA OpenFrameOK == ASSUME IInv, OpenFrame PROVE IInv'
<1> USE DEF OpenFrame, IInv
<1>0. /\ iFrame \in Nat /\ iFrame + 1 \in Frame /\ iFrame \in Frame /\ 1 \in Frame
      /\ nFrameMax \in Nat /\ iFrame < nFrameMax /\ nFrameMax <= MaxFrame
      /\ pQueue = <<>> /\ result = 2
  BY FrameAssumption DEF TypeOK, Frame, LoopOK
<1>1. TypeOK'
  BY <1>0 DEF TypeOK, Frame
<1>2. LevelsOK'
  BY <1>0 DEF LevelsOK, Frame
<1>3. \A k \in 0 .. iFrame : InFrame(k)' = InFrame(k)
  BY <1>0 DEF InFrame, LevelsOK, NewSolver, Frame
<1>4. \A k : k = iFrame + 1 => InFrame(k)' = State
  BY <1>0 DEF InFrame, LevelsOK, NewSolver
<1>5. FramesFollow'
  <2>1. \A k \in 0 .. iFrame' : init \in InFrame(k)'
    BY <1>0, <1>3, <1>4, InitState DEF FramesOK, FramesFollow
  <2>2. ASSUME NEW k \in 0 .. iFrame' - 1, NEW x \in InFrame(k)' \X Input
        PROVE  net.next[x] \in InFrame(k + 1)'
    <3>1. CASE k < iFrame
      BY <1>0, <1>3, <2>2, <3>1 DEF FramesOK, FramesFollow
    <3>2. CASE k = iFrame
      <4>1. x \in State \X Input
        BY <2>2, InitState DEF InFrame, NewSolver
      <4> QED BY <1>0, <1>4, <3>2, <4>1, NetType DEF TypeOK
    <3> QED BY <1>0, <3>1, <3>2
  <2> QED BY <2>1, <2>2 DEF FramesFollow
<1>6. ClosedFramesSafe'
  <2>1. (InFrame(iFrame) \X Input) \cap net.bad = {}
    BY <1>0 DEF Models, LevelsOK, FramesOK, SolversKeepFrames
  <2> QED BY <1>0, <1>3, <2>1 DEF FramesOK, ClosedFramesSafe
<1>7. SolversKeepFrames'
  BY <1>0, <1>3, <1>4 DEF FramesOK, SolversKeepFrames, LevelsOK
<1>8. PushOK' /\ LoopOK' /\ ResultOK'
  BY <1>0 DEF PushOK, LoopOK, ResultOK
<1> QED BY <1>0, <1>1, <1>2, <1>5, <1>6, <1>7, <1>8 DEF FramesOK

(* Finished, Disprove and Drop leave the frames alone.                     *)
LEMMA TakenOK == ASSUME IInv, Finished \/ Disprove \/ Drop PROVE IInv'
<1> USE DEF IInv
<1>0. UNCHANGED <<net, nFrameMax, iFrame, vClauses, vSolvers, propOut, push>> /\ pc = "block"
  BY DEF Finished, Disprove, Drop, Taken
<1>1. FramesOK' /\ LevelsOK' /\ PushOK'
  <2>1. pc' # "push"
    BY <1>0 DEF Finished, Disprove, Drop
  <2> QED BY <1>0, <2>1, SameFrames DEF FramesOK, LevelsOK, SolversKeepFrames, PushOK
<1>2. CASE Finished
  BY <1>0, <1>1, <1>2, SameFrames DEF Finished, TypeOK, LoopOK, ResultOK
<1>3. CASE Disprove
  <2>1. Head(pQueue) \in DoomedObligation
    BY <1>3, TakenSeq DEF Disprove
  <2>2. Head(pQueue).path \in Seq(Input) /\ ~ NeverBad(net)
    BY <1>3, <2>1 DEF DoomedObligation, Doomed, Obligation, Disprove
  <2>3. TypeOK'
    BY <1>0, <1>3, <2>2 DEF TypeOK, Disprove
  <2>4. LoopOK' /\ ResultOK'
    BY <1>0, <1>3, <2>2, SameFrames DEF Disprove, LoopOK, ResultOK
  <2> QED BY <1>0, <1>1, <1>3, <2>3, <2>4, SameFrames DEF Disprove
<1>4. CASE Drop
  <2>1. pQueue' \in Seq(DoomedObligation) /\ pQueue' \in Seq(Obligation)
    BY <1>4, TakenSeq DEF Drop, Taken, TypeOK
  <2>2. TypeOK' /\ LoopOK' /\ ResultOK'
    BY <1>0, <1>4, <2>1, SameFrames DEF Drop, TypeOK, LoopOK, ResultOK
  <2> QED BY <1>0, <1>1, <2>1, <2>2, SameFrames
<1> QED BY <1>2, <1>3, <1>4

(* What is known of an obligation above frame 0.                           *)
LEMMA DoomedMeans ==
  ASSUME TypeOK, NEW o \in DoomedObligation, o.iFrame > 0
  PROVE  /\ iFrame \in Nat /\ iFrame <= MaxFrame /\ MaxFrame \in Nat
         /\ o.iFrame \in 1 .. iFrame /\ o.iFrame - 1 \in 0 .. iFrame - 1 /\ o.iFrame - 1 \in Frame
         /\ o.pState \in Cube /\ o.path \in Seq(Input)
         /\ InFrame(o.iFrame - 1) \subseteq Outside(o.pState)
         /\ \A I \in SUBSET State : Shows(I, net) => I \subseteq Outside(o.pState)
<1>1. o \in Obligation /\ Doomed(o)
  BY DEF DoomedObligation
<1>2. /\ o.iFrame \in Frame /\ o.pState \in Cube /\ o.path \in Seq(Input)
  BY <1>1 DEF Obligation
<1>3. /\ iFrame \in Nat /\ iFrame <= MaxFrame /\ MaxFrame \in Nat
  BY FrameAssumption DEF TypeOK
<1>4. o.iFrame \in 0 .. iFrame /\ InFrame(o.iFrame - 1) \subseteq Outside(o.pState)
  BY <1>1 DEF Doomed
<1>5. \A I \in SUBSET State : Shows(I, net) => I \subseteq Outside(o.pState)
  BY <1>1 DEF Doomed
<1> QED BY <1>2, <1>3, <1>4, <1>5 DEF Frame

(* Predecessor: a state of the frame below that steps into the cube would  *)
(* have been left by the cube's own frame.                                 *)
LEMMA PredecessorOK == ASSUME IInv, Predecessor PROVE IInv'
<1> USE DEF IInv
<1>o. PICK o : o = Head(pQueue)
  OBVIOUS
<1> DEFINE f == o.iFrame - 1
<1>0. /\ pc = "block" /\ pQueue # <<>> /\ o.iFrame > 0
      /\ o \in DoomedObligation /\ Tail(pQueue) \in Seq(DoomedObligation)
      /\ o \in Obligation /\ Tail(pQueue) \in Seq(Obligation)
      /\ UNCHANGED <<net, nFrameMax, iFrame, vClauses, vSolvers, propOut, push, cex, result, pc>>
  BY <1>o, TakenSeq DEF Predecessor, Taken, TypeOK
<1>1. PICK x \in Into(f, o.pState) : \E c \in Widened(x, GoingInto(o.pState)) :
        \E q \in Pushed(Tail(pQueue), o) :
          pQueue' \in Pushed(q, [iFrame |-> f, pState |-> c, path |-> <<x[2]>> \o o.path])
  BY <1>o DEF Predecessor
<1>2. PICK c \in Widened(x, GoingInto(o.pState)) : \E q \in Pushed(Tail(pQueue), o) :
        pQueue' \in Pushed(q, [iFrame |-> f, pState |-> c, path |-> <<x[2]>> \o o.path])
  BY <1>1
<1>3. PICK q \in Pushed(Tail(pQueue), o) :
        pQueue' \in Pushed(q, [iFrame |-> f, pState |-> c, path |-> <<x[2]>> \o o.path])
  BY <1>2
<1> DEFINE p == [iFrame |-> f, pState |-> c, path |-> <<x[2]>> \o o.path]
<1>4. /\ iFrame \in Nat /\ o.iFrame \in 1 .. iFrame /\ f \in 0 .. iFrame - 1 /\ f \in Frame
      /\ InFrame(f) \subseteq Outside(o.pState)
      /\ \A I \in SUBSET State : Shows(I, net) => I \subseteq Outside(o.pState)
  BY <1>0, DoomedMeans
<1>5. /\ x \in State \X Input /\ x[1] \in vSolvers[f] /\ Holds(net.next[x], o.pState)
      /\ c \in Cube /\ \A s \in State : Holds(s, c) => Holds(net.next[<<s, x[2]>>], o.pState)
  <2>1. c \in Cube /\ \A s \in State : Holds(s, c) => <<s, x[2]>> \in GoingInto(o.pState)
    BY WidenedRight
  <2> QED BY <1>4, <2>1 DEF Into, Models, TypeOK, GoingInto
<1>6. p \in Obligation
  <2>1. o.path \in Seq(Input) /\ <<x[2]>> \in Seq(Input)
    BY <1>0, <1>5 DEF Obligation
  <2>2. <<x[2]>> \o o.path \in Seq(Input)
    BY <2>1
  <2> QED BY <1>4, <1>5, <2>2 DEF Obligation
<1>7. ASSUME NEW I \in SUBSET State,
             \A y \in I \X Input : net.next[y] \in Outside(o.pState)
      PROVE  I \subseteq Outside(c)
  BY <1>5, <1>7 DEF Outside
<1>8. f > 0 => InFrame(f - 1) \subseteq Outside(c)
  <2>1. ASSUME f > 0 PROVE f - 1 \in 0 .. iFrame - 1 /\ (f - 1) + 1 = f
    BY <1>4, <2>1
  <2>2. InFrame(f - 1) \in SUBSET State
    BY InitState DEF InFrame, NewSolver
  <2>3. f > 0 => \A y \in InFrame(f - 1) \X Input : net.next[y] \in InFrame(f)
    BY <2>1 DEF FramesOK, FramesFollow
  <2> QED BY <1>4, <1>7, <2>2, <2>3
<1>9. \A I \in SUBSET State : Shows(I, net) => I \subseteq Outside(c)
  BY <1>4, <1>7 DEF Shows
<1>10. f = 0 => ~ NeverBad(net)
  <2>1. f = 0 => x[1] = init
    BY <1>5 DEF LevelsOK
  <2>2. \A I \in SUBSET State : Shows(I, net) => ~ (f = 0)
    <3>1. SUFFICES ASSUME NEW I \in SUBSET State, Shows(I, net), f = 0 PROVE FALSE
      OBVIOUS
    <3>2. x \in I \X Input
      BY <1>5, <2>1, <3>1 DEF Shows
    <3>3. net.next[x] \in Outside(o.pState)
      BY <1>4, <3>1, <3>2 DEF Shows
    <3> QED BY <1>5, <3>3 DEF Outside
  <2> QED BY <2>2 DEF NeverBad
<1>11. p \in DoomedObligation
  <2>1. p.iFrame = f /\ p.pState = c /\ f \in 0 .. iFrame
    BY <1>4
  <2>2. Doomed(p)
    BY <1>8, <1>9, <1>10, <2>1 DEF Doomed
  <2> QED BY <1>6, <2>2 DEF DoomedObligation
<1>12. pQueue' \in Seq(DoomedObligation')
  BY <1>0, <1>3, <1>11, PushedSeq, SameFrames
<1>13. pQueue' \in Seq(Obligation)
  BY <1>0, <1>3, <1>6, PushedSeq
<1>14. TypeOK'
  BY <1>0, <1>13 DEF TypeOK
<1>15. FramesOK' /\ LevelsOK'
  BY <1>0, SameFrames DEF FramesOK, LevelsOK, SolversKeepFrames
<1>16. PushOK' /\ LoopOK' /\ ResultOK'
  BY <1>0, SameFrames DEF PushOK, LoopOK, ResultOK
<1> QED BY <1>12, <1>14, <1>15, <1>16

(* Block: nothing of the frame below goes into the cube added, so the frame*)
(* below still steps into the frame it belongs to.                         *)
LEMMA BlockOK == ASSUME IInv, Block PROVE IInv'
<1> USE DEF IInv
<1>o. PICK o : o = Head(pQueue)
  OBVIOUS
<1> DEFINE f == o.iFrame
<1>0. /\ pc = "block" /\ pQueue # <<>> /\ f > 0
      /\ o \in DoomedObligation /\ Tail(pQueue) \in Seq(DoomedObligation)
      /\ o \in Obligation /\ Tail(pQueue) \in Seq(Obligation)
      /\ UNCHANGED <<net, nFrameMax, iFrame, propOut, push, cex, result, pc>>
  BY <1>o, TakenSeq DEF Block, Taken, TypeOK
<1>1. PICK c \in Generalized(f - 1, o.pState) : \E k \in f .. iFrame :
        /\ LastFrame(f, c, k)
        /\ vClauses' = [vClauses EXCEPT ![k] = @ \cup {c}]
        /\ vSolvers' = [j \in Frame |-> IF j \in 1 .. k THEN vSolvers[j] \cap Outside(c) ELSE vSolvers[j]]
        /\ IF k < iFrame
           THEN pQueue' \in Pushed(Tail(pQueue), [o EXCEPT !.iFrame = k + 1])
           ELSE pQueue' = Tail(pQueue)
  BY <1>o DEF Block
<1>2. PICK k \in f .. iFrame :
        /\ LastFrame(f, c, k)
        /\ vClauses' = [vClauses EXCEPT ![k] = @ \cup {c}]
        /\ vSolvers' = [j \in Frame |-> IF j \in 1 .. k THEN vSolvers[j] \cap Outside(c) ELSE vSolvers[j]]
        /\ IF k < iFrame
           THEN pQueue' \in Pushed(Tail(pQueue), [o EXCEPT !.iFrame = k + 1])
           ELSE pQueue' = Tail(pQueue)
  BY <1>1
<1> DEFINE p == [o EXCEPT !.iFrame = k + 1]
<1>3. /\ iFrame \in Nat /\ f \in 1 .. iFrame /\ k \in 1 .. iFrame /\ k \in Frame
      /\ k - 1 \in 0 .. iFrame - 1 /\ 0 .. iFrame \subseteq Frame /\ iFrame <= MaxFrame
      /\ MaxFrame \in Nat
      /\ \A I \in SUBSET State : Shows(I, net) => I \subseteq Outside(o.pState)
  BY <1>0, DoomedMeans DEF Frame
<1>4. /\ o.pState \in Cube /\ c \in Cube /\ c \subseteq o.pState
      /\ ~ SetIsInit(c) /\ Into(f - 1, c) = {}
  BY <1>0, SubCube DEF Generalized, Obligation
<1>5. Into(k - 1, c) = {}
  <2>1. k - 1 = f - 1 \/ k - 1 \in f .. k - 1
    BY <1>3
  <2> QED BY <1>2, <1>4, <2>1 DEF LastFrame
<1>6. vClauses' \in [Frame -> SUBSET Cube]
  BY <1>2, <1>3, <1>4 DEF TypeOK
<1>7. Kept
  <2>1. SUFFICES ASSUME NEW j \in 0 .. iFrame, NEW d \in vClauses[j]
                 PROVE  d \in vClauses'[j] /\ j \in j .. iFrame
    BY DEF Kept
  <2>2. j \in Frame /\ j \in j .. iFrame
    BY <1>3
  <2>3. vClauses'[j] = IF j = k THEN vClauses[k] \cup {c} ELSE vClauses[j]
    BY <1>2, <2>2 DEF TypeOK
  <2> QED BY <2>2, <2>3
<1>8. \A j \in 0 .. k : InFrame(j)' \subseteq Outside(c)
  BY <1>0, <1>2, <1>3, InitState DEF InFrame, Outside, NewSolver, TypeOK
<1>9. Added
  <2>1. ASSUME NEW x \in InFrame(k - 1)' \X Input
        PROVE  ~ Holds(net.next[x], c)
    <3>1. k - 1 \in 0 .. iFrame /\ k - 1 \in 0 .. k
      BY <1>3
    <3>2. ~ Holds(x[1], c)
      BY <1>8, <2>1, <3>1 DEF Outside
    <3>3. x \in InFrame(k - 1) \X Input
      BY <1>0, <1>7, <2>1, <3>1, Shrinks
    <3>4. x \in Models(k - 1)
      BY <1>3, <3>3, ModelsCover
    <3> QED BY <1>5, <3>2, <3>4 DEF Into
  <2>2. \A j \in Frame : \A d \in vClauses'[j] \ vClauses[j] : j = k /\ d = c
    BY <1>2, <1>3 DEF TypeOK
  <2> QED BY <1>3, <1>4, <2>1, <2>2 DEF Added
<1>10. /\ \A j \in 0 .. iFrame : InFrame(j)' \subseteq InFrame(j)
       /\ FramesFollow' /\ ClosedFramesSafe'
       /\ \A j \in Frame : \A d \in vClauses'[j] : ~ SetIsInit(d)
       /\ \A j \in Frame : j > iFrame => vClauses'[j] = {}
  BY <1>0, <1>6, <1>7, <1>9, FrameStep
<1>11. SolversKeepFrames'
  <2>1. \A j \in 0 .. iFrame : InFrame(j)' \subseteq vSolvers[j]
    BY <1>10 DEF FramesOK, SolversKeepFrames
  <2>2. \A j \in 0 .. iFrame : InFrame(j)' \subseteq vSolvers'[j]
    BY <1>2, <1>3, <1>8, <2>1
  <2> QED BY <1>0, <2>2 DEF SolversKeepFrames
<1>12. LevelsOK'
  <2>1. /\ \A j \in Frame : j > iFrame => vSolvers'[j] = State
        /\ vSolvers'[0] = vSolvers[0]
    BY <1>0, <1>2, <1>3 DEF LevelsOK, Frame
  <2>2. iFrame' = iFrame /\ propOut' = propOut
    BY <1>0, <1>2
  <2> QED BY <1>0, <1>10, <2>1, <2>2 DEF LevelsOK, Frame
<1>13. ASSUME k < iFrame
       PROVE  p \in Obligation /\ p \in DoomedObligation'
  <2>1. p \in Obligation /\ p.iFrame = k + 1 /\ p.pState = o.pState
    <3>1. k + 1 \in Frame
      BY <1>3, <1>13 DEF Frame
    <3> QED BY <1>0, <3>1 DEF Obligation
  <2>2. InFrame(k)' \subseteq Outside(o.pState)
    BY <1>3, <1>4, <1>8, Subsumes DEF Outside
  <2>3. Doomed(p)'
    BY <1>0, <1>3, <1>13, <2>1, <2>2 DEF Doomed, Shows, Outside
  <2> QED BY <2>1, <2>3 DEF DoomedObligation
<1>14. Tail(pQueue) \in Seq(DoomedObligation')
  BY <1>0, <1>10, StillDoomed
<1>15. pQueue' \in Seq(DoomedObligation') /\ pQueue' \in Seq(Obligation)
  BY <1>0, <1>2, <1>13, <1>14, PushedSeq
<1>16. vSolvers' \in [Frame -> SUBSET State]
  BY <1>2 DEF TypeOK
<1>17. TypeOK'
  BY <1>0, <1>6, <1>15, <1>16 DEF TypeOK
<1>18. PushOK' /\ LoopOK' /\ ResultOK'
  BY <1>0 DEF PushOK, LoopOK, ResultOK
<1> QED BY <1>10, <1>11, <1>12, <1>15, <1>17, <1>18 DEF FramesOK

(* StayAt: the cubes it subsumes are removed.                              *)
LEMMA StayAtOK == ASSUME IInv, NEW c \in Cube, StayAt(c) PROVE IInv'
<1> USE DEF IInv
<1>k. PICK K : K = push.k
  OBVIOUS
<1>g. PICK gone : gone = SubsumedBy(c, push.todo \ {c})
  OBVIOUS
<1>0. /\ pc = "push" /\ K < iFrame /\ c \in push.todo
      /\ vClauses' = [vClauses EXCEPT ![K] = @ \ gone]
      /\ push' = [push EXCEPT !.todo = @ \ (gone \cup {c})]
      /\ UNCHANGED <<net, nFrameMax, iFrame, vSolvers, propOut, pQueue, cex, result, pc>>
  BY <1>k, <1>g DEF StayAt, Pushing
<1>1. /\ iFrame \in Nat /\ K \in 1 .. iFrame /\ 0 .. iFrame \subseteq Frame
      /\ push.todo \subseteq vClauses[K] /\ pQueue = <<>> /\ result = 2
      /\ gone \subseteq push.todo /\ c \notin gone /\ \A d \in gone : c \subseteq d
  BY <1>k, <1>g, <1>0, FrameAssumption DEF TypeOK, PushOK, LoopOK, Frame, SubsumedBy
<1>2. /\ vClauses' \in [Frame -> SUBSET Cube]
      /\ \A j \in Frame : j # K => vClauses'[j] = vClauses[j]
      /\ vClauses'[K] = vClauses[K] \ gone
  BY <1>0, <1>1 DEF TypeOK
<1>3. Kept
  <2>1. SUFFICES ASSUME NEW j \in 0 .. iFrame, NEW d \in vClauses[j]
                 PROVE  \E e \in vClauses'[j] : e \subseteq d
    BY <1>1 DEF Kept
  <2>2. CASE j = K /\ d \in gone
    BY <1>0, <1>1, <1>2, <2>2
  <2>3. CASE ~ (j = K /\ d \in gone)
    BY <1>1, <1>2, <2>1, <2>3
  <2> QED BY <2>2, <2>3
<1>4. Added
  BY <1>2 DEF Added
<1>5. /\ \A j \in 0 .. iFrame : InFrame(j)' \subseteq InFrame(j)
      /\ FramesFollow' /\ ClosedFramesSafe'
      /\ \A j \in Frame : \A d \in vClauses'[j] : ~ SetIsInit(d)
      /\ \A j \in Frame : j > iFrame => vClauses'[j] = {}
  BY <1>0, <1>2, <1>3, <1>4, FrameStep
<1>6. FramesOK' /\ LevelsOK'
  BY <1>0, <1>5 DEF FramesOK, SolversKeepFrames, LevelsOK
<1>7. push' \in [k : Frame, todo : SUBSET Cube, ret : {0, 1}] /\ push'.k = K
      /\ push'.todo = push.todo \ (gone \cup {c}) /\ push'.ret = push.ret
  BY <1>0, <1>k DEF TypeOK
<1>8. TypeOK'
  BY <1>0, <1>2, <1>7 DEF TypeOK
<1>9. \A j \in 1 .. K - 1 : vClauses'[j] = vClauses[j]
  BY <1>1, <1>2
<1>10. PushOK'
  <2>1. \A k \in 1 .. K - 1 : FirstEmpty(k) => FirstEmpty(k)'
    BY <1>0, <1>1, <1>9 DEF FirstEmpty
  <2> QED BY <1>0, <1>1, <1>2, <1>7, <1>9, <1>k, <2>1 DEF PushOK
<1>11. LoopOK' /\ ResultOK'
  BY <1>0, <1>1 DEF LoopOK, ResultOK
<1> QED BY <1>0, <1>1, <1>6, <1>8, <1>10, <1>11

(* MoveUp: the reduced cube is not reached from its old level, where it is *)
(* still blocked.                                                          *)
LEMMA MoveUpOK == ASSUME IInv, NEW c \in Cube, MoveUp(c) PROVE IInv'
<1> USE DEF IInv
<1>k. PICK K : K = push.k
  OBVIOUS
<1>g. PICK gone : gone = SubsumedBy(c, push.todo)
  OBVIOUS
<1>d. PICK d \in Reduced(K, c) :
        /\ vClauses' = [vClauses EXCEPT ![K] = @ \ gone,
                          ![K + 1] = (@ \ SubsumedBy(d, @)) \cup {d}]
        /\ vSolvers' = [vSolvers EXCEPT ![K + 1] = @ \cap Outside(d)]
        /\ push' = [push EXCEPT !.todo = @ \ gone]
  BY <1>k, <1>g DEF MoveUp
<1>0. /\ pc = "push" /\ K < iFrame /\ c \in push.todo
      /\ UNCHANGED <<net, nFrameMax, iFrame, propOut, pQueue, cex, result, pc>>
  BY <1>k DEF MoveUp, Pushing
<1>1. /\ iFrame \in Nat /\ K \in 1 .. iFrame - 1 /\ 0 .. iFrame \subseteq Frame
      /\ K \in Frame /\ K + 1 \in Frame /\ K + 1 \in 1 .. iFrame /\ iFrame <= MaxFrame
      /\ push.todo \subseteq vClauses[K] /\ pQueue = <<>> /\ result = 2
      /\ gone \subseteq push.todo /\ \A e \in gone : c \subseteq e
  BY <1>k, <1>g, <1>0, FrameAssumption DEF TypeOK, PushOK, LoopOK, Frame, SubsumedBy
<1>2. /\ d \subseteq c /\ d \in Cube /\ ~ SetIsInit(d)
      /\ \A x \in Models(K) : ~ Holds(x[1], c) => ~ Holds(net.next[x], d)
  BY SubCube DEF Reduced
<1>3. /\ vClauses' \in [Frame -> SUBSET Cube]
      /\ \A j \in Frame : j # K /\ j # K + 1 => vClauses'[j] = vClauses[j]
      /\ vClauses'[K] = vClauses[K] \ gone
      /\ vClauses'[K + 1] = (vClauses[K + 1] \ SubsumedBy(d, vClauses[K + 1])) \cup {d}
  <2>1. K # K + 1
    BY <1>1
  <2>2. vClauses \in [Frame -> SUBSET Cube]
    BY DEF TypeOK
  <2>3. /\ vClauses[K] \ gone \in SUBSET Cube
        /\ (vClauses[K + 1] \ SubsumedBy(d, vClauses[K + 1])) \cup {d} \in SUBSET Cube
    BY <1>1, <1>2, <2>2
  <2> QED BY <1>d, <1>1, <2>1, <2>2, <2>3
<1>4. Kept
  <2>1. SUFFICES ASSUME NEW j \in 0 .. iFrame, NEW e \in vClauses[j]
                 PROVE  \E i \in j .. iFrame : \E h \in vClauses'[i] : h \subseteq e
    BY DEF Kept
  <2>2. CASE j = K /\ e \in gone
    <3>1. d \subseteq e /\ d \in vClauses'[K + 1] /\ K + 1 \in j .. iFrame
      BY <1>1, <1>2, <1>3, <2>2
    <3> QED BY <3>1
  <2>3. CASE j = K + 1 /\ e \in SubsumedBy(d, vClauses[K + 1])
    <3>1. d \subseteq e /\ d \in vClauses'[K + 1] /\ K + 1 \in j .. iFrame
      BY <1>1, <1>3, <2>3 DEF SubsumedBy
    <3> QED BY <3>1
  <2>4. CASE ~ (j = K /\ e \in gone) /\ ~ (j = K + 1 /\ e \in SubsumedBy(d, vClauses[K + 1]))
    <3>1. e \in vClauses'[j] /\ j \in j .. iFrame
      BY <1>1, <1>3, <2>1, <2>4
    <3> QED BY <3>1
  <2> QED BY <2>2, <2>3, <2>4
<1>5. \A j \in 0 .. K + 1 : InFrame(j)' \subseteq Outside(d)
  <2>1. SUFFICES ASSUME NEW j \in 0 .. K + 1, NEW s \in InFrame(j)' PROVE s \in Outside(d)
    OBVIOUS
  <2>2. K + 1 \in j .. iFrame' /\ d \in vClauses'[K + 1]
    BY <1>0, <1>1, <1>3
  <2>3. ~ Holds(s, d)
    BY <2>1, <2>2 DEF InFrame
  <2>4. s \in State
    BY <2>1, InitState DEF InFrame, NewSolver
  <2> QED BY <2>3, <2>4 DEF Outside
<1>6. Added
  <2>1. ASSUME NEW x \in InFrame(K)' \X Input
        PROVE  ~ Holds(net.next[x], d)
    <3>1. K \in 0 .. iFrame /\ K \in 0 .. K + 1 /\ K \in 0 .. iFrame - 1
      BY <1>1
    <3>2. ~ Holds(x[1], d)
      BY <1>5, <2>1, <3>1 DEF Outside
    <3>3. ~ Holds(x[1], c)
      BY <1>2, <3>2, Subsumes
    <3>4. x \in InFrame(K) \X Input
      BY <1>0, <1>4, <2>1, <3>1, Shrinks
    <3>5. x \in Models(K)
      BY <3>1, <3>4, ModelsCover
    <3> QED BY <1>2, <3>3, <3>5
  <2>2. \A j \in Frame : \A e \in vClauses'[j] \ vClauses[j] : j = K + 1 /\ e = d
    BY <1>3
  <2>3. \A x \in InFrame((K + 1) - 1)' \X Input : ~ Holds(net.next[x], d)
    <3>1. (K + 1) - 1 = K
      BY <1>1
    <3> QED BY <2>1, <3>1
  <2> QED BY <1>1, <1>2, <2>2, <2>3 DEF Added
<1>7. /\ \A j \in 0 .. iFrame : InFrame(j)' \subseteq InFrame(j)
      /\ FramesFollow' /\ ClosedFramesSafe'
      /\ \A j \in Frame : \A e \in vClauses'[j] : ~ SetIsInit(e)
      /\ \A j \in Frame : j > iFrame => vClauses'[j] = {}
  BY <1>0, <1>3, <1>4, <1>6, FrameStep
<1>8. /\ vSolvers' \in [Frame -> SUBSET State]
      /\ \A j \in Frame : j # K + 1 => vSolvers'[j] = vSolvers[j]
      /\ vSolvers'[K + 1] = vSolvers[K + 1] \cap Outside(d)
  BY <1>d, <1>1 DEF TypeOK
<1>9. SolversKeepFrames'
  <2>1. \A j \in 0 .. iFrame : InFrame(j)' \subseteq vSolvers[j]
    BY <1>7 DEF FramesOK, SolversKeepFrames
  <2>2. InFrame(K + 1)' \subseteq Outside(d) /\ K + 1 \in 0 .. iFrame
    BY <1>1, <1>5
  <2>3. \A j \in 0 .. iFrame : InFrame(j)' \subseteq vSolvers'[j]
    BY <1>1, <1>8, <2>1, <2>2
  <2> QED BY <1>0, <2>3 DEF SolversKeepFrames
<1>10. LevelsOK'
  BY <1>0, <1>1, <1>7, <1>8 DEF LevelsOK, Frame
<1>11. push' \in [k : Frame, todo : SUBSET Cube, ret : {0, 1}] /\ push'.k = K
       /\ push'.todo = push.todo \ gone /\ push'.ret = push.ret
  BY <1>d, <1>k DEF TypeOK
<1>12. TypeOK'
  BY <1>0, <1>3, <1>8, <1>11 DEF TypeOK
<1>13. \A j \in 1 .. K - 1 : vClauses'[j] = vClauses[j]
  BY <1>1, <1>3
<1>14. PushOK'
  <2>1. \A k \in 1 .. K - 1 : FirstEmpty(k) => FirstEmpty(k)'
    BY <1>0, <1>1, <1>13 DEF FirstEmpty
  <2> QED BY <1>0, <1>1, <1>3, <1>11, <1>13, <1>k, <2>1 DEF PushOK
<1>15. LoopOK' /\ ResultOK'
  BY <1>0, <1>1 DEF LoopOK, ResultOK
<1> QED BY <1>0, <1>1, <1>7, <1>9, <1>10, <1>12, <1>14, <1>15 DEF FramesOK

(* LevelPushed: the level is empty or it is not.                           *)
LEMMA LevelPushedOK == ASSUME IInv, LevelPushed PROVE IInv'
<1> USE DEF IInv
<1>0. /\ pc = "push" /\ push.k < iFrame
      /\ push' = [k |-> push.k + 1, todo |-> vClauses[push.k + 1],
                  ret |-> IF vClauses[push.k] = {} THEN 1 ELSE push.ret]
      /\ UNCHANGED <<net, nFrameMax, iFrame, vClauses, vSolvers, propOut, pQueue, cex, result, pc>>
  BY DEF LevelPushed
<1>1. /\ iFrame \in Nat /\ push.k \in 1 .. iFrame - 1 /\ push.k + 1 \in Frame
      /\ push.ret \in {0, 1}
  BY <1>0, FrameAssumption DEF TypeOK, PushOK, Frame
<1>2. TypeOK'
  BY <1>0, <1>1 DEF TypeOK
<1>3. FramesOK' /\ LevelsOK'
  BY <1>0, SameFrames DEF FramesOK, LevelsOK, SolversKeepFrames
<1>4. /\ push'.k = push.k + 1 /\ push'.todo = vClauses[push.k + 1]
      /\ push'.ret = IF vClauses[push.k] = {} THEN 1 ELSE push.ret
  BY <1>0
<1>5. push'.ret = 0 => \A j \in 1 .. push'.k - 1 : vClauses[j] # {}
  BY <1>0, <1>1, <1>4 DEF PushOK
<1>6. push'.ret = 1 => \E k \in 1 .. push'.k - 1 : FirstEmpty(k)
  <2>1. CASE push.ret = 1
    BY <1>0, <1>1, <1>4, <2>1 DEF PushOK
  <2>2. CASE push.ret = 0 /\ vClauses[push.k] = {}
    <3>1. FirstEmpty(push.k)
      BY <1>0, <1>1, <2>2 DEF PushOK, FirstEmpty
    <3> QED BY <1>1, <1>4, <3>1
  <2> QED BY <1>1, <1>4, <2>1, <2>2
<1>7. PushOK'
  <2>1. \A k : FirstEmpty(k)' <=> FirstEmpty(k)
    BY <1>0, SameFrames
  <2>2. push'.k \in 1 .. iFrame
    BY <1>1, <1>4
  <2>3. push'.todo \subseteq vClauses[push'.k]
    BY <1>4
  <2> QED BY <1>0, <1>5, <1>6, <2>1, <2>2, <2>3 DEF PushOK
<1>8. LoopOK' /\ ResultOK'
  BY <1>0, SameFrames DEF LoopOK, ResultOK
<1> QED BY <1>0, <1>2, <1>3, <1>7, <1>8, SameFrames

(* AllPushed: the answer 1 is given with an empty level below the last.    *)
LEMMA AllPushedOK == ASSUME IInv, AllPushed PROVE IInv'
<1> USE DEF IInv
<1>0. /\ pc = "push" /\ push.k = iFrame
      /\ result' = IF push.ret = 1 THEN 1 ELSE IF iFrame >= nFrameMax THEN -1 ELSE 2
      /\ pc' = IF result' = 2 THEN "check" ELSE "done"
      /\ UNCHANGED <<net, nFrameMax, iFrame, vSolvers, propOut, pQueue, push, cex>>
  BY DEF AllPushed
<1>1. PICK kept \in CleanedUp(vClauses[iFrame]) : vClauses' = [vClauses EXCEPT ![iFrame] = kept]
  BY DEF AllPushed
<1>2. /\ iFrame \in Nat /\ iFrame \in Frame /\ 0 .. iFrame \subseteq Frame /\ iFrame >= 1
      /\ nFrameMax \in Nat /\ pQueue = <<>> /\ push.ret \in {0, 1}
  BY <1>0, FrameAssumption DEF TypeOK, PushOK, LoopOK, Frame
<1>3. /\ kept \subseteq vClauses[iFrame]
      /\ \A e \in vClauses[iFrame] \ kept : \E h \in kept : h \subseteq e
  BY DEF CleanedUp
<1>4. /\ vClauses' \in [Frame -> SUBSET Cube]
      /\ \A j \in Frame : j # iFrame => vClauses'[j] = vClauses[j]
      /\ vClauses'[iFrame] = kept
  BY <1>1, <1>2, <1>3 DEF TypeOK
<1>5. Kept
  <2>1. SUFFICES ASSUME NEW j \in 0 .. iFrame, NEW e \in vClauses[j]
                 PROVE  \E h \in vClauses'[j] : h \subseteq e
    BY <1>2 DEF Kept
  <2> QED BY <1>2, <1>3, <1>4, <2>1
<1>6. Added
  BY <1>2, <1>3, <1>4 DEF Added
<1>7. /\ \A j \in 0 .. iFrame : InFrame(j)' \subseteq InFrame(j)
      /\ FramesFollow' /\ ClosedFramesSafe'
      /\ \A j \in Frame : \A e \in vClauses'[j] : ~ SetIsInit(e)
      /\ \A j \in Frame : j > iFrame => vClauses'[j] = {}
  BY <1>0, <1>4, <1>5, <1>6, FrameStep
<1>8. FramesOK' /\ LevelsOK'
  BY <1>0, <1>7 DEF FramesOK, SolversKeepFrames, LevelsOK
<1>9. TypeOK'
  BY <1>0, <1>4 DEF TypeOK
<1>10. push.ret = 1 => \E k \in Frame : FirstEmpty(k)'
  <2>1. \A k \in 1 .. iFrame - 1 : FirstEmpty(k) => FirstEmpty(k)'
    <3>1. \A j \in 1 .. iFrame - 1 : vClauses'[j] = vClauses[j]
      BY <1>2, <1>4
    <3> QED BY <1>0, <1>2, <3>1 DEF FirstEmpty
  <2> QED BY <1>0, <1>2, <2>1 DEF PushOK
<1>11. PushOK' /\ LoopOK'
  BY <1>0, <1>2 DEF PushOK, LoopOK, TypeOK
<1>12. ResultOK'
  BY <1>0, <1>10 DEF ResultOK
<1> QED BY <1>0, <1>2, <1>8, <1>9, <1>11, <1>12

-----------------------------------------------------------------------------
(* A step that changes nothing keeps the invariant.                        *)
LEMMA StutterOK == ASSUME IInv, UNCHANGED vars PROVE IInv'
<1> USE DEF IInv, vars
<1>1. TypeOK'
  BY DEF TypeOK
<1>2. FramesOK' /\ LevelsOK' /\ PushOK'
  BY SameFrames DEF FramesOK, LevelsOK, SolversKeepFrames, PushOK
<1>3. LoopOK' /\ ResultOK' /\ pQueue' \in Seq(DoomedObligation')
  BY SameFrames DEF LoopOK, ResultOK
<1> QED BY <1>1, <1>2, <1>3

(* Every step keeps the invariant.                                         *)
LEMMA StepOK == IInv /\ [Next]_vars => IInv'
<1> SUFFICES ASSUME IInv, [Next]_vars PROVE IInv'
  OBVIOUS
<1>1. CASE \E k \in Frame : FetchSolver(k)
  BY <1>1, FetchSolverOK
<1>2. CASE PropertyFails
  BY <1>2, PropertyFailsOK
<1>3. CASE OpenFrame
  BY <1>3, OpenFrameOK
<1>4. CASE Finished \/ Disprove \/ Drop
  BY <1>4, TakenOK
<1>5. CASE Block
  BY <1>5, BlockOK
<1>6. CASE Predecessor
  BY <1>6, PredecessorOK
<1>7. CASE \E c \in Cube : StayAt(c) \/ MoveUp(c)
  BY <1>7, StayAtOK, MoveUpOK
<1>8. CASE LevelPushed
  BY <1>8, LevelPushedOK
<1>9. CASE AllPushed
  BY <1>9, AllPushedOK
<1>10. CASE UNCHANGED vars
  BY <1>10, StutterOK
<1> QED BY <1>1, <1>2, <1>3, <1>4, <1>5, <1>6, <1>7, <1>8, <1>9, <1>10 DEF Next

(* The inductive invariant holds in every state the prover gets into.      *)
THEOREM Invariance == Spec => []IInv
<1>1. Init => IInv
  BY Starts
<1>2. IInv /\ [Next]_vars => IInv'
  BY StepOK
<1> QED BY <1>1, <1>2, PTL DEF Spec

(* The variables of the prover keep their types; the number of frames stays*)
(* within the limit (pdrCore.c:1368).                                      *)
THEOREM TypeCorrect == Spec => []TypeOK
<1>1. IInv => TypeOK
  BY DEF IInv
<1> QED BY <1>1, Invariance, PTL

(* Whatever is dropped, reduced, moved and cleaned away, each frame holds  *)
(* the initial state and what one step from the frame below leads to.      *)
THEOREM FramesOverapproximate == Spec => []FramesFollow
<1>1. IInv => FramesFollow
  BY DEF IInv, FramesOK
<1> QED BY <1>1, Invariance, PTL

(* In no frame left behind can the output be 1 (pdrCore.c:1282).           *)
THEOREM ClosedSafe == Spec => []ClosedFramesSafe
<1>1. IInv => ClosedFramesSafe
  BY DEF IInv, FramesOK
<1> QED BY <1>1, Invariance, PTL

(* The solver of a frame never forbids a state its clauses leave, also when*)
(* it was told of clauses that are since gone (pdrCore.c:196, 993).        *)
THEOREM SolversWeaker == Spec => []SolversKeepFrames
<1>1. IInv => SolversKeepFrames
  BY DEF IInv, FramesOK
<1> QED BY <1>1, Invariance, PTL

(* Obligations in the queue, also those that came back, hold no state of   *)
(* the frame below theirs (pdrCore.c:995-999).                             *)
THEOREM ObligationsStayBehind == Spec => []ObligationsBehind
<1>1. IInv => ObligationsBehind
  <2>1. SUFFICES ASSUME IInv, NEW j \in DOMAIN pQueue, pQueue[j].iFrame > 0
                 PROVE  /\ pQueue[j].iFrame <= iFrame
                        /\ InFrame(pQueue[j].iFrame - 1) \subseteq Outside(pQueue[j].pState)
    BY DEF ObligationsBehind
  <2>2. pQueue[j] \in DoomedObligation /\ TypeOK
    <3>1. pQueue \in Seq(DoomedObligation) /\ TypeOK
      BY <2>1 DEF IInv
    <3> QED BY <2>1, <3>1
  <2> QED BY <2>1, <2>2, DoomedMeans
<1> QED BY <1>1, Invariance, PTL

(* The assertion that no obligation above frame 0 holds the initial state  *)
(* (pdrCore.c:923) never fails.                                            *)
THEOREM AssertionHolds == Spec => []NoInitInQueue
<1>1. IInv => NoInitInQueue
  <2>1. SUFFICES ASSUME IInv, NEW j \in DOMAIN pQueue, pQueue[j].iFrame > 0
                 PROVE  ~ SetIsInit(pQueue[j].pState)
    BY DEF NoInitInQueue
  <2>2. pQueue[j] \in DoomedObligation /\ TypeOK
    <3>1. pQueue \in Seq(DoomedObligation) /\ TypeOK
      BY <2>1 DEF IInv
    <3> QED BY <2>1, <3>1
  <2>3. /\ pQueue[j].iFrame - 1 \in 0 .. iFrame - 1 /\ iFrame \in Nat
        /\ InFrame(pQueue[j].iFrame - 1) \subseteq Outside(pQueue[j].pState)
        /\ pQueue[j].pState \in Cube
    BY <2>1, <2>2, DoomedMeans
  <2>4. init \in InFrame(pQueue[j].iFrame - 1)
    BY <2>1, <2>3 DEF IInv, FramesOK, FramesFollow
  <2>5. ~ Holds(init, pQueue[j].pState)
    BY <2>3, <2>4 DEF Outside
  <2> QED BY <2>3, <2>5, InitCube
<1> QED BY <1>1, Invariance, PTL

(* With an empty level the frame there is an inductive set.                *)
LEMMA ProofFound == IInv => InvariantVerified
<1> SUFFICES ASSUME IInv, result = 1 PROVE Verified /\ NeverBad(net)
  BY DEF InvariantVerified
<1>0. iFrame \in Nat /\ TypeOK /\ FramesOK
  BY FrameAssumption DEF IInv, TypeOK
<1>1. PICK k \in 1 .. iFrame - 1 : vClauses[k] = {} /\ \A j \in 1 .. k - 1 : vClauses[j] # {}
  BY DEF IInv, ResultOK, FirstEmpty
<1>2. PICK m : m = InvariantStart
  OBVIOUS
<1>3. /\ m \in 1 .. iFrame /\ \A j \in 1 .. m - 1 : vClauses[j] # {}
      /\ vClauses[m] = {} \/ m = iFrame
  <2>1. k \in 1 .. iFrame
    BY <1>0, <1>1
  <2> QED BY <1>1, <1>2, <2>1 DEF InvariantStart
<1>4. m \in 1 .. iFrame - 1 /\ vClauses[m] = {}
  <2>1. m = iFrame => k \in 1 .. m - 1
    BY <1>0, <1>1
  <2>2. m # iFrame
    BY <1>1, <1>3, <2>1
  <2> QED BY <1>0, <1>3, <2>2
<1>5. InFrame(m) = InFrame(m + 1)
  <2>1. \A j \in m .. iFrame : j = m \/ j \in m + 1 .. iFrame
    BY <1>0, <1>4
  <2>2. \A j \in m + 1 .. iFrame : j \in m .. iFrame
    BY <1>0, <1>4
  <2>3. NewSolver(m) = State /\ NewSolver(m + 1) = State
    BY <1>4 DEF NewSolver
  <2> QED BY <1>4, <2>1, <2>2, <2>3 DEF InFrame
<1>6. InFrame(m) = { s \in State : \A c \in Reported : ~ Holds(s, c) }
  BY <1>2, <1>4 DEF InFrame, NewSolver, Reported
<1>7. \A x \in InFrame(m) \X Input : net.next[x] \in InFrame(m)
  BY <1>0, <1>4, <1>5 DEF FramesOK, FramesFollow
<1>8. Verified
  BY <1>6, <1>7 DEF Verified
<1>9. Shows(InFrame(m), net)
  <2>1. init \in InFrame(m)
    BY <1>0, <1>4 DEF FramesOK, FramesFollow
  <2>2. (InFrame(m) \X Input) \cap net.bad = {}
    BY <1>0, <1>4 DEF FramesOK, ClosedFramesSafe
  <2> QED BY <1>7, <2>1, <2>2 DEF Shows
<1>10. InFrame(m) \in SUBSET State
  BY InitState DEF InFrame, NewSolver
<1> QED BY <1>8, <1>9, <1>10 DEF NeverBad

(* When the prover answers 1, the invariant it reports is closed under the *)
(* steps of the circuit (pdrInv.c:531), and the output is 0 in every cycle.*)
THEOREM ReportedInvariantVerified == Spec => []InvariantVerified
BY ProofFound, Invariance, PTL

(* The prover is one that the verification of a solution may rely on: it   *)
(* answers once, 1 only if the output is never 1, 0 only if it can be      *)
(* (leqVerify.cpp:132).                                                    *)
THEOREM PdrImplementsProver == Spec => ImplementsProver
<1>1. Init => Asked!Init
  BY DEF Init, Asked!Init, Asked!Unanswered, NeverBad
<1>2. ASSUME IInv, IInv', [Next]_vars
      PROVE  [Asked!Reply]_<<NeverBad(net), result>>
  <2>1. net' = net /\ (NeverBad(net)' = NeverBad(net))
    <3>1. net' = net
      BY <1>2 DEF Next, vars, FetchSolver, PropertyFails, OpenFrame, Finished, Disprove, Drop,
                  Block, Predecessor, StayAt, MoveUp, LevelPushed, AllPushed
    <3> QED BY <3>1 DEF NeverBad, Shows
  <2>2. result' = result \/ (result = 2 /\ result' \in {-1, 0, 1})
    <3>1. CASE Disprove
      BY <1>2, <3>1 DEF Disprove, IInv, LoopOK
    <3>2. CASE AllPushed
      BY <1>2, <3>2 DEF AllPushed, IInv, LoopOK
    <3>3. CASE ~ Disprove /\ ~ AllPushed
      BY <1>2, <3>3 DEF Next, vars, FetchSolver, PropertyFails, OpenFrame, Finished, Drop,
                  Block, Predecessor, StayAt, MoveUp, LevelPushed
    <3> QED BY <3>1, <3>2, <3>3
  <2>3. result' = 0 => ~ NeverBad(net)
    BY <1>2, <2>1 DEF IInv, ResultOK
  <2>4. result' = 1 => NeverBad(net)
    <3>1. InvariantVerified'
      <4>1. (IInv => InvariantVerified)'
        BY ProofFound, PTL
      <4> QED BY <1>2, <4>1
    <3> QED BY <2>1, <3>1 DEF InvariantVerified
  <2> QED BY <2>1, <2>2, <2>3, <2>4 DEF Asked!Reply, Asked!Unanswered, Asked!Answers
<1> QED BY <1>1, <1>2, Invariance, PTL DEF Spec, ImplementsProver, Asked!Spec

-----------------------------------------------------------------------------
(* From the state s the inputs of the path end with the output at 1, by the  *)
(* states w.                                                                 *)
Walk(s, path, w) ==
  /\ w \in [1 .. Len(path) -> State]
  /\ w[1] = s
  /\ \A j \in 2 .. Len(path) : w[j] = net.next[<<w[j - 1], path[j - 1]>>]
  /\ <<w[Len(path)], path[Len(path)]>> \in net.bad
EndsBad(s, path) == path # <<>> /\ \E w : Walk(s, path, w)

LEMMA BadNow ==
  ASSUME NEW s \in State, NEW i \in Input, <<s, i>> \in net.bad
  PROVE  EndsBad(s, <<i>>)
<1> DEFINE w == [j \in 1 .. 1 |-> s]
<1>1. Walk(s, <<i>>, w)
  BY DEF Walk
<1> QED BY <1>1 DEF EndsBad

LEMMA BadBefore ==
  ASSUME net \in Nets, NEW s \in State, NEW i \in Input, NEW path \in Seq(Input),
         EndsBad(net.next[<<s, i>>], path)
  PROVE  EndsBad(s, <<i>> \o path)
<1>1. PICK v : Walk(net.next[<<s, i>>], path, v)
  BY DEF EndsBad
<1> DEFINE long == <<i>> \o path
           n == Len(path)
           w == [j \in 1 .. n + 1 |-> IF j = 1 THEN s ELSE v[j - 1]]
<1>2. /\ n \in Nat \ {0} /\ Len(long) = n + 1 /\ long # <<>>
      /\ long[1] = i /\ \A j \in 1 .. n : long[j + 1] = path[j]
  <2>1. path # <<>>
    BY DEF EndsBad
  <2> QED BY <2>1
<1>3. /\ v \in [1 .. n -> State] /\ v[1] = net.next[<<s, i>>]
      /\ \A j \in 2 .. n : v[j] = net.next[<<v[j - 1], path[j - 1]>>]
      /\ <<v[n], path[n]>> \in net.bad
  BY <1>1 DEF Walk
<1> HIDE DEF long, n
<1>4. w \in [1 .. n + 1 -> State]
  BY <1>2, <1>3
<1>5. w[1] = s
  BY <1>2
<1>6. ASSUME NEW j \in 2 .. n + 1 PROVE w[j] = net.next[<<w[j - 1], long[j - 1]>>]
  <2>1. w[j] = v[j - 1] /\ j - 1 \in 1 .. n
    BY <1>2
  <2>2. CASE j = 2
    <3>1. j - 1 = 1
      BY <2>2
    <3>2. w[j - 1] = s /\ long[j - 1] = i /\ w[j] = net.next[<<s, i>>]
      BY <1>2, <1>3, <1>5, <2>1, <3>1
    <3> QED BY <3>2
  <2>3. CASE j # 2
    <3>1. j - 1 \in 2 .. n /\ (j - 1) - 1 \in 1 .. n /\ ((j - 1) - 1) + 1 = j - 1
      BY <1>2, <2>3
    <3>2. w[j - 1] = v[(j - 1) - 1] /\ long[j - 1] = path[(j - 1) - 1]
      BY <1>2, <3>1
    <3> QED BY <1>3, <2>1, <3>1, <3>2
  <2> QED BY <2>2, <2>3
<1>7. <<w[n + 1], long[n + 1]>> \in net.bad
  <2>1. w[n + 1] = v[n] /\ long[n + 1] = path[n]
    BY <1>2
  <2> QED BY <1>3, <2>1
<1> HIDE DEF w
<1>8. Walk(s, long, w)
  BY <1>2, <1>4, <1>5, <1>6, <1>7 DEF Walk
<1> QED BY <1>2, <1>8 DEF EndsBad, long

(* The states the circuit takes from the initial one are those of the walk.  *)
LEMMA BadReplayed ==
  ASSUME NEW path \in Seq(Input), EndsBad(init, path)
  PROVE  path # <<>> /\ <<Replayed(path)[Len(path)], path[Len(path)]>> \in net.bad
<1> DEFINE n == Len(path)
           Body(R) == [j \in 1 .. n |-> IF j = 1 THEN init ELSE net.next[<<R[j - 1], path[j - 1]>>]]
           R0 == CHOOSE R : R = Body(R)
<1>1. PICK w : Walk(init, path, w)
  BY DEF EndsBad
<1>2. n \in Nat \ {0} /\ path # <<>>
  BY DEF EndsBad
<1>3. /\ w \in [1 .. n -> State] /\ w[1] = init
      /\ \A j \in 2 .. n : w[j] = net.next[<<w[j - 1], path[j - 1]>>]
      /\ <<w[n], path[n]>> \in net.bad
  BY <1>1 DEF Walk
<1> HIDE DEF n
<1>4. w = Body(w)
  <2>1. \A j \in 1 .. n : w[j] = IF j = 1 THEN init ELSE net.next[<<w[j - 1], path[j - 1]>>]
    BY <1>2, <1>3
  <2> QED BY <1>3, <2>1
<1>5. R0 = Body(R0)
  BY <1>4
<1>6. Replayed(path) = R0
  BY DEF Replayed, n
<1> HIDE DEF R0
<1> DEFINE S == { i \in Nat : R0[i + 1] = w[i + 1] }
<1>7. 0 .. n - 1 \subseteq S
  <2>1. 0 \in S
    BY <1>2, <1>3, <1>5
  <2>2. ASSUME NEW i \in 0 .. (n - 1) - 1, i \in S PROVE i + 1 \in S
    <3>1. i + 2 \in 2 .. n /\ i + 2 \in 1 .. n /\ i + 2 # 1 /\ (i + 2) - 1 = i + 1
          /\ (i + 1) + 1 = i + 2 /\ i + 1 \in Nat
      BY <1>2
    <3>2. R0[i + 2] = net.next[<<R0[(i + 2) - 1], path[(i + 2) - 1]>>]
      BY <1>5, <3>1
    <3>3. w[i + 2] = net.next[<<w[(i + 2) - 1], path[(i + 2) - 1]>>]
      BY <1>3, <3>1
    <3>4. R0[i + 1] = w[i + 1]
      BY <2>2
    <3> QED BY <3>1, <3>2, <3>3, <3>4
  <2>3. n - 1 \in Nat
    BY <1>2
  <2> HIDE DEF S
  <2> QED BY <2>1, <2>2, <2>3, SetInductionUpTo
<1>8. R0[n] = w[n]
  <2>1. n - 1 \in 0 .. n - 1 /\ (n - 1) + 1 = n
    BY <1>2
  <2> QED BY <1>7, <2>1
<1> QED BY <1>2, <1>3, <1>6, <1>8 DEF n

(* From every state of an obligation its inputs end with the output at 1; in *)
(* frame 0 from the initial state, whatever became of the cube.              *)
Leading(o) ==
  /\ \A s \in State : Holds(s, o.pState) => EndsBad(s, o.path)
  /\ o.iFrame = 0 => EndsBad(init, o.path)
LeadingObligation == { o \in Obligation : Leading(o) }

CexInv ==
  /\ pQueue \in Seq(LeadingObligation)
  /\ result = 0 => cex \in Seq(Input) /\ EndsBad(init, cex)

LEMMA SameLeading ==
  ASSUME net' = net
  PROVE  LeadingObligation' = LeadingObligation /\ EndsBad(init, cex)' = EndsBad(init, cex')
BY DEF LeadingObligation, Leading, EndsBad, Walk

LEMMA PropertyFailsLeads == ASSUME IInv, CexInv, PropertyFails PROVE CexInv'
<1> USE DEF PropertyFails, IInv, CexInv
<1>0. iFrame \in Frame
  BY FrameAssumption DEF TypeOK, Frame
<1>1. PICK x \in Models(iFrame) \cap net.bad : \E c \in Widened(x, net.bad) :
        pQueue' \in Pushed(pQueue, [iFrame |-> iFrame, pState |-> c, path |-> <<x[2]>>])
  OBVIOUS
<1>2. PICK c \in Widened(x, net.bad) :
        pQueue' \in Pushed(pQueue, [iFrame |-> iFrame, pState |-> c, path |-> <<x[2]>>])
  BY <1>1
<1> DEFINE o == [iFrame |-> iFrame, pState |-> c, path |-> <<x[2]>>]
<1>3. /\ x \in State \X Input /\ x[1] \in vSolvers[iFrame] /\ x \in net.bad
      /\ c \in Cube /\ \A s \in State : Holds(s, c) => <<s, x[2]>> \in net.bad
  BY <1>0, <1>1, WidenedRight DEF Models, TypeOK
<1>4. o \in Obligation
  BY <1>0, <1>3 DEF Obligation
<1>5. \A s \in State : Holds(s, c) => EndsBad(s, <<x[2]>>)
  BY <1>3, BadNow
<1>6. iFrame = 0 => EndsBad(init, <<x[2]>>)
  <2> SUFFICES ASSUME iFrame = 0 PROVE EndsBad(init, <<x[2]>>)
    OBVIOUS
  <2>1. x[1] = init
    BY <1>3 DEF LevelsOK
  <2>2. x = <<init, x[2]>> /\ x[2] \in Input
    BY <1>3, <2>1
  <2>3. <<init, x[2]>> \in net.bad
    BY <1>3, <2>2
  <2> QED BY <2>2, <2>3, InitState, BadNow
<1>7. o \in LeadingObligation
  BY <1>4, <1>5, <1>6 DEF LeadingObligation, Leading
<1>8. pQueue' \in Seq(LeadingObligation)
  BY <1>2, <1>7, PushedSeq
<1> QED BY <1>8, SameLeading DEF LoopOK

LEMMA PredecessorLeads == ASSUME IInv, CexInv, Predecessor PROVE CexInv'
<1> USE DEF IInv, CexInv
<1>o. PICK o : o = Head(pQueue)
  OBVIOUS
<1> DEFINE f == o.iFrame - 1
<1>0. /\ pc = "block" /\ pQueue # <<>> /\ o.iFrame > 0
      /\ o \in DoomedObligation /\ o \in Obligation
      /\ o \in LeadingObligation /\ Tail(pQueue) \in Seq(LeadingObligation)
      /\ net' = net /\ cex' = cex /\ result' = result
  BY <1>o, TakenSeq DEF Predecessor, Taken, TypeOK
<1>1. PICK x \in Into(f, o.pState) : \E c \in Widened(x, GoingInto(o.pState)) :
        \E q \in Pushed(Tail(pQueue), o) :
          pQueue' \in Pushed(q, [iFrame |-> f, pState |-> c, path |-> <<x[2]>> \o o.path])
  BY <1>o DEF Predecessor
<1>2. PICK c \in Widened(x, GoingInto(o.pState)) : \E q \in Pushed(Tail(pQueue), o) :
        pQueue' \in Pushed(q, [iFrame |-> f, pState |-> c, path |-> <<x[2]>> \o o.path])
  BY <1>1
<1>3. PICK q \in Pushed(Tail(pQueue), o) :
        pQueue' \in Pushed(q, [iFrame |-> f, pState |-> c, path |-> <<x[2]>> \o o.path])
  BY <1>2
<1> DEFINE p == [iFrame |-> f, pState |-> c, path |-> <<x[2]>> \o o.path]
<1>4. f \in Frame /\ o.path \in Seq(Input)
  BY <1>0, DoomedMeans
<1>5. /\ x \in State \X Input /\ x[1] \in vSolvers[f] /\ Holds(net.next[x], o.pState)
      /\ c \in Cube /\ \A s \in State : Holds(s, c) => Holds(net.next[<<s, x[2]>>], o.pState)
  <2>1. c \in Cube /\ \A s \in State : Holds(s, c) => <<s, x[2]>> \in GoingInto(o.pState)
    BY WidenedRight
  <2> QED BY <1>4, <2>1 DEF Into, Models, TypeOK, GoingInto
<1>6. p \in Obligation
  <2>1. <<x[2]>> \o o.path \in Seq(Input)
    BY <1>4, <1>5
  <2> QED BY <1>4, <1>5, <2>1 DEF Obligation
<1>7. ASSUME NEW s \in State, Holds(net.next[<<s, x[2]>>], o.pState)
      PROVE  EndsBad(s, <<x[2]>> \o o.path)
  <2>1. net \in Nets /\ x[2] \in Input
    BY <1>5 DEF TypeOK
  <2>2. net.next[<<s, x[2]>>] \in State
    BY <2>1, NetType
  <2>3. EndsBad(net.next[<<s, x[2]>>], o.path)
    BY <1>0, <1>7, <2>2 DEF LeadingObligation, Leading
  <2> QED BY <1>4, <2>1, <2>3, BadBefore
<1>8. f = 0 => EndsBad(init, <<x[2]>> \o o.path)
  <2> SUFFICES ASSUME f = 0 PROVE EndsBad(init, <<x[2]>> \o o.path)
    OBVIOUS
  <2>1. x[1] = init
    BY <1>5 DEF LevelsOK
  <2>2. x = <<init, x[2]>>
    BY <1>5, <2>1
  <2>3. Holds(net.next[<<init, x[2]>>], o.pState)
    BY <1>5, <2>2
  <2> QED BY <1>7, <2>3, InitState
<1>9. p \in LeadingObligation
  <2>1. p.iFrame = f /\ p.pState = c /\ p.path = <<x[2]>> \o o.path
    OBVIOUS
  <2> HIDE DEF p, f
  <2> QED BY <1>5, <1>6, <1>7, <1>8, <2>1 DEF LeadingObligation, Leading
<1>10. pQueue' \in Seq(LeadingObligation)
  <2> HIDE DEF p
  <2> QED BY <1>0, <1>3, <1>9, PushedSeq DEF p
<1> QED BY <1>0, <1>10, SameLeading

LEMMA BlockLeads == ASSUME IInv, CexInv, Block PROVE CexInv'
<1> USE DEF IInv, CexInv
<1>o. PICK o : o = Head(pQueue)
  OBVIOUS
<1>0. /\ pQueue # <<>> /\ o.iFrame > 0 /\ o \in DoomedObligation
      /\ o \in LeadingObligation /\ Tail(pQueue) \in Seq(LeadingObligation)
      /\ net' = net /\ cex' = cex /\ result' = result
  BY <1>o, TakenSeq DEF Block, Taken
<1>1. PICK k \in o.iFrame .. iFrame :
        IF k < iFrame
        THEN pQueue' \in Pushed(Tail(pQueue), [o EXCEPT !.iFrame = k + 1])
        ELSE pQueue' = Tail(pQueue)
  BY <1>o DEF Block
<1> DEFINE p == [o EXCEPT !.iFrame = k + 1]
<1>2. ASSUME k < iFrame PROVE p \in LeadingObligation
  <2>1. k + 1 \in Frame /\ k + 1 # 0
    BY <1>0, <1>2, DoomedMeans DEF Frame
  <2>2. o \in Obligation /\ Leading(o)
    BY <1>0 DEF LeadingObligation
  <2>3. p \in Obligation /\ p.iFrame = k + 1 /\ p.pState = o.pState /\ p.path = o.path
    BY <2>1, <2>2 DEF Obligation
  <2> HIDE DEF p
  <2>4. Leading(p)
    BY <2>1, <2>2, <2>3 DEF Leading
  <2> QED BY <2>3, <2>4 DEF LeadingObligation
<1>3. pQueue' \in Seq(LeadingObligation)
  <2>1. CASE k < iFrame
    <3>1. pQueue' \in Pushed(Tail(pQueue), p)
      BY <1>1, <2>1
    <3> HIDE DEF p
    <3> QED BY <1>0, <1>2, <2>1, <3>1, PushedSeq
  <2>2. CASE ~ (k < iFrame)
    BY <1>0, <1>1, <2>2
  <2> QED BY <2>1, <2>2
<1> QED BY <1>0, <1>3, SameLeading

LEMMA CexStep == IInv /\ CexInv /\ [Next]_vars => CexInv'
<1> SUFFICES ASSUME IInv, CexInv, [Next]_vars PROVE CexInv'
  OBVIOUS
<1> USE DEF CexInv
<1>1. CASE Disprove
  <2>1. Head(pQueue) \in LeadingObligation /\ Head(pQueue).iFrame = 0
    BY <1>1, TakenSeq DEF Disprove
  <2>2. Head(pQueue).path \in Seq(Input) /\ EndsBad(init, Head(pQueue).path)
    BY <2>1 DEF LeadingObligation, Leading, Obligation
  <2> QED BY <1>1, <2>2, SameLeading DEF Disprove
<1>2. CASE Drop
  <2>1. Tail(pQueue) \in Seq(LeadingObligation)
    BY <1>2, TakenSeq DEF Drop, Taken
  <2> QED BY <1>2, <2>1, SameLeading DEF Drop
<1>3. ASSUME NEW k \in Frame, FetchSolver(k) PROVE CexInv'
  BY <1>3, SameLeading DEF FetchSolver
<1>4. ASSUME NEW c \in Cube, StayAt(c) \/ MoveUp(c) PROVE CexInv'
  BY <1>4, SameLeading DEF StayAt, MoveUp
<1>5. CASE OpenFrame \/ Finished \/ LevelPushed \/ UNCHANGED vars
  BY <1>5, SameLeading DEF OpenFrame, Finished, LevelPushed, vars
<1>6. CASE AllPushed
  BY <1>6, SameLeading DEF AllPushed
<1> QED BY <1>1, <1>2, <1>3, <1>4, <1>5, <1>6, PropertyFailsLeads, PredecessorLeads, BlockLeads
        DEF Next

(* The counterexample, put together from obligations of different times,     *)
(* starts in the initial state and ends with the output at 1                 *)
(* (pdrMan.c:432), for every circuit and any number of frames.               *)
THEOREM CounterexampleRight == Spec => []CexRight
<1>1. Init => CexInv
  BY DEF Init, CexInv
<1>2. CexInv => CexRight
  BY BadReplayed DEF CexInv, CexRight
<1> QED BY <1>1, <1>2, CexStep, Invariance, PTL DEF Spec
-----------------------------------------------------------------------------
(* The queue is kept in the order of frames, so that what is found in a lower *)
(* frame is taken next.                                                      *)
Sorted(q) == \A i, j \in 1 .. Len(q) : i < j => q[i].iFrame <= q[j].iFrame

LEMMA QueuedFrame ==
  ASSUME NEW q \in Seq(Obligation)
  PROVE  \A i \in 1 .. Len(q) : q[i].iFrame \in Nat
<1>1. \A i \in 1 .. Len(q) : q[i] \in Obligation
  OBVIOUS
<1>2. \A o \in Obligation : o.iFrame \in Nat
  BY DEF Obligation, Frame
<1> QED BY <1>1, <1>2

(* Where an obligation is put, and what stands before and behind it.         *)
LEMMA PushedAt ==
  ASSUME NEW q \in Seq(Obligation), NEW o \in Obligation, NEW r \in Pushed(q, o)
  PROVE  \E n \in 0 .. Len(q) :
           /\ Len(r) = Len(q) + 1 /\ r[n + 1] = o
           /\ \A i \in 1 .. n : r[i] = q[i] /\ q[i].iFrame < o.iFrame
           /\ \A i \in n + 2 .. Len(q) + 1 : r[i] = q[i - 1]
           /\ n < Len(q) => q[n + 1].iFrame >= o.iFrame
<1>1. PICK n \in 0 .. Len(q) :
        /\ \A i \in 1 .. n : q[i].iFrame < o.iFrame
        /\ n < Len(q) => q[n + 1].iFrame >= o.iFrame
        /\ r = SubSeq(q, 1, n) \o <<o>> \o SubSeq(q, n + 1, Len(q))
  BY DEF Pushed
<1> DEFINE a == SubSeq(q, 1, n)
           b == SubSeq(q, n + 1, Len(q))
<1>2. /\ a \in Seq(Obligation) /\ Len(a) = n /\ \A i \in 1 .. n : a[i] = q[i]
      /\ b \in Seq(Obligation) /\ Len(b) = Len(q) - n
      /\ \A i \in 1 .. Len(q) - n : b[i] = q[n + i]
  OBVIOUS
<1> HIDE DEF a, b
<1>3. r = a \o <<o>> \o b
  BY <1>1 DEF a, b
<1>4. /\ Len(r) = Len(q) + 1 /\ r[n + 1] = o
      /\ \A i \in 1 .. n : r[i] = a[i]
      /\ \A i \in n + 2 .. Len(q) + 1 : r[i] = b[i - (n + 1)]
  <2> DEFINE c == a \o <<o>>
  <2>1. /\ c \in Seq(Obligation) /\ Len(c) = n + 1 /\ c[n + 1] = o
        /\ \A i \in 1 .. n : c[i] = a[i]
    BY <1>2
  <2>2. r = c \o b
    BY <1>3
  <2> HIDE DEF c
  <2>3. /\ Len(r) = Len(c) + Len(b)
        /\ \A i \in 1 .. Len(c) : r[i] = c[i]
        /\ \A i \in 1 .. Len(b) : r[Len(c) + i] = b[i]
    <3>1. c \in Seq(Obligation) /\ b \in Seq(Obligation)
      BY <1>2, <2>1
    <3> QED BY <2>2, <3>1
  <2>4. \A i \in n + 2 .. Len(q) + 1 : r[i] = b[i - (n + 1)]
    <3> SUFFICES ASSUME NEW i \in n + 2 .. Len(q) + 1 PROVE r[i] = b[i - (n + 1)]
      OBVIOUS
    <3>1. i - (n + 1) \in 1 .. Len(b) /\ Len(c) + (i - (n + 1)) = i
      BY <1>2, <2>1
    <3> QED BY <2>3, <3>1
  <2>5. Len(r) = Len(q) + 1 /\ r[n + 1] = c[n + 1]
    BY <1>2, <2>1, <2>3
  <2>6. \A i \in 1 .. n : r[i] = a[i]
    BY <2>1, <2>3
  <2> QED BY <2>1, <2>4, <2>5, <2>6
<1>5. ASSUME NEW i \in n + 2 .. Len(q) + 1
      PROVE  r[i] = q[i - 1]
  <2>1. i - (n + 1) \in 1 .. Len(q) - n /\ n + (i - (n + 1)) = i - 1
    OBVIOUS
  <2> QED BY <1>2, <1>4, <2>1
<1> QED BY <1>1, <1>2, <1>4, <1>5

LEMMA PushedSorted ==
  ASSUME NEW q \in Seq(Obligation), Sorted(q), NEW o \in Obligation, NEW r \in Pushed(q, o)
  PROVE  r \in Seq(Obligation) /\ Len(r) = Len(q) + 1 /\ Sorted(r)
<1>1. PICK n \in 0 .. Len(q) :
        /\ Len(r) = Len(q) + 1 /\ r[n + 1] = o
        /\ \A i \in 1 .. n : r[i] = q[i] /\ q[i].iFrame < o.iFrame
        /\ \A i \in n + 2 .. Len(q) + 1 : r[i] = q[i - 1]
        /\ n < Len(q) => q[n + 1].iFrame >= o.iFrame
  BY PushedAt
<1>2. \A i \in 1 .. Len(q) : q[i].iFrame \in Nat
  BY QueuedFrame
<1>3. o.iFrame \in Nat
  BY DEF Obligation, Frame
<1>4. ASSUME NEW i \in 1 .. Len(q), i > n PROVE q[i].iFrame >= o.iFrame
  <2>1. n + 1 \in 1 .. Len(q) /\ q[n + 1].iFrame >= o.iFrame
    BY <1>1, <1>4
  <2>2. i = n + 1 \/ q[n + 1].iFrame <= q[i].iFrame
    BY <1>4, <2>1 DEF Sorted
  <2> QED BY <1>2, <1>3, <2>1, <2>2
<1>5. ASSUME NEW i \in 1 .. Len(r), NEW j \in 1 .. Len(r), i < j
      PROVE  r[i].iFrame <= r[j].iFrame
  <2>1. CASE j <= n
    BY <1>1, <1>5, <2>1 DEF Sorted
  <2>2. CASE i <= n /\ j = n + 1
    BY <1>1, <1>2, <1>3, <1>5, <2>2
  <2>3. CASE i <= n /\ j > n + 1
    <3>1. j - 1 \in 1 .. Len(q) /\ i \in 1 .. Len(q) /\ i < j - 1 /\ j \in n + 2 .. Len(q) + 1
      BY <1>1, <2>3
    <3>2. r[i] = q[i] /\ r[j] = q[j - 1]
      BY <1>1, <2>3, <3>1
    <3> QED BY <3>1, <3>2 DEF Sorted
  <2>4. CASE i = n + 1
    <3>1. j - 1 \in 1 .. Len(q) /\ j - 1 > n /\ j \in n + 2 .. Len(q) + 1
      BY <1>1, <1>5, <2>4
    <3> QED BY <1>1, <1>4, <2>4, <3>1
  <2>5. CASE i > n + 1
    <3>1. /\ i - 1 \in 1 .. Len(q) /\ j - 1 \in 1 .. Len(q) /\ i - 1 < j - 1
          /\ i \in n + 2 .. Len(q) + 1 /\ j \in n + 2 .. Len(q) + 1
      BY <1>1, <1>5, <2>5
    <3> QED BY <1>1, <3>1 DEF Sorted
  <2> QED BY <1>1, <1>5, <2>1, <2>2, <2>3, <2>4, <2>5
<1> QED BY <1>1, <1>5, PushedSeq DEF Sorted

(* An obligation of a frame no later than any other comes first.             *)
LEMMA PushedFirst ==
  ASSUME NEW q \in Seq(Obligation), NEW o \in Obligation, NEW r \in Pushed(q, o),
         \A i \in 1 .. Len(q) : q[i].iFrame >= o.iFrame
  PROVE  Head(r) = o
<1>1. PICK n \in 0 .. Len(q) :
        /\ Len(r) = Len(q) + 1 /\ r[n + 1] = o
        /\ \A i \in 1 .. n : r[i] = q[i] /\ q[i].iFrame < o.iFrame
  BY PushedAt
<1>2. n = 0
  <2>1. o.iFrame \in Nat
    BY DEF Obligation, Frame
  <2>2. \A i \in 1 .. Len(q) : q[i].iFrame \in Nat
    BY QueuedFrame
  <2>3. n # 0 => 1 \in 1 .. n /\ 1 \in 1 .. Len(q)
    OBVIOUS
  <2> QED BY <1>1, <2>1, <2>2, <2>3
<1>3. r \in Seq(Obligation)
  BY PushedSeq
<1> QED BY <1>1, <1>2, <1>3

LEMMA TailSorted ==
  ASSUME NEW q \in Seq(Obligation), q # <<>>, Sorted(q)
  PROVE  /\ Tail(q) \in Seq(Obligation) /\ Len(Tail(q)) = Len(q) - 1 /\ Sorted(Tail(q))
         /\ \A i \in 1 .. Len(Tail(q)) : Tail(q)[i].iFrame >= Head(q).iFrame
<1>1. /\ Tail(q) \in Seq(Obligation) /\ Len(Tail(q)) = Len(q) - 1 /\ Len(q) \in Nat \ {0}
      /\ \A i \in 1 .. Len(q) - 1 : Tail(q)[i] = q[i + 1]
      /\ Head(q) = q[1]
  OBVIOUS
<1>2. Sorted(Tail(q))
  BY <1>1 DEF Sorted
<1>3. ASSUME NEW i \in 1 .. Len(q) - 1 PROVE q[i + 1].iFrame >= q[1].iFrame
  <2>1. 1 \in 1 .. Len(q) /\ i + 1 \in 1 .. Len(q) /\ 1 < i + 1
    BY <1>1
  <2>2. q[1].iFrame <= q[i + 1].iFrame
    BY <2>1 DEF Sorted
  <2>3. q[1].iFrame \in Nat /\ q[i + 1].iFrame \in Nat
    BY <2>1, QueuedFrame
  <2> QED BY <2>2, <2>3
<1> QED BY <1>1, <1>2, <1>3

(* Unless every state goes to the target with the input of the model, the    *)
(* cube has literals of its own, and the model among its states.             *)
LEMMA WidenedHolds ==
  ASSUME NEW x, NEW T, NEW c \in Widened(x, T),
         ~ \A s \in State : <<s, x[2]>> \in T
  PROVE  Holds(x[1], c)
<1>1. PICK d \in Cube : /\ Holds(x[1], d) /\ \A s \in State : Holds(s, d) => <<s, x[2]>> \in T
                        /\ c = IF d = {} THEN {<<latch0, 1>>} ELSE d
  BY DEF Widened
<1>2. d # {}
  <2>1. d = {} => \A s : Holds(s, d)
    BY DEF Holds
  <2> QED BY <1>1, <2>1
<1> QED BY <1>1, <1>2

(* An obligation found now, unless in frame 0: its cube holds the model.     *)
Found(o) ==
  o.iFrame > 0 => \E x \in Models(o.iFrame) : Holds(x[1], o.pState) /\ x[2] = Head(o.path)

LEMMA FoundByProperty ==
  ASSUME IInv, PropertyFails
  PROVE  \E o \in Obligation : pQueue' \in Pushed(pQueue, o) /\ Found(o)
<1> USE DEF IInv
<1>0. iFrame \in Nat /\ iFrame \in Frame
  BY FrameAssumption DEF TypeOK, Frame
<1>1. PICK x \in Models(iFrame) \cap net.bad : \E c \in Widened(x, net.bad) :
        pQueue' \in Pushed(pQueue, [iFrame |-> iFrame, pState |-> c, path |-> <<x[2]>>])
  BY DEF PropertyFails
<1>2. PICK c \in Widened(x, net.bad) :
        pQueue' \in Pushed(pQueue, [iFrame |-> iFrame, pState |-> c, path |-> <<x[2]>>])
  BY <1>1
<1> DEFINE o == [iFrame |-> iFrame, pState |-> c, path |-> <<x[2]>>]
<1>3. x \in State \X Input /\ x \in Models(iFrame) /\ c \in Cube
  BY <1>0, WidenedRight DEF Models, TypeOK
<1>4. o \in Obligation
  BY <1>0, <1>3 DEF Obligation
<1>5. ASSUME iFrame > 0 PROVE ~ \A s \in State : <<s, x[2]>> \in net.bad
  <2>1. 0 \in 0 .. iFrame /\ 0 \in 0 .. iFrame - 1
    BY <1>0, <1>5
  <2>2. init \in InFrame(0) /\ (InFrame(0) \X Input) \cap net.bad = {}
    BY <2>1 DEF FramesOK, FramesFollow, ClosedFramesSafe
  <2>3. <<init, x[2]>> \notin net.bad
    BY <1>3, <2>2
  <2> QED BY <2>3, InitState
<1>6. iFrame > 0 => Holds(x[1], c)
  BY <1>5, WidenedHolds
<1>7. o.iFrame = iFrame /\ o.pState = c /\ Head(o.path) = x[2] /\ pQueue' \in Pushed(pQueue, o)
  BY <1>2
<1> HIDE DEF o
<1> QED BY <1>3, <1>4, <1>6, <1>7 DEF Found

LEMMA FoundBelow ==
  ASSUME IInv, Predecessor
  PROVE  \E o, q, p :
           /\ o = Head(pQueue) /\ o \in Obligation /\ p \in Obligation
           /\ q \in Pushed(Tail(pQueue), o) /\ pQueue' \in Pushed(q, p)
           /\ p.iFrame = o.iFrame - 1 /\ Found(p)
<1> USE DEF IInv
<1>o. PICK o : o = Head(pQueue)
  OBVIOUS
<1> DEFINE f == o.iFrame - 1
<1>0. pQueue # <<>> /\ o.iFrame > 0 /\ o \in DoomedObligation /\ o \in Obligation
  BY <1>o, TakenSeq DEF Predecessor, Taken, TypeOK
<1>1. PICK x \in Into(f, o.pState) : \E c \in Widened(x, GoingInto(o.pState)) :
        \E q \in Pushed(Tail(pQueue), o) :
          pQueue' \in Pushed(q, [iFrame |-> f, pState |-> c, path |-> <<x[2]>> \o o.path])
  BY <1>o DEF Predecessor
<1>2. PICK c \in Widened(x, GoingInto(o.pState)) : \E q \in Pushed(Tail(pQueue), o) :
        pQueue' \in Pushed(q, [iFrame |-> f, pState |-> c, path |-> <<x[2]>> \o o.path])
  BY <1>1
<1>3. PICK q \in Pushed(Tail(pQueue), o) :
        pQueue' \in Pushed(q, [iFrame |-> f, pState |-> c, path |-> <<x[2]>> \o o.path])
  BY <1>2
<1> DEFINE p == [iFrame |-> f, pState |-> c, path |-> <<x[2]>> \o o.path]
<1>4. /\ iFrame \in Nat /\ o.iFrame \in 1 .. iFrame /\ f \in 0 .. iFrame - 1 /\ f \in Frame
      /\ o.path \in Seq(Input) /\ InFrame(f) \subseteq Outside(o.pState)
  BY <1>0, DoomedMeans
<1>5. x \in State \X Input /\ x \in Models(f) /\ c \in Cube
  <2>1. c \in Cube
    BY WidenedRight
  <2> QED BY <1>4, <2>1 DEF Into, Models, TypeOK
<1>6. /\ p \in Obligation /\ p.iFrame = f /\ p.pState = c /\ Head(p.path) = x[2]
  <2>1. <<x[2]>> \o o.path \in Seq(Input) /\ Head(<<x[2]>> \o o.path) = x[2]
    BY <1>4, <1>5
  <2> QED BY <1>4, <1>5, <2>1 DEF Obligation
<1>7. ASSUME f > 0 PROVE ~ \A s \in State : <<s, x[2]>> \in GoingInto(o.pState)
  <2>1. f - 1 \in 0 .. iFrame - 1 /\ f - 1 \in 0 .. iFrame /\ (f - 1) + 1 = f
    BY <1>4, <1>7
  <2>2. init \in InFrame(f - 1)
    BY <2>1 DEF FramesOK, FramesFollow
  <2>3. <<init, x[2]>> \in InFrame(f - 1) \X Input
    BY <1>5, <2>2
  <2>4. net.next[<<init, x[2]>>] \in InFrame((f - 1) + 1)
    BY <2>1, <2>3 DEF FramesOK, FramesFollow
  <2>5. ~ Holds(net.next[<<init, x[2]>>], o.pState)
    BY <1>4, <2>1, <2>4 DEF Outside
  <2> QED BY <2>5, InitState DEF GoingInto
<1>8. f > 0 => Holds(x[1], c)
  BY <1>7, WidenedHolds
<1>9. pQueue' \in Pushed(q, p)
  BY <1>3
<1> HIDE DEF p
<1> QED BY <1>o, <1>0, <1>5, <1>6, <1>8, <1>9 DEF Found

(* One step of the queue: it stays sorted, and is longer only after one of   *)
(* the two steps that find an obligation.                                    *)
LEMMA QueueStep ==
  ASSUME IInv, Sorted(pQueue), [Next]_vars
  PROVE  /\ Sorted(pQueue')
         /\ Len(pQueue') > Len(pQueue) => PropertyFails \/ Predecessor
<1>1. pQueue \in Seq(Obligation)
  BY DEF IInv, TypeOK
<1>2. CASE PropertyFails
  <2>1. PICK o : pQueue' \in Pushed(pQueue, o) /\ o \in Obligation
    BY <1>2, FoundByProperty
  <2> QED BY <1>1, <1>2, <2>1, PushedSorted
<1>3. CASE Predecessor
  <2>1. PICK o, q, p : /\ o = Head(pQueue) /\ o \in Obligation /\ p \in Obligation
                       /\ q \in Pushed(Tail(pQueue), o) /\ pQueue' \in Pushed(q, p)
    BY <1>3, FoundBelow
  <2>2. pQueue # <<>>
    BY <1>3 DEF Predecessor, Taken
  <2>3. Tail(pQueue) \in Seq(Obligation) /\ Sorted(Tail(pQueue))
    BY <1>1, <2>2, TailSorted
  <2>4. q \in Seq(Obligation) /\ Sorted(q)
    BY <2>1, <2>3, PushedSorted
  <2> QED BY <1>3, <2>1, <2>4, PushedSorted
<1>4. CASE Block
  <2>1. PICK o : o = Head(pQueue)
    OBVIOUS
  <2>2. PICK k \in o.iFrame .. iFrame :
          IF k < iFrame
          THEN pQueue' \in Pushed(Tail(pQueue), [o EXCEPT !.iFrame = k + 1])
          ELSE pQueue' = Tail(pQueue)
    BY <1>4, <2>1 DEF Block
  <2>3. pQueue # <<>> /\ o.iFrame > 0
    BY <1>4, <2>1 DEF Block, Taken
  <2>4. /\ Tail(pQueue) \in Seq(Obligation) /\ Len(Tail(pQueue)) = Len(pQueue) - 1
        /\ Sorted(Tail(pQueue)) /\ o \in Obligation
    BY <1>1, <2>1, <2>3, TailSorted, TakenSeq
  <2>5. Len(pQueue) \in Nat
    BY <1>1
  <2> DEFINE p == [o EXCEPT !.iFrame = k + 1]
  <2>6. ASSUME k < iFrame PROVE p \in Obligation
    <3>1. k + 1 \in Frame
      <4>1. iFrame \in Nat /\ iFrame <= MaxFrame /\ MaxFrame \in Nat /\ o.iFrame \in Nat
        BY <2>4, FrameAssumption DEF IInv, TypeOK, Obligation, Frame
      <4> QED BY <2>6, <4>1 DEF Frame
    <3> QED BY <2>4, <3>1 DEF Obligation
  <2>7. CASE k < iFrame
    <3>1. pQueue' \in Pushed(Tail(pQueue), p)
      BY <2>2, <2>7
    <3> HIDE DEF p
    <3>2. Sorted(pQueue') /\ Len(pQueue') = Len(Tail(pQueue)) + 1
      BY <2>4, <2>6, <2>7, <3>1, PushedSorted
    <3>3. Len(pQueue') = Len(pQueue)
      BY <2>4, <2>5, <3>2
    <3> QED BY <2>5, <3>2, <3>3
  <2>8. CASE ~ (k < iFrame)
    <3>1. pQueue' = Tail(pQueue)
      BY <2>2, <2>8
    <3>2. Sorted(pQueue') /\ Len(pQueue') = Len(pQueue) - 1
      BY <2>4, <3>1
    <3> QED BY <2>5, <3>2
  <2> QED BY <2>7, <2>8
<1>5. CASE Drop
  <2>1. pQueue # <<>> /\ pQueue' = Tail(pQueue) /\ Len(pQueue) \in Nat
    BY <1>1, <1>5 DEF Drop, Taken
  <2> QED BY <1>1, <2>1, TailSorted
<1>6. CASE UNCHANGED pQueue
  BY <1>1, <1>6
<1>7. CASE \E k \in Frame : FetchSolver(k)
  BY <1>6, <1>7 DEF FetchSolver
<1>8. CASE \E c \in Cube : StayAt(c) \/ MoveUp(c)
  BY <1>6, <1>8 DEF StayAt, MoveUp
<1>9. CASE OpenFrame \/ Finished \/ Disprove \/ LevelPushed \/ AllPushed \/ UNCHANGED vars
  BY <1>6, <1>9 DEF OpenFrame, Finished, Disprove, LevelPushed, AllPushed, vars
<1> QED BY <1>2, <1>3, <1>4, <1>5, <1>7, <1>8, <1>9 DEF Next

(* What a step that finds an obligation puts first, was found.               *)
LEMMA FindsInSolver ==
  ASSUME IInv, Sorted(pQueue), PropertyFails \/ Predecessor
  PROVE  Found(Head(pQueue'))
<1>1. pQueue \in Seq(Obligation)
  BY DEF IInv, TypeOK
<1>2. CASE PropertyFails
  <2>1. PICK o \in Obligation : pQueue' \in Pushed(pQueue, o) /\ Found(o)
    BY <1>2, FoundByProperty
  <2>2. pQueue = <<>>
    BY <1>2 DEF PropertyFails, IInv, LoopOK
  <2>3. \A i \in 1 .. Len(pQueue) : FALSE
    BY <2>2
  <2>4. Head(pQueue') = o
    BY <1>1, <2>1, <2>3, PushedFirst
  <2> QED BY <2>1, <2>4
<1>3. CASE Predecessor
  <2>1. PICK o, q, p : /\ o = Head(pQueue) /\ o \in Obligation /\ p \in Obligation
                       /\ q \in Pushed(Tail(pQueue), o) /\ pQueue' \in Pushed(q, p)
                       /\ p.iFrame = o.iFrame - 1 /\ Found(p)
    BY <1>3, FoundBelow
  <2>2. pQueue # <<>>
    BY <1>3 DEF Predecessor, Taken
  <2>3. /\ Tail(pQueue) \in Seq(Obligation) /\ Sorted(Tail(pQueue))
        /\ \A i \in 1 .. Len(Tail(pQueue)) : Tail(pQueue)[i].iFrame >= o.iFrame
    BY <1>1, <2>1, <2>2, TailSorted
  <2>4. q \in Seq(Obligation) /\ Sorted(q) /\ Len(q) = Len(Tail(pQueue)) + 1
    BY <2>1, <2>3, PushedSorted
  <2>5. Head(q) = o
    BY <2>1, <2>3, PushedFirst
  <2>6. q # <<>> /\ Head(q) = q[1]
    BY <2>3, <2>4
  <2>7. /\ o.iFrame \in Nat /\ p.iFrame \in Nat
    BY <2>1 DEF Obligation, Frame
  <2>8. \A i \in 1 .. Len(q) : q[i].iFrame >= o.iFrame
    <3>1. \A i \in 1 .. Len(q) : i = 1 \/ q[1].iFrame <= q[i].iFrame
      BY <2>4 DEF Sorted
    <3>2. \A i \in 1 .. Len(q) : q[i].iFrame \in Nat
      BY <2>4, QueuedFrame
    <3> QED BY <2>5, <2>6, <2>7, <3>1, <3>2
  <2>9. \A i \in 1 .. Len(q) : q[i].iFrame >= p.iFrame
    <3>1. \A i \in 1 .. Len(q) : q[i].iFrame \in Nat
      BY <2>4, QueuedFrame
    <3> QED BY <2>1, <2>7, <2>8, <3>1
  <2>10. Head(pQueue') = p
    BY <2>1, <2>4, <2>9, PushedFirst
  <2> QED BY <2>1, <2>10
<1> QED BY <1>2, <1>3

(* The first obligation a step finds holds a state its solver leaves, with   *)
(* the input found: a cube without literals, which would be given one the    *)
(* state may not satisfy (pdrTsim.c:301), is found in frame 0 only, as with  *)
(* it the initial state would lead to output 1 and a frame below had shown   *)
(* it.  So no query finds what was blocked for it before.                    *)
THEOREM FoundIsNew == Spec => FoundInSolver
<1> DEFINE InOrder == Sorted(pQueue)
<1>1. Init => InOrder
  BY DEF Init, Sorted
<1>2. IInv /\ InOrder /\ [Next]_vars => InOrder'
  BY QueueStep
<1>3. IInv /\ InOrder /\ [Next]_vars =>
        [Len(pQueue') > Len(pQueue) =>
           LET o == Head(pQueue')
           IN o.iFrame > 0 =>
                \E x \in Models(o.iFrame) : Holds(x[1], o.pState) /\ x[2] = Head(o.path)]_vars
  BY QueueStep, FindsInSolver DEF Found
<1> HIDE DEF InOrder
<1> QED BY <1>1, <1>2, <1>3, Invariance, PTL DEF Spec, FoundInSolver
=============================================================================
