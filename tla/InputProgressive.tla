-------------------------- MODULE InputProgressive --------------------------
(***************************************************************************)
(* Leq_InputProgressive (leqInpro.cpp): the explicit worklist procedure    *)
(* that makes a Boolean automaton input progressive.  A state is worth     *)
(* keeping when for every input u there is an output v such that, whatever *)
(* the nondeterminism input n, the step is accepted (f0 = 1) and leads to  *)
(* a state worth keeping.  The procedure explores the states from initS,   *)
(* records the moves of every state it keeps, and when a state has an      *)
(* input without a move it deletes the state, conjoins "do not enter it"   *)
(* to f0, and propagates the deletion to the states it had recorded.       *)
(***************************************************************************)
EXTENDS TransitionCircuit

VARIABLES
  ba,       \* the circuit as given; never changes
  cut,      \* states whose entry has been conjoined away from f0 (pNtk, pMan)
  pc,       \* "expand", "delete", "done" or "const0"
  cs,       \* the state being expanded
  sCS,      \* the worklist
  sRS,      \* the keys of the map sRS
  rec,      \* its contents: <<s, u, v, t>> when t is in (*sRS[s][u])[v]
  tmpNS,    \* entries <<u, v, t>> left in tmpNS by earlier expansions
  vDelS,    \* states to delete in the next round of Leq_InProDeletState
  vtmpDelS, \* states still to delete in this round
  clean     \* history: no kept state was recorded together with leftovers

vars == <<ba, cut, pc, cs, sCS, sRS, rec, tmpNS, vDelS, vtmpDelS, clean>>

-----------------------------------------------------------------------------
(* Definitions whose comment begins with "Mutant" are faulty variants used   *)
(* only to see that the properties notice them.                              *)

(* Mutant: the move is filed under the simulated input number i + (j << u).  *)
NewNSByInputId(s, bound) ==
  { <<e[1], e[1] + UNum * e[2], e[3]>> : e \in
    { e \in U \X V \X State :
        /\ e[1] < bound
        /\ Accepted(ba, cut, s, e[1], e[2])
        /\ e[3] \in Succ(ba, s, e[1], e[2]) } }

(* The entries an expansion of s puts into tmpNS while u is below bound.     *)
NewNS(s, bound) ==
  { e \in U \X V \X State :
      /\ e[1] < bound
      /\ Accepted(ba, cut, s, e[1], e[2])
      /\ e[3] \in Succ(ba, s, e[1], e[2]) }

-----------------------------------------------------------------------------
Init ==
  /\ ba \in Automata
  /\ cut = {}
  /\ pc = "expand"
  /\ cs = initS
  /\ sCS = {initS}
  /\ sRS = {initS}
  /\ rec = {}
  /\ tmpNS = {}
  /\ vDelS = {}
  /\ vtmpDelS = {}
  /\ clean = TRUE

(* Mutants: tmpCS is cleared for every u instead of once per state, and every*)
(* successor joins the worklist, recorded or not.                            *)
UnrecordedOfLast(new, keys) == { e[3] : e \in { e \in new : e[1] = UNum - 1 } } \ keys

UnrecordedAll(new, keys) == { e[3] : e \in new }

(* The successors found (tmpCS) that sRS has no key for.                     *)
Unrecorded(new, keys) == { e[3] : e \in new } \ keys

(* Every input of s has a move: the state is kept, tmpNS is moved into       *)
(* sRS[s], and successors not yet recorded join the worklist.                *)
Keep(s) ==
  LET new == NewNS(s, UNum)
  IN /\ pc = "expand"
     /\ s \in sCS
     /\ \A u \in U : ~ NoV(ba, cut, s, u)
     /\ cs' = s
     /\ sRS' = sRS \cup {s}
     /\ rec' = { r \in rec : r[1] # s }
               \cup { <<s, e[1], e[2], e[3]>> : e \in tmpNS \cup new }
     /\ sCS' = (sCS \ {s}) \cup Unrecorded(new, sRS')
     /\ clean' = (clean /\ tmpNS = {})
     /\ tmpNS' = {}
     /\ UNCHANGED <<ba, cut, pc, vDelS, vtmpDelS>>

(* u is the first input of s without a move: the loop over u breaks and the  *)
(* state is handed to Leq_InProDeletState.  The entries of the inputs below  *)
(* u stay in tmpNS.                                                          *)
Reject(s, u) ==
  /\ pc = "expand"
  /\ s \in sCS
  /\ NoV(ba, cut, s, u)
  /\ \A w \in U : w < u => ~ NoV(ba, cut, s, w)
  /\ cs' = s
  /\ tmpNS' = tmpNS \cup NewNS(s, u)
  /\ vtmpDelS' = {s}
  /\ vDelS' = {}
  /\ pc' = "delete"
  /\ UNCHANGED <<ba, cut, sCS, sRS, rec, clean>>

(* The recorded moves (s, u, v) that may lead to ds.                         *)
Into(ds) == { m \in State \X U \X V : <<m[1], m[2], m[3], ds>> \in rec }

(* Mutant: the map of the deleted state stays in sRS.                        *)
EraseNothing(ds) == sRS

Erase(ds) == sRS \ {ds}

(* Mutants: a state is deleted as soon as it loses one move, and a state that*)
(* lost its last move for an input is not deleted.                           *)
EmptiedEager(ds, keys, left) ==
  { s \in keys : \E u \in U, v \in V : <<s, u, v>> \in Into(ds) }

EmptiedNever(ds, keys, left) == {}

(* The states whose map for some input loses its last move with ds.          *)
Emptied(ds, keys, left) ==
  { s \in keys : \E u \in U :
      /\ \E v \in V : <<s, u, v>> \in Into(ds)
      /\ ~ \E v \in V, t \in State : <<s, u, v, t>> \in left }

(* One state of the round: f0 is patched in both circuits, the state leaves  *)
(* sRS, recorded moves into it are erased, and a state whose map for some    *)
(* input became empty is deleted in the next round.                          *)
DeleteOne(ds) ==
  /\ pc = "delete"
  /\ ds \in vtmpDelS
  /\ ds # initS
  /\ cut' = cut \cup {ds}
  /\ sRS' = Erase(ds)
  /\ rec' = { r \in rec : r[1] # ds /\ <<r[1], r[2], r[3]>> \notin Into(ds) }
  /\ vDelS' = vDelS \cup Emptied(ds, sRS', rec')
  /\ vtmpDelS' = vtmpDelS \ {ds}
  /\ UNCHANGED <<ba, pc, cs, sCS, tmpNS, clean>>

(* The initial state is to be deleted: the circuit becomes constant 0.       *)
DeleteInit ==
  /\ pc = "delete"
  /\ initS \in vtmpDelS
  /\ pc' = "const0"
  /\ UNCHANGED <<ba, cut, cs, sCS, sRS, rec, tmpNS, vDelS, vtmpDelS, clean>>

(* The round is over: start the next one, or return and erase cs from sCS.   *)
NextRound ==
  /\ pc = "delete"
  /\ vtmpDelS = {}
  /\ vDelS # {}
  /\ vtmpDelS' = vDelS
  /\ vDelS' = {}
  /\ UNCHANGED <<ba, cut, pc, cs, sCS, sRS, rec, tmpNS, clean>>

DeleteReturn ==
  /\ pc = "delete"
  /\ vtmpDelS = {}
  /\ vDelS = {}
  /\ pc' = "expand"
  /\ sCS' = sCS \ {cs}
  /\ UNCHANGED <<ba, cut, cs, sRS, rec, tmpNS, vDelS, vtmpDelS, clean>>

(* The worklist is empty: the patched circuit becomes the automaton's.       *)
Finish ==
  /\ pc = "expand"
  /\ sCS = {}
  /\ pc' = "done"
  /\ UNCHANGED <<ba, cut, cs, sCS, sRS, rec, tmpNS, vDelS, vtmpDelS, clean>>

Next ==
  \/ \E s \in State : Keep(s)
  \/ \E s \in State, u \in U : Reject(s, u)
  \/ \E ds \in State : DeleteOne(ds)
  \/ DeleteInit
  \/ NextRound
  \/ DeleteReturn
  \/ Finish

Spec == Init /\ [][Next]_vars

(* The procedure is one sequential loop: it never stops before it returns.   *)
FairSpec == Spec /\ WF_vars(Next)

-----------------------------------------------------------------------------
(* Every variable has its type. *)
TypeOK ==
  /\ ba \in Circuit
  /\ cut \subseteq State
  /\ pc \in {"expand", "delete", "done", "const0"}
  /\ cs \in State
  /\ sCS \subseteq State
  /\ sRS \subseteq State
  /\ rec \subseteq State \X U \X V \X State
  /\ tmpNS \subseteq U \X V \X State
  /\ vDelS \subseteq State
  /\ vtmpDelS \subseteq State
  /\ clean \in BOOLEAN

(* A deleted state is gone for good: it is neither recorded nor waiting to   *)
(* be expanded (only the state under deletion is still in the worklist).     *)
DeletedStayOut ==
  /\ cut \cap sRS = {}
  /\ cut \cap sCS \subseteq IF pc \in {"delete", "const0"} THEN {cs} ELSE {}

(* Whatever a recorded state can still do in the patched circuit leads to a  *)
(* recorded state or to one that waits.  Leq_InproDeterminize relies on it:  *)
(* it looks successors up with operator[], which would insert a new key.     *)
MovesClosed ==
  \A s \in sRS \ sCS : \A u \in U, v \in V :
    Accepted(ba, cut, s, u, v) => Succ(ba, s, u, v) \subseteq sRS \cup sCS

(* No state of an input progressive set is ever cut, unless leftovers of a   *)
(* deleted state were recorded for another one: the result is as large as it *)
(* can be.                                                                   *)
CutJustified ==
  clean => \A W \in SUBSET State : Progressive(ba, W) => W \cap cut = {}

(* The answer "constant 0" is given only if no progressive set holds initS.  *)
ConstZeroJustified ==
  clean /\ pc = "const0" =>
    ~ \E W \in SUBSET State : Progressive(ba, W) /\ initS \in W

(* The procedure returns with initS kept and the kept states progressive.    *)
ResultProgressive ==
  clean /\ pc = "done" => initS \in sRS /\ Progressive(ba, sRS)

(* The same for every run: what the synopsis "make Ba input progressive"     *)
(* promises.                                                                 *)
ResultAlwaysProgressive == pc = "done" => Progressive(ba, sRS)

(* The abstract promise, for the runs without leftovers; with a single value *)
(* of u no leftover can arise.                                               *)
Abs == INSTANCE ProgressiveSubset WITH
  result <- IF pc = "done" THEN "circuit" ELSE IF pc = "const0" THEN "empty" ELSE "none"

Implements == Abs!AbsSpec

(* The procedure returns.                                                    *)
Termination == <>(pc \in {"done", "const0"})

=============================================================================
