----------------------- MODULE InputProgressiveProofs -----------------------
(***************************************************************************)
(* The safety properties of InputProgressive for every automaton, by an    *)
(* inductive invariant in two layers: where the states can be while they   *)
(* are explored and deleted, and, for the runs in which no leftover was    *)
(* recorded, what the records and the pending deletions say about the      *)
(* patched circuit.                                                        *)
(***************************************************************************)
EXTENDS InputProgressive, TLAPS

Pending == vDelS \cup vtmpDelS

(* initS is never erased from sRS.  It is in the worklist only before it was *)
(* expanded, when nothing else has happened, and while the procedure finds   *)
(* out that it is to be deleted itself.                                      *)
Start ==
  /\ initS \in sRS
  /\ initS \in sCS => sCS = {initS} /\ sRS = {initS} /\ cut = {}

(* A state waits or is recorded, never both, initS at the start excepted;    *)
(* and a deleted state is neither.                                           *)
Apart ==
  /\ sRS \cap sCS \subseteq {initS}
  /\ cut \cap sRS = {}
  /\ cut \cap sCS \subseteq IF pc \in {"delete", "const0"} THEN {cs} ELSE {}

(* What is to be deleted: nothing while states are explored, and otherwise   *)
(* the rejected state and states that are recorded or already deleted.       *)
Deleting ==
  /\ pc \in {"expand", "done"} => Pending = {}
  /\ pc \in {"delete", "const0"} =>
       /\ cs \in sCS
       /\ cs \in cut \cup vtmpDelS
       /\ Pending \subseteq sRS \cup cut \cup {cs}
  /\ pc = "const0" => initS \in vtmpDelS
  /\ pc = "done" => sCS = {}

Explored == TypeOK /\ Start /\ Apart /\ Deleting /\ MovesClosed

(* The records of an expanded state are exactly its moves in the patched     *)
(* circuit.                                                                  *)
RecordsExact ==
  \A s \in sRS \ sCS : \A u \in U, v \in V, t \in State :
    <<s, u, v, t>> \in rec <=>
      Accepted(ba, cut, s, u, v) /\ t \in Succ(ba, s, u, v)

(* A recorded state that has lost all moves for some u is to be deleted.     *)
NoneForgotten ==
  \A s \in sRS \ sCS : s \in Pending \/ ~ Stuck(ba, cut, s)

(* Only states without a move for some u are deleted.                        *)
OnlyStuckDeleted == \A s \in Pending : Stuck(ba, cut, s)

Exact ==
  clean => /\ RecordsExact
           /\ NoneForgotten
           /\ OnlyStuckDeleted
           /\ \A W \in SUBSET State : Progressive(ba, W) => W \cap cut = {}

IInv == Explored /\ Exact

(* With one value of u a rejected state leaves nothing in tmpNS. *)
NoLeftovers == tmpNS = {} /\ clean

-----------------------------------------------------------------------------
(* One simulation returns at least one next state, all of them states.       *)
LEMMA SuccType ==
  ASSUME NEW a \in Circuit, NEW s \in State, NEW u \in U, NEW v \in V
  PROVE  Succ(a, s, u, v) \subseteq State /\ Succ(a, s, u, v) # {}
<1>1. \A n \in N : a[s, u, v, n] \in [f0 : BOOLEAN, next : State]
  BY DEF Circuit
<1>2. \A n \in N : a[s, u, v, n].next \in State
  BY <1>1
<1>3. Succ(a, s, u, v) \subseteq State
  BY <1>2 DEF Succ
<1>4. Succ(a, s, u, v) # {}
  BY InputAssumption DEF Succ
<1> QED BY <1>3, <1>4

(* Deleting d takes away exactly the accepted moves that may lead to d.      *)
LEMMA CutMore ==
  ASSUME NEW a, NEW D, NEW d, NEW s, NEW u, NEW v
  PROVE  Accepted(a, D \cup {d}, s, u, v)
           <=> Accepted(a, D, s, u, v) /\ d \notin Succ(a, s, u, v)
BY DEF Accepted

(* A stuck state stays stuck when more states are deleted.                   *)
LEMMA StuckMore ==
  ASSUME NEW a, NEW D, NEW d, NEW s, Stuck(a, D, s)
  PROVE  Stuck(a, D \cup {d}, s)
BY CutMore DEF Stuck, NoV

(* A stuck state is in no progressive set that avoids the deleted states.    *)
LEMMA StuckIsOutside ==
  ASSUME NEW a, NEW D, NEW s, NEW W, Progressive(a, W), W \cap D = {}, Stuck(a, D, s)
  PROVE  s \notin W
<1> SUFFICES ASSUME s \in W PROVE FALSE
  OBVIOUS
<1>1. PICK u \in U : NoV(a, D, s, u)
  BY DEF Stuck
<1>2. PICK v \in V : Move(a, s, u, v) /\ Succ(a, s, u, v) \subseteq W
  BY <1>1 DEF Progressive
<1>3. Accepted(a, D, s, u, v)
  BY <1>2 DEF Accepted
<1> QED BY <1>1, <1>3 DEF NoV

-----------------------------------------------------------------------------
(* Every step keeps the types. *)
LEMMA TypeStep == TypeOK /\ [Next]_vars => TypeOK'
<1> SUFFICES ASSUME TypeOK, [Next]_vars PROVE TypeOK'
  OBVIOUS
<1>0. \A s \in State : \A k : NewNS(s, k) \subseteq U \X V \X State
  BY DEF NewNS
<1>1. ASSUME NEW s \in State, Keep(s) PROVE TypeOK'
  <2> DEFINE new == NewNS(s, UNum)
  <2>1. new \subseteq U \X V \X State
    BY <1>0
  <2>2. { e[3] : e \in new } \subseteq State
    BY <2>1
  <2>3. { <<s, e[1], e[2], e[3]>> : e \in tmpNS \cup new } \subseteq State \X U \X V \X State
    BY <2>1 DEF TypeOK
  <2> QED BY <1>1, <2>2, <2>3 DEF TypeOK, Keep, Unrecorded
<1>2. ASSUME NEW s \in State, NEW u \in U, Reject(s, u) PROVE TypeOK'
  BY <1>0, <1>2 DEF TypeOK, Reject
<1>3. ASSUME NEW ds \in State, DeleteOne(ds) PROVE TypeOK'
  <2>1. cut' \subseteq State /\ sRS' \subseteq State /\ rec' \subseteq State \X U \X V \X State
    BY <1>3 DEF TypeOK, DeleteOne, Erase, Emptied
  <2>2. vDelS' \subseteq State /\ vtmpDelS' \subseteq State
    BY <1>3, <2>1 DEF TypeOK, DeleteOne, Erase, Emptied
  <2> QED BY <1>3, <2>1, <2>2 DEF TypeOK, DeleteOne, Erase, Emptied
<1>4. CASE DeleteInit
  BY <1>4 DEF TypeOK, DeleteInit
<1>5. CASE NextRound
  BY <1>5 DEF TypeOK, NextRound
<1>6. CASE DeleteReturn
  BY <1>6 DEF TypeOK, DeleteReturn
<1>7. CASE Finish
  BY <1>7 DEF TypeOK, Finish
<1>8. CASE UNCHANGED vars
  BY <1>8 DEF TypeOK, vars
<1> QED BY <1>1, <1>2, <1>3, <1>4, <1>5, <1>6, <1>7, <1>8 DEF Next

LEMMA TypeInit == Init => TypeOK
BY StateAssumption, AutomataAssumption DEF Init, TypeOK

(* The variables of the procedure keep their types, for every family of      *)
(* automata.                                                                 *)
THEOREM TypeCorrect == Spec => []TypeOK
BY TypeInit, TypeStep, PTL DEF Spec

-----------------------------------------------------------------------------
LEMMA ExploredInit == Init => Explored
<1> SUFFICES ASSUME Init PROVE Explored
  OBVIOUS
<1>1. TypeOK
  BY TypeInit
<1>2. Start /\ Apart /\ Deleting
  BY DEF Init, Start, Apart, Deleting, Pending
<1>3. MovesClosed
  BY DEF Init, MovesClosed
<1> QED BY <1>1, <1>2, <1>3 DEF Explored

(* What Keep adds to the worklist: states that are neither deleted nor       *)
(* recorded.                                                                 *)
LEMMA KeptSuccessors ==
  ASSUME TypeOK, NEW s \in State, Keep(s)
  PROVE  /\ sCS' \subseteq (sCS \ {s}) \cup (State \ (sRS' \cup cut))
         /\ \A u \in U, v \in V :
              Accepted(ba, cut, s, u, v) => Succ(ba, s, u, v) \subseteq sRS' \cup sCS'
<1> DEFINE new == NewNS(s, UNum)
           tmpCS == { e[3] : e \in new }
<1>1. sCS' = (sCS \ {s}) \cup (tmpCS \ sRS')
  BY DEF Keep, Unrecorded
<1>2. tmpCS \subseteq State \ cut
  BY DEF NewNS, Accepted
<1>3. ASSUME NEW u \in U, NEW v \in V, Accepted(ba, cut, s, u, v)
      PROVE  Succ(ba, s, u, v) \subseteq tmpCS
  <2> SUFFICES ASSUME NEW t \in Succ(ba, s, u, v) PROVE t \in tmpCS
    OBVIOUS
  <2>1. u < UNum
    BY InputAssumption DEF U
  <2>2. t \in State
    BY SuccType DEF TypeOK
  <2>3. <<u, v, t>> \in new
    BY <1>3, <2>1, <2>2 DEF NewNS
  <2> QED BY <2>3
<1> QED BY <1>1, <1>2, <1>3

(* While a deletion is under way initS is not in the worklist, unless it is  *)
(* the state to be deleted.                                                  *)
LEMMA NotInitial ==
  ASSUME Start, Deleting, pc = "delete", NEW ds \in vtmpDelS, ds # initS
  PROVE  initS \notin sCS
BY DEF Start, Deleting, Pending

LEMMA ExploredStep == Explored /\ [Next]_vars => Explored'
<1> SUFFICES ASSUME Explored, [Next]_vars PROVE Explored'
  OBVIOUS
<1>t. TypeOK /\ TypeOK'
  BY TypeStep DEF Explored
<1>p. Start /\ Apart /\ Deleting /\ MovesClosed
  BY DEF Explored
<1>1. ASSUME NEW s \in State, Keep(s) PROVE Explored'
  <2>1. sRS' = sRS \cup {s} /\ pc = "expand" /\ s \in sCS
    BY <1>1 DEF Keep, Unrecorded
  <2>2. UNCHANGED <<ba, cut, pc, vDelS, vtmpDelS>>
    BY <1>1 DEF Keep, Unrecorded
  <2>3. sCS' \subseteq (sCS \ {s}) \cup (State \ (sRS' \cup cut))
    BY <1>1, <1>t, KeptSuccessors
  <2>4. s \notin cut
    BY <1>p, <2>1 DEF Apart
  <2>5. initS \notin sCS'
    BY <1>p, <2>1, <2>3 DEF Start
  <2>6. Start'
    BY <1>p, <2>1, <2>5 DEF Start
  <2>7. Apart'
    BY <1>p, <2>1, <2>2, <2>3, <2>4 DEF Apart
  <2>8. Deleting'
    BY <1>p, <2>1, <2>2 DEF Deleting, Pending
  <2>9. MovesClosed'
    <3> SUFFICES ASSUME NEW r \in (sRS \ sCS)', NEW u \in U, NEW v \in V,
                        Accepted(ba, cut, r, u, v)
                 PROVE  Succ(ba, r, u, v) \subseteq (sRS \cup sCS)'
      BY <2>2 DEF MovesClosed
    <3>1. CASE r = s
      BY <1>1, <1>t, <3>1, KeptSuccessors
    <3>2. CASE r # s
      <4>1. r \in sRS
        BY <2>1, <3>2
      <4>2. r \notin sCS
        BY <1>p, <2>1, <3>2, <4>1 DEF Start, Apart
      <4>3. Succ(ba, r, u, v) \subseteq sRS \cup sCS
        BY <1>p, <4>1, <4>2 DEF MovesClosed
      <4>4. sRS \cup sCS \subseteq sRS' \cup sCS'
        BY <1>1 DEF Keep, Unrecorded
      <4> QED BY <4>3, <4>4
    <3> QED BY <3>1, <3>2
  <2> QED BY <1>t, <2>6, <2>7, <2>8, <2>9 DEF Explored
<1>2. ASSUME NEW s \in State, NEW u \in U, Reject(s, u) PROVE Explored'
  <2>1. Start'
    BY <1>2, <1>p DEF Reject, Start
  <2>2. Apart' /\ Deleting'
    BY <1>2, <1>p DEF Reject, Apart, Deleting, Pending
  <2>3. MovesClosed'
    BY <1>2, <1>p DEF Reject, MovesClosed
  <2> QED BY <1>t, <2>1, <2>2, <2>3 DEF Explored
<1>3. ASSUME NEW ds \in State, DeleteOne(ds) PROVE Explored'
  <2>1. /\ pc = "delete" /\ ds \in vtmpDelS /\ ds # initS
        /\ cut' = cut \cup {ds} /\ sRS' = sRS \ {ds} /\ vtmpDelS' = vtmpDelS \ {ds}
        /\ UNCHANGED <<ba, pc, cs, sCS>>
    BY <1>3 DEF DeleteOne, Erase, Emptied
  <2>2. vDelS' \subseteq vDelS \cup sRS'
    BY <1>3 DEF DeleteOne, Erase, Emptied
  <2>3. initS \notin sCS
    BY <1>p, <2>1, NotInitial
  <2>4. Start'
    BY <1>p, <2>1, <2>3 DEF Start
  <2>5. ds \in sCS => ds = cs
    BY <1>p, <2>1, <2>3 DEF Apart, Deleting, Pending
  <2>6. Apart'
    BY <1>p, <2>1, <2>5 DEF Apart
  <2>7. Deleting'
    BY <1>p, <2>1, <2>2 DEF Deleting, Pending
  <2>8. MovesClosed'
    <3> SUFFICES ASSUME NEW r \in sRS \ sCS, r # ds, NEW u \in U, NEW v \in V,
                        Accepted(ba, cut', r, u, v)
                 PROVE  Succ(ba, r, u, v) \subseteq (sRS \ {ds}) \cup sCS
      BY <2>1 DEF MovesClosed
    <3>1. Accepted(ba, cut, r, u, v) /\ ds \notin Succ(ba, r, u, v)
      BY <2>1, CutMore
    <3>2. Succ(ba, r, u, v) \subseteq sRS \cup sCS
      BY <1>p, <3>1 DEF MovesClosed
    <3> QED BY <3>1, <3>2
  <2> QED BY <1>t, <2>4, <2>6, <2>7, <2>8 DEF Explored
<1>4. CASE DeleteInit
  <2>1. Start' /\ Apart' /\ Deleting'
    BY <1>4, <1>p DEF DeleteInit, Start, Apart, Deleting, Pending
  <2>2. MovesClosed'
    BY <1>4, <1>p DEF DeleteInit, MovesClosed
  <2> QED BY <1>t, <2>1, <2>2 DEF Explored
<1>5. CASE NextRound
  <2>1. Start' /\ Apart'
    BY <1>5, <1>p DEF NextRound, Start, Apart
  <2>2. Deleting'
    BY <1>5, <1>p DEF NextRound, Deleting, Pending
  <2>3. MovesClosed'
    BY <1>5, <1>p DEF NextRound, MovesClosed
  <2> QED BY <1>t, <2>1, <2>2, <2>3 DEF Explored
<1>6. CASE DeleteReturn
  <2>1. /\ pc = "delete" /\ vtmpDelS = {} /\ vDelS = {} /\ pc' = "expand"
        /\ sCS' = sCS \ {cs} /\ UNCHANGED <<ba, cut, cs, sRS, vDelS, vtmpDelS>>
    BY <1>6 DEF DeleteReturn
  <2>2. cs \in cut
    BY <1>p, <2>1 DEF Deleting
  <2>3. Start' /\ Apart' /\ Deleting'
    BY <1>p, <2>1, <2>2 DEF Start, Apart, Deleting, Pending
  <2>4. MovesClosed'
    <3> SUFFICES ASSUME NEW r \in sRS \ (sCS \ {cs}), NEW u \in U, NEW v \in V,
                        Accepted(ba, cut, r, u, v)
                 PROVE  Succ(ba, r, u, v) \subseteq sRS \cup (sCS \ {cs})
      BY <2>1 DEF MovesClosed
    <3>1. r \notin sCS
      BY <1>p, <2>2 DEF Apart
    <3>2. Succ(ba, r, u, v) \subseteq sRS \cup sCS
      BY <1>p, <3>1 DEF MovesClosed
    <3>3. cs \notin Succ(ba, r, u, v)
      BY <2>2 DEF Accepted
    <3> QED BY <3>2, <3>3
  <2> QED BY <1>t, <2>3, <2>4 DEF Explored
<1>7. CASE Finish
  <2>1. Start' /\ Apart' /\ Deleting'
    BY <1>7, <1>p DEF Finish, Start, Apart, Deleting, Pending
  <2>2. MovesClosed'
    BY <1>7, <1>p DEF Finish, MovesClosed
  <2> QED BY <1>t, <2>1, <2>2 DEF Explored
<1>8. CASE UNCHANGED vars
  <2>1. Start' /\ Apart' /\ Deleting'
    BY <1>8, <1>p DEF vars, Start, Apart, Deleting, Pending
  <2>2. MovesClosed'
    BY <1>8, <1>p DEF vars, MovesClosed
  <2> QED BY <1>t, <2>1, <2>2 DEF Explored
<1> QED BY <1>1, <1>2, <1>3, <1>4, <1>5, <1>6, <1>7, <1>8 DEF Next

(* A deleted state never comes back, and every move a recorded state has     *)
(* left leads to a recorded state or to one that waits: in every run.        *)
THEOREM ExploredSafe == Spec => [](DeletedStayOut /\ MovesClosed)
<1>1. Spec => []Explored
  BY ExploredInit, ExploredStep, PTL DEF Spec
<1>2. Explored => DeletedStayOut /\ MovesClosed
  BY DEF Explored, Apart, DeletedStayOut
<1> QED BY <1>1, <1>2, PTL

-----------------------------------------------------------------------------
LEMMA ExactInit == Init => Exact
BY DEF Init, Exact, RecordsExact, NoneForgotten, OnlyStuckDeleted, Pending

(* A step that leaves the circuit, the records and the states to be deleted  *)
(* alone disturbs nothing, provided the expanded states stay the same.       *)
LEMMA ExactSame ==
  ASSUME Exact, clean' => clean, UNCHANGED <<ba, cut, rec, sRS>>,
         (sRS \ sCS)' \subseteq sRS \ sCS, Pending' = Pending
  PROVE  Exact'
<1> SUFFICES ASSUME clean' PROVE Exact'
  BY DEF Exact
<1>1. RecordsExact' /\ NoneForgotten' /\ OnlyStuckDeleted'
  BY DEF Exact, RecordsExact, NoneForgotten, OnlyStuckDeleted
<1>2. (\A W \in SUBSET State : Progressive(ba, W) => W \cap cut = {})'
  BY DEF Exact
<1> QED BY <1>1, <1>2 DEF Exact

LEMMA ExactKeep ==
  ASSUME Explored, Exact, NEW s \in State, Keep(s)
  PROVE  Exact'
<1> SUFFICES ASSUME clean' PROVE Exact'
  BY DEF Exact
<1> DEFINE new == NewNS(s, UNum)
<1>1. /\ pc = "expand" /\ s \in sCS /\ sRS' = sRS \cup {s} /\ clean /\ tmpNS = {}
      /\ \A u \in U : ~ NoV(ba, cut, s, u)
      /\ rec' = { r \in rec : r[1] # s } \cup { <<s, e[1], e[2], e[3]>> : e \in tmpNS \cup new }
      /\ UNCHANGED <<ba, cut, vDelS, vtmpDelS>>
  BY DEF Keep, Unrecorded
<1>2. ASSUME NEW r \in (sRS \ sCS)', r # s PROVE r \in sRS \ sCS
  BY <1>1, <1>2 DEF Explored, Start, Apart
<1>3. RecordsExact /\ NoneForgotten /\ OnlyStuckDeleted
  BY <1>1 DEF Exact
<1>4. RecordsExact'
  <2> SUFFICES ASSUME NEW r \in (sRS \ sCS)', NEW u \in U, NEW v \in V, NEW t \in State
               PROVE  <<r, u, v, t>> \in rec' <=> Accepted(ba, cut, r, u, v) /\ t \in Succ(ba, r, u, v)
    BY <1>1 DEF RecordsExact
  <2>1. CASE r # s
    <3>1. <<r, u, v, t>> \in rec' <=> <<r, u, v, t>> \in rec
      BY <1>1, <2>1
    <3> QED BY <1>2, <1>3, <2>1, <3>1 DEF RecordsExact
  <2>2. CASE r = s
    <3>1. <<s, u, v, t>> \in rec' <=> <<u, v, t>> \in new
      <4>1. new \subseteq U \X V \X State
        BY DEF NewNS
      <4>2. <<s, u, v, t>> \in rec' <=> \E e \in new : <<s, u, v, t>> = <<s, e[1], e[2], e[3]>>
        BY <1>1
      <4>3. \A e \in new : <<s, u, v, t>> = <<s, e[1], e[2], e[3]>> => e = <<u, v, t>>
        BY <4>1
      <4> QED BY <4>2, <4>3
    <3>2. u < UNum
      BY InputAssumption DEF U
    <3>3. <<u, v, t>> \in new <=> Accepted(ba, cut, s, u, v) /\ t \in Succ(ba, s, u, v)
      BY <3>2 DEF NewNS
    <3> QED BY <2>2, <3>1, <3>3
  <2> QED BY <2>1, <2>2
<1>5. NoneForgotten'
  BY <1>1, <1>2, <1>3 DEF NoneForgotten, Pending, Stuck
<1>6. OnlyStuckDeleted'
  BY <1>1, <1>3 DEF OnlyStuckDeleted, Pending
<1>7. (\A W \in SUBSET State : Progressive(ba, W) => W \cap cut = {})'
  BY <1>1 DEF Exact
<1> QED BY <1>4, <1>5, <1>6, <1>7 DEF Exact

LEMMA ExactReject ==
  ASSUME Explored, Exact, NEW s \in State, NEW u \in U, Reject(s, u)
  PROVE  Exact'
<1> SUFFICES ASSUME clean' PROVE Exact'
  BY DEF Exact
<1>1. /\ pc = "expand" /\ s \in sCS /\ NoV(ba, cut, s, u) /\ clean
      /\ vtmpDelS' = {s} /\ vDelS' = {} /\ UNCHANGED <<ba, cut, sCS, sRS, rec>>
  BY DEF Reject
<1>2. RecordsExact /\ NoneForgotten /\ Pending = {}
  BY <1>1 DEF Exact, Explored, Deleting
<1>3. RecordsExact'
  BY <1>1, <1>2 DEF RecordsExact
<1>4. NoneForgotten'
  BY <1>1, <1>2 DEF NoneForgotten
<1>5. OnlyStuckDeleted'
  BY <1>1 DEF OnlyStuckDeleted, Pending, Stuck
<1>6. (\A W \in SUBSET State : Progressive(ba, W) => W \cap cut = {})'
  BY <1>1 DEF Exact
<1> QED BY <1>3, <1>4, <1>5, <1>6 DEF Exact

LEMMA ExactDeleteOne ==
  ASSUME Explored, Exact, NEW ds \in State, DeleteOne(ds)
  PROVE  Exact'
<1> SUFFICES ASSUME clean' PROVE Exact'
  BY DEF Exact
<1>1. /\ pc = "delete" /\ ds \in vtmpDelS /\ ds # initS /\ clean
      /\ cut' = cut \cup {ds} /\ sRS' = sRS \ {ds} /\ vtmpDelS' = vtmpDelS \ {ds}
      /\ rec' = { r \in rec : r[1] # ds /\ <<r[1], r[2], r[3]>> \notin Into(ds) }
      /\ vDelS' = vDelS \cup
           { s \in sRS' : \E u \in U :
               /\ \E v \in V : <<s, u, v>> \in Into(ds)
               /\ ~ \E v \in V, t \in State : <<s, u, v, t>> \in rec' }
      /\ UNCHANGED <<ba, sCS>>
  BY DEF DeleteOne, Erase, Emptied
<1>2. RecordsExact /\ NoneForgotten /\ OnlyStuckDeleted
  BY <1>1 DEF Exact
<1>3. sRS' \cap sCS' = {}
  BY <1>1, NotInitial DEF Explored, Start, Apart, Deleting
<1>s. sRS' \subseteq State /\ ba \in Circuit
  BY <1>1 DEF Explored, TypeOK
<1>4. RecordsExact'
  <2> SUFFICES ASSUME NEW s \in sRS', NEW u \in U, NEW v \in V, NEW t \in State
               PROVE  <<s, u, v, t>> \in rec' <=> Accepted(ba, cut', s, u, v) /\ t \in Succ(ba, s, u, v)
    BY <1>1 DEF RecordsExact
  <2>1. s \in sRS \ sCS /\ s # ds /\ s \in State
    BY <1>1, <1>3, <1>s
  <2>2. <<s, u, v, t>> \in rec' <=> <<s, u, v, t>> \in rec /\ <<s, u, v>> \notin Into(ds)
    BY <1>1, <2>1
  <2>3. <<s, u, v>> \in Into(ds) <=> <<s, u, v, ds>> \in rec
    BY <2>1 DEF Into
  <2>4. Accepted(ba, cut', s, u, v) <=> Accepted(ba, cut, s, u, v) /\ ds \notin Succ(ba, s, u, v)
    BY <1>1, CutMore
  <2> QED BY <1>2, <2>1, <2>2, <2>3, <2>4 DEF RecordsExact
<1>5. NoneForgotten'
  <2> SUFFICES ASSUME NEW s \in sRS', Stuck(ba, cut', s)
               PROVE  s \in Pending'
    BY <1>1 DEF NoneForgotten
  <2>1. s \in sRS \ sCS /\ s # ds /\ s \in State
    BY <1>1, <1>3, <1>s
  <2>2. CASE s \in Pending
    BY <1>1, <2>1, <2>2 DEF Pending
  <2>3. CASE ~ Stuck(ba, cut, s)
    <3>1. PICK u \in U : NoV(ba, cut', s, u)
      BY DEF Stuck
    <3>2. PICK v \in V : Accepted(ba, cut, s, u, v)
      BY <2>3 DEF Stuck, NoV
    <3>3. ds \in Succ(ba, s, u, v)
      BY <1>1, <3>1, <3>2, CutMore DEF NoV
    <3>4. <<s, u, v>> \in Into(ds)
      BY <1>2, <2>1, <3>2, <3>3 DEF RecordsExact, Into
    <3>5. ~ \E w \in V, t \in State : <<s, u, w, t>> \in rec'
      BY <1>4, <1>1, <1>3, <3>1 DEF RecordsExact, NoV
    <3>6. s \in vDelS'
      BY <1>1, <3>4, <3>5
    <3> QED BY <3>6 DEF Pending
  <2> QED BY <1>2, <2>1, <2>2, <2>3 DEF NoneForgotten
<1>6. OnlyStuckDeleted'
  <2> SUFFICES ASSUME NEW s \in Pending' PROVE Stuck(ba, cut', s)
    BY <1>1 DEF OnlyStuckDeleted
  <2>1. CASE s \in Pending
    BY <1>1, <1>2, <2>1, StuckMore DEF OnlyStuckDeleted
  <2>2. CASE s \notin Pending
    <3>1. s \in sRS' /\ s \in State
      BY <1>1, <1>s, <2>2 DEF Pending
    <3>2. PICK u \in U : ~ \E v \in V, t \in State : <<s, u, v, t>> \in rec'
      BY <1>1, <2>2 DEF Pending
    <3>3. ASSUME NEW v \in V PROVE ~ Accepted(ba, cut', s, u, v)
      <4>1. PICK t \in State : t \in Succ(ba, s, u, v)
        BY <1>s, <3>1, SuccType
      <4>2. <<s, u, v, t>> \in rec' <=> Accepted(ba, cut', s, u, v)
        BY <1>1, <1>3, <1>4, <3>1, <4>1 DEF RecordsExact
      <4> QED BY <3>2, <4>2
    <3> QED BY <3>3 DEF Stuck, NoV
  <2> QED BY <2>1, <2>2
<1>7. (\A W \in SUBSET State : Progressive(ba, W) => W \cap cut = {})'
  <2> SUFFICES ASSUME NEW W \in SUBSET State, Progressive(ba, W)
               PROVE  W \cap (cut \cup {ds}) = {}
    BY <1>1
  <2>1. W \cap cut = {}
    BY <1>1 DEF Exact
  <2>2. Stuck(ba, cut, ds)
    BY <1>1, <1>2 DEF OnlyStuckDeleted, Pending
  <2>3. ds \notin W
    BY <2>1, <2>2, StuckIsOutside
  <2> QED BY <2>1, <2>3
<1> QED BY <1>4, <1>5, <1>6, <1>7 DEF Exact

LEMMA ExactStep == Explored /\ Exact /\ [Next]_vars => Exact'
<1> SUFFICES ASSUME Explored, Exact, [Next]_vars PROVE Exact'
  OBVIOUS
<1>1. ASSUME NEW s \in State, Keep(s) PROVE Exact'
  BY <1>1, ExactKeep
<1>2. ASSUME NEW s \in State, NEW u \in U, Reject(s, u) PROVE Exact'
  BY <1>2, ExactReject
<1>3. ASSUME NEW ds \in State, DeleteOne(ds) PROVE Exact'
  BY <1>3, ExactDeleteOne
<1>4. CASE DeleteInit
  BY <1>4, ExactSame DEF DeleteInit, Pending
<1>5. CASE NextRound
  BY <1>5, ExactSame DEF NextRound, Pending
<1>6. CASE DeleteReturn
  <2>1. cs \in cut /\ cut \cap sRS = {}
    BY <1>6 DEF Explored, Apart, Deleting, DeleteReturn
  <2>2. (sRS \ sCS)' \subseteq sRS \ sCS
    BY <1>6, <2>1 DEF DeleteReturn
  <2> QED BY <1>6, <2>2, ExactSame DEF DeleteReturn, Pending
<1>7. CASE Finish
  BY <1>7, ExactSame DEF Finish, Pending
<1>8. CASE UNCHANGED vars
  BY <1>8, ExactSame DEF vars, Pending
<1> QED BY <1>1, <1>2, <1>3, <1>4, <1>5, <1>6, <1>7, <1>8 DEF Next

LEMMA IInvAlways == Spec => []IInv
<1>1. Init => IInv
  BY ExploredInit, ExactInit DEF IInv
<1>2. IInv /\ [Next]_vars => IInv'
  BY ExploredStep, ExactStep DEF IInv
<1> QED BY <1>1, <1>2, PTL DEF Spec

(* Without leftovers no state of an input progressive set is deleted: the    *)
(* procedure keeps the largest progressive sub-automaton.                    *)
THEOREM LargestKept == Spec => []CutJustified
<1>1. IInv => CutJustified
  BY DEF IInv, Exact, CutJustified
<1> QED BY <1>1, IInvAlways, PTL

(* Without leftovers the answer "constant 0" means that initS is in no       *)
(* progressive set.                                                          *)
THEOREM ConstZeroRight == Spec => []ConstZeroJustified
<1>1. IInv => ConstZeroJustified
  <2> SUFFICES ASSUME IInv, clean, pc = "const0",
                      NEW W \in SUBSET State, Progressive(ba, W), initS \in W
               PROVE  FALSE
    BY DEF ConstZeroJustified
  <2>1. Stuck(ba, cut, initS)
    BY DEF IInv, Explored, Deleting, Exact, OnlyStuckDeleted, Pending
  <2>2. W \cap cut = {}
    BY DEF IInv, Exact
  <2> QED BY <2>1, <2>2, StuckIsOutside
<1> QED BY <1>1, IInvAlways, PTL

(* With nothing waiting and nothing to be deleted the recorded states are    *)
(* progressive.                                                              *)
LEMMA SettledProgressive ==
  ASSUME IInv, clean, sCS = {}, Pending = {}
  PROVE  Progressive(ba, sRS)
<1> SUFFICES ASSUME NEW s \in sRS, NEW u \in U
             PROVE  \E v \in V : Move(ba, s, u, v) /\ Succ(ba, s, u, v) \subseteq sRS
  BY DEF Progressive
<1>1. ~ Stuck(ba, cut, s)
  BY DEF IInv, Exact, NoneForgotten
<1>2. PICK v \in V : Accepted(ba, cut, s, u, v)
  BY <1>1 DEF Stuck, NoV
<1>3. Succ(ba, s, u, v) \subseteq sRS
  BY <1>2 DEF IInv, Explored, MovesClosed
<1> QED BY <1>2, <1>3 DEF Accepted

LEMMA KeptProgressive == IInv /\ clean /\ pc = "done" => Progressive(ba, sRS)
BY SettledProgressive DEF IInv, Explored, Deleting

(* Without leftovers the kept states are input progressive and hold initS.   *)
THEOREM ResultRight == Spec => []ResultProgressive
<1>1. IInv => ResultProgressive
  BY KeptProgressive DEF ResultProgressive, IInv, Explored, Start
<1> QED BY <1>1, IInvAlways, PTL

-----------------------------------------------------------------------------
(* With one value of u, the loop over u breaks before anything of a rejected *)
(* state was recorded.                                                       *)
LEMMA OneUNoLeftovers == ASSUME UNum = 1 PROVE Spec => []NoLeftovers
<1>1. Init => NoLeftovers
  BY DEF Init, NoLeftovers
<1>2. NoLeftovers /\ [Next]_vars => NoLeftovers'
  <2> SUFFICES ASSUME NoLeftovers, [Next]_vars PROVE NoLeftovers'
    OBVIOUS
  <2>1. ASSUME NEW s \in State, NEW u \in U, Reject(s, u) PROVE NoLeftovers'
    <3>1. u = 0 /\ \A w \in U : ~ (w < u)
      BY DEF U
    <3>2. NewNS(s, u) = {}
      BY <3>1 DEF NewNS
    <3> QED BY <2>1, <3>2 DEF Reject, NoLeftovers
  <2>2. ASSUME NEW s \in State, Keep(s) PROVE NoLeftovers'
    BY <2>2 DEF Keep, Unrecorded, NoLeftovers
  <2>3. ASSUME NEW ds \in State, DeleteOne(ds) PROVE NoLeftovers'
    BY <2>3 DEF DeleteOne, Erase, Emptied, NoLeftovers
  <2>4. CASE DeleteInit \/ NextRound \/ DeleteReturn \/ Finish \/ UNCHANGED vars
    BY <2>4 DEF DeleteInit, NextRound, DeleteReturn, Finish, vars, NoLeftovers
  <2> QED BY <2>1, <2>2, <2>3, <2>4 DEF Next
<1> QED BY <1>1, <1>2, PTL DEF Spec

(* With one value of u, whatever the procedure returns is progressive.       *)
THEOREM OneUProgressive == ASSUME UNum = 1 PROVE Spec => []ResultAlwaysProgressive
<1>1. IInv /\ NoLeftovers => ResultAlwaysProgressive
  BY KeptProgressive DEF NoLeftovers, ResultAlwaysProgressive
<1> QED BY <1>1, IInvAlways, OneUNoLeftovers, PTL

(* The abstract specification reads the circuit with the same operators.     *)
LEMMA SameReading ==
  /\ \A a, D, s : Abs!Stuck(a, D, s) <=> Stuck(a, D, s)
  /\ \A a, W : Abs!Progressive(a, W) <=> Progressive(a, W)
<1>1. Abs!U = U /\ Abs!V = V
  BY DEF U, V, Abs!U, Abs!V
<1>2. \A a, s, u, v : Abs!Succ(a, s, u, v) = Succ(a, s, u, v)
  BY DEF Succ, Abs!Succ
<1>3. \A a, s, u, v : Abs!Move(a, s, u, v) <=> Move(a, s, u, v)
  BY DEF Move, Abs!Move
<1>4. \A a, D, s, u, v : Abs!Accepted(a, D, s, u, v) <=> Accepted(a, D, s, u, v)
  BY <1>2, <1>3 DEF Accepted, Abs!Accepted
<1>5. \A a, D, s, u : Abs!NoV(a, D, s, u) <=> NoV(a, D, s, u)
  BY <1>1, <1>4 DEF NoV, Abs!NoV
<1>6. \A a, D, s : Abs!Stuck(a, D, s) <=> Stuck(a, D, s)
  BY <1>1, <1>5 DEF Stuck, Abs!Stuck
<1>7. \A a, W : Abs!Progressive(a, W) <=> Progressive(a, W)
  BY <1>1, <1>2, <1>3 DEF Progressive, Abs!Progressive
<1> QED BY <1>6, <1>7

LEMMA AbstractInit == Init => Abs!AbsInit
BY DEF Init, Abs!AbsInit

LEMMA AbstractStep ==
  ASSUME IInv, NoLeftovers, [Next]_vars
  PROVE  [Abs!AbsNext]_(Abs!absVars)
<1>c. clean
  BY DEF NoLeftovers
<1>t. TypeOK
  BY DEF IInv, Explored
<1>1. ASSUME NEW s \in State, Keep(s) PROVE UNCHANGED Abs!absVars
  BY <1>1 DEF Keep, Unrecorded, Abs!absVars
<1>2. ASSUME NEW s \in State, NEW u \in U, Reject(s, u) PROVE UNCHANGED Abs!absVars
  BY <1>2 DEF Reject, Abs!absVars
<1>3. ASSUME NEW ds \in State, DeleteOne(ds) PROVE Abs!AbsNext
  <2>1. Stuck(ba, cut, ds)
    BY <1>c, <1>3 DEF IInv, Exact, OnlyStuckDeleted, Pending, DeleteOne, Erase, Emptied
  <2>2. Abs!Cut({ds})
    BY <1>3, <2>1, SameReading DEF DeleteOne, Erase, Emptied, Abs!Cut
  <2> QED BY <2>2 DEF Abs!AbsNext
<1>4. ASSUME DeleteInit PROVE Abs!AbsNext
  <2>1. Stuck(ba, cut, initS)
    BY <1>c, <1>4 DEF IInv, Exact, OnlyStuckDeleted, Pending, DeleteInit
  <2>2. Abs!Empty
    BY <1>4, <2>1, SameReading DEF DeleteInit, Abs!Empty
  <2> QED BY <2>2 DEF Abs!AbsNext
<1>5. ASSUME NextRound \/ DeleteReturn PROVE UNCHANGED Abs!absVars
  BY <1>5 DEF NextRound, DeleteReturn, Abs!absVars
<1>6. ASSUME Finish PROVE Abs!AbsNext
  <2>1. pc = "expand" /\ pc' = "done" /\ sCS = {} /\ UNCHANGED <<ba, cut>>
    BY <1>6 DEF Finish
  <2>2. Pending = {}
    BY <2>1 DEF IInv, Explored, Deleting
  <2>3. Progressive(ba, sRS)
    BY <1>c, <2>1, <2>2, SettledProgressive
  <2>4. initS \in sRS /\ sRS \cap cut = {} /\ sRS \in SUBSET State
    BY <1>t DEF IInv, Explored, Start, Apart, TypeOK
  <2>5. Abs!Return
    BY <2>1, <2>3, <2>4, SameReading DEF Abs!Return
  <2> QED BY <2>5 DEF Abs!AbsNext
<1> QED BY <1>1, <1>2, <1>3, <1>4, <1>5, <1>6 DEF Next, vars, Abs!absVars

(* With one value of u the procedure does nothing but cut stuck states, and  *)
(* returns what the abstract specification allows.                           *)
THEOREM OneUImplements == ASSUME UNum = 1 PROVE Spec => Implements
<1>1. IInv /\ NoLeftovers /\ [Next]_vars => [Abs!AbsNext]_(Abs!absVars)
  BY AbstractStep
<1> QED BY <1>1, AbstractInit, IInvAlways, OneUNoLeftovers, PTL
        DEF Spec, Implements, Abs!AbsSpec

-----------------------------------------------------------------------------
(* The abstract specification itself: a state of a progressive set that      *)
(* avoids the cut is not stuck.                                              *)
LEMMA NotStuck ==
  ASSUME NEW W, Progressive(ba, W), W \cap cut = {}, NEW s \in W
  PROVE  ~ Stuck(ba, cut, s)
<1> SUFFICES ASSUME NEW u \in U, NoV(ba, cut, s, u) PROVE FALSE
  BY DEF Stuck
<1>1. PICK v \in V : Move(ba, s, u, v) /\ Succ(ba, s, u, v) \subseteq W
  BY DEF Progressive
<1>2. Accepted(ba, cut, s, u, v)
  BY <1>1 DEF Accepted
<1> QED BY <1>2 DEF NoV

AbsInv == Abs!LargestSurvives /\ Abs!EmptyIsRight

(* No state of a progressive set is ever cut, whatever is cut in whatever    *)
(* order, and the empty answer is given only when no progressive set holds   *)
(* the initial state.                                                        *)
THEOREM AbstractIsRight == Abs!AbsSpec => []AbsInv
<1> USE DEF AbsInv
<1>1. Abs!AbsInit => AbsInv
  BY DEF Abs!AbsInit, Abs!LargestSurvives, Abs!EmptyIsRight
<1>2. AbsInv /\ [Abs!AbsNext]_(Abs!absVars) => AbsInv'
  <2> SUFFICES ASSUME AbsInv, [Abs!AbsNext]_(Abs!absVars) PROVE AbsInv'
    OBVIOUS
  <2>1. ASSUME NEW D \in SUBSET State, Abs!Cut(D) PROVE AbsInv'
    <3>1. Abs!LargestSurvives'
      BY <2>1, NotStuck, SameReading DEF Abs!LargestSurvives, Abs!Cut
    <3>2. Abs!EmptyIsRight'
      BY <2>1 DEF Abs!EmptyIsRight, Abs!Cut
    <3> QED BY <3>1, <3>2
  <2>2. CASE Abs!Empty
    <3>1. Abs!LargestSurvives'
      BY <2>2 DEF Abs!LargestSurvives, Abs!Empty
    <3>2. Abs!EmptyIsRight'
      BY <2>2, NotStuck, SameReading DEF Abs!LargestSurvives, Abs!EmptyIsRight, Abs!Empty
    <3> QED BY <3>1, <3>2
  <2>3. CASE Abs!Return
    BY <2>3 DEF Abs!LargestSurvives, Abs!EmptyIsRight, Abs!Return
  <2>4. CASE UNCHANGED Abs!absVars
    BY <2>4 DEF Abs!LargestSurvives, Abs!EmptyIsRight, Abs!absVars
  <2> QED BY <2>1, <2>2, <2>3, <2>4 DEF Abs!AbsNext
<1> QED BY <1>1, <1>2, PTL DEF Abs!AbsSpec

(* With one value of u the procedure therefore answers `empty' only rightly. *)
THEOREM OneUIsRight == ASSUME UNum = 1 PROVE Spec => []AbsInv
BY OneUImplements, AbstractIsRight, PTL DEF Implements
=============================================================================
