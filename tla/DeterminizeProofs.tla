-------------------------- MODULE DeterminizeProofs -------------------------
(***************************************************************************)
(* Determinize for every finite set of states and every family of          *)
(* automata.  The invariant follows the worklist: edges, sF0 and sNF0 hold *)
(* exactly what the simulations done so far have shown, and everything     *)
(* those simulations reached has a number.                                 *)
(***************************************************************************)
EXTENDS Determinize, TLAPS, FiniteSetTheorems

(* The inputs under which s has been simulated.                              *)
Simulated(s, j) ==
  /\ s \in DOMAIN m
  /\ s \in sCS => pc = "simulate" /\ s = cs /\ j < i

Worklists ==
  /\ sCS \subseteq DOMAIN m
  /\ pc = "simulate" => cs \in sCS
  /\ pc = "run" => sCS = {}

Started == initS \in DOMAIN m /\ m[initS] = 0

ReachedNumbered ==
  \A s \in State, j \in J : Simulated(s, j) => Succ(s, j) \subseteq DOMAIN m

EdgesKnown ==
  \A x \in (0 .. id - 1) \X J \X (0 .. id - 1) :
    x \in edges <=>
      \E s \in State, t \in State :
        /\ Simulated(s, x[2]) /\ t \in Succ(s, x[2])
        /\ x[1] = m[s] /\ x[3] = m[t]

(* The states entered by an accepted, by a rejected step.                    *)
ByF0(s, j) == SuccBy(s, j, TRUE)

ByNotF0(s, j) == SuccBy(s, j, FALSE)

F0Known ==
  /\ \A d \in 0 .. id - 1 : d \in sF0 <=>
       \E s \in State, j \in J, t \in State :
         Simulated(s, j) /\ t \in ByF0(s, j) /\ d = m[t]
  /\ \A d \in 0 .. id - 1 : d \in sNF0 <=>
       \E s \in State, j \in J, t \in State :
         Simulated(s, j) /\ t \in ByNotF0(s, j) /\ d = m[t]

Running ==
  /\ branches # {} /\ branches \subseteq DOMAIN m
  /\ latches = NumbersOf(m, branches)

MType == m \in [DOMAIN m -> 0 .. id - 1]

IInv ==
  /\ TypeOK /\ MType /\ Numbered /\ Worklists /\ Started
  /\ ReachedNumbered /\ EdgesKnown /\ F0Known /\ Running

-----------------------------------------------------------------------------
LEMMA SuccType ==
  ASSUME ba \in Circuit, NEW s \in State, NEW j \in J
  PROVE  /\ Succ(s, j) \subseteq State /\ Succ(s, j) # {}
         /\ Succ(s, j) = ByF0(s, j) \cup ByNotF0(s, j)
<1>1. \A n \in N : ba[s, j, n] \in [f0 : BOOLEAN, next : State]
  BY DEF Circuit
<1>2. N # {}
  BY InputAssumption
<1> QED BY <1>1, <1>2 DEF Succ, SuccBy, ByF0, ByNotF0

(* One state entered by an accepted step is never entered by a rejected one. *)
LEMMA SuccDisjoint ==
  ASSUME ba \in Circuit, LatchedF0(ba),
         NEW s \in State, NEW r \in State, NEW j \in J, NEW k \in J,
         NEW t \in ByF0(s, j)
  PROVE  t \notin ByNotF0(r, k)
<1> SUFFICES ASSUME t \in ByNotF0(r, k) PROVE FALSE
  OBVIOUS
<1>1. PICK n \in N : t = ba[<<s, j, n>>].next /\ ba[<<s, j, n>>].f0 = TRUE
  BY DEF SuccBy, ByF0
<1>2. PICK o \in N : t = ba[<<r, k, o>>].next /\ ba[<<r, k, o>>].f0 = FALSE
  BY DEF SuccBy, ByNotF0
<1>3. <<s, j, n>> \in State \X J \X N /\ <<r, k, o>> \in State \X J \X N
  OBVIOUS
<1> QED BY <1>1, <1>2, <1>3 DEF LatchedF0

(* The loop begins with the initial state as number 0.                       *)
LEMMA InvInit == Init => IInv
<1> SUFFICES ASSUME Init PROVE IInv
  OBVIOUS
<1> USE DEF Init, FirstId
<1>1. 0 \in J
  BY InputAssumption DEF J
<1>2. DOMAIN m = {initS} /\ m[initS] = 0 /\ id - 1 = 0 /\ 0 .. 0 = {0}
  OBVIOUS
<1>3. TypeOK
  BY <1>1, <1>2, AutomataAssumption, StateAssumption DEF TypeOK
<1>4. MType /\ Numbered /\ Worklists /\ Started
  BY <1>2 DEF MType, Numbered, NumbersOf, Worklists, Started
<1>5. \A s, j : ~ Simulated(s, j)
  BY <1>2 DEF Simulated
<1>6. ReachedNumbered /\ EdgesKnown /\ F0Known
  BY <1>5 DEF ReachedNumbered, EdgesKnown, F0Known
<1>7. Running
  BY <1>2 DEF Running, NumbersOf
<1> QED BY <1>3, <1>4, <1>6, <1>7 DEF IInv

(* The successors depend on the circuit alone, which never changes.          *)
LEMMA SuccSame ==
  ASSUME ba' = ba
  PROVE  /\ \A s, j : Succ(s, j)' = Succ(s, j)
         /\ \A s, j : ByF0(s, j)' = ByF0(s, j)
         /\ \A s, j : ByNotF0(s, j)' = ByNotF0(s, j)
BY DEF Succ, SuccBy, ByF0, ByNotF0

(* A step that leaves m, id, edges, sF0 and sNF0 alone and simulates nothing *)
(* leaves what is known about the simulations true.                          *)
LEMMA NothingSimulated ==
  ASSUME IInv, UNCHANGED <<ba, m, id, edges, sF0, sNF0>>,
         \A s \in State, j \in J : Simulated(s, j)' <=> Simulated(s, j)
  PROVE  /\ MType' /\ Numbered' /\ Started'
         /\ ReachedNumbered' /\ EdgesKnown' /\ F0Known'
<1>1. /\ \A s, j : Succ(s, j)' = Succ(s, j)
      /\ \A s, j : ByF0(s, j)' = ByF0(s, j)
      /\ \A s, j : ByNotF0(s, j)' = ByNotF0(s, j)
  BY SuccSame
<1>2. MType' /\ Numbered' /\ Started'
  BY DEF IInv, MType, Numbered, NumbersOf, Started
<1>3. ReachedNumbered'
  BY <1>1 DEF IInv, ReachedNumbered
<1>4. EdgesKnown'
  <2> SUFFICES ASSUME NEW x \in (0 .. id - 1) \X J \X (0 .. id - 1)
               PROVE  x \in edges <=>
                        \E s \in State, t \in State :
                          /\ Simulated(s, x[2])' /\ t \in Succ(s, x[2])
                          /\ x[1] = m[s] /\ x[3] = m[t]
    BY <1>1 DEF EdgesKnown
  <2>1. x[2] \in J
    OBVIOUS
  <2> QED BY <2>1 DEF IInv, EdgesKnown
<1>5. F0Known'
  <2>1. ASSUME NEW d \in 0 .. id - 1
        PROVE  d \in sF0 <=>
                 \E s \in State, j \in J, t \in State :
                   Simulated(s, j)' /\ t \in ByF0(s, j) /\ d = m[t]
    BY DEF IInv, F0Known
  <2>2. ASSUME NEW d \in 0 .. id - 1
        PROVE  d \in sNF0 <=>
                 \E s \in State, j \in J, t \in State :
                   Simulated(s, j)' /\ t \in ByNotF0(s, j) /\ d = m[t]
    BY DEF IInv, F0Known
  <2> QED BY <1>1, <2>1, <2>2 DEF F0Known
<1> QED BY <1>2, <1>3, <1>4, <1>5

LEMMA ChooseStep == ASSUME IInv, NEW s \in State, Choose(s) PROVE IInv'
<1> USE DEF Choose
<1>1. TypeOK'
  <2>1. 0 \in J
    BY InputAssumption DEF J
  <2> QED BY <2>1 DEF IInv, TypeOK, LatchedF0
<1>2. Worklists' /\ Running'
  BY DEF IInv, Worklists, Running, NumbersOf
<1>3. \A r \in State, j \in J : Simulated(r, j)' <=> Simulated(r, j)
  BY DEF Simulated, J
<1> QED BY <1>1, <1>2, <1>3, NothingSimulated DEF IInv

LEMMA WriteStep == ASSUME IInv, Write PROVE IInv'
<1> USE DEF Write
<1>1. TypeOK'
  BY DEF IInv, TypeOK, LatchedF0
<1>2. Worklists' /\ Running'
  BY DEF IInv, Worklists, Running, NumbersOf
<1>3. \A r \in State, j \in J : Simulated(r, j)' <=> Simulated(r, j)
  BY DEF Simulated
<1> QED BY <1>1, <1>2, <1>3, NothingSimulated DEF IInv

(* A clock cycle: the latches are set to the numbers of the next branches.   *)
LEMMA ClockStep == ASSUME IInv, NEW j \in J, Clock(j) PROVE IInv'
<1> USE DEF Clock
<1>1. \A r \in State, k \in J : Simulated(r, k)' <=> Simulated(r, k)
  BY DEF Simulated
<1>2. \A r \in DOMAIN m : r \in State /\ Simulated(r, j) /\ Succ(r, j) \subseteq DOMAIN m
  BY DEF IInv, TypeOK, Worklists, Simulated, ReachedNumbered
<1>3. branches \subseteq DOMAIN m /\ branches # {} /\ latches = NumbersOf(m, branches)
  BY DEF IInv, Running
<1>4. branches' \subseteq DOMAIN m /\ branches' # {}
  <2>1. PICK s \in branches : TRUE
    BY <1>3
  <2>2. Succ(s, j) # {}
    BY <1>2, <1>3, <2>1, SuccType DEF IInv, TypeOK
  <2> QED BY <1>2, <1>3, <2>1, <2>2
<1>5. NextLatches(j) = NumbersOf(m, branches')
  <2>1. ASSUME NEW d \in NextLatches(j) PROVE d \in NumbersOf(m, branches')
    <3>1. d \in 0 .. id - 1 /\ \E n \in latches : <<n, j, d>> \in edges
      BY <2>1 DEF NextLatches
    <3>2. PICK b \in branches : <<m[b], j, d>> \in edges
      BY <3>1, <1>3 DEF NumbersOf
    <3>3. m[b] \in 0 .. id - 1
      BY <1>3, <3>2 DEF IInv, MType
    <3>4. PICK s \in State, t \in State :
            Simulated(s, j) /\ t \in Succ(s, j) /\ m[b] = m[s] /\ d = m[t]
      BY <3>1, <3>2, <3>3 DEF IInv, EdgesKnown
    <3>5. s = b
      BY <1>3, <3>2, <3>4 DEF IInv, Numbered, Simulated
    <3> QED BY <3>4, <3>5 DEF NumbersOf
  <2>2. ASSUME NEW d \in NumbersOf(m, branches') PROVE d \in NextLatches(j)
    <3>1. PICK t \in branches' : d = m[t]
      BY <2>2 DEF NumbersOf
    <3>2. PICK s \in branches : t \in Succ(s, j)
      BY <3>1
    <3>3. s \in DOMAIN m /\ t \in DOMAIN m /\ s \in State /\ t \in State /\ Simulated(s, j)
      BY <1>2, <1>3, <3>2 DEF IInv, TypeOK
    <3>4. m[s] \in 0 .. id - 1 /\ d \in 0 .. id - 1
      BY <3>1, <3>3 DEF IInv, MType
    <3>5. <<m[s], j, d>> \in edges
      <4> DEFINE x == <<m[s], j, d>>
      <4>1. x \in (0 .. id - 1) \X J \X (0 .. id - 1) /\ x[1] = m[s] /\ x[2] = j /\ x[3] = d
        BY <3>4
      <4>2. \E p \in State, q \in State :
              Simulated(p, x[2]) /\ q \in Succ(p, x[2]) /\ x[1] = m[p] /\ x[3] = m[q]
        BY <3>1, <3>2, <3>3, <4>1
      <4> QED BY <4>1, <4>2 DEF IInv, EdgesKnown
    <3>6. m[s] \in latches
      BY <1>3, <3>2 DEF NumbersOf
    <3> QED BY <3>4, <3>5, <3>6 DEF NextLatches
  <2> QED BY <2>1, <2>2
<1>6. Running'
  BY <1>4, <1>5 DEF Running, NumbersOf
<1>7. TypeOK'
  <2>1. latches' \subseteq 0 .. id - 1
    BY DEF NextLatches
  <2>2. branches' \subseteq State
    BY <1>2, <1>4
  <2> QED BY <2>1, <2>2 DEF IInv, TypeOK, LatchedF0
<1>8. Worklists'
  BY DEF IInv, Worklists
<1> QED BY <1>1, <1>6, <1>7, <1>8, NothingSimulated DEF IInv

(* One simulation.  The new states take the next numbers, the old ones keep  *)
(* theirs, and the pair <<cs, i>> joins the simulated ones.                  *)
LEMMA SimulateStep == ASSUME IInv, Simulate PROVE IInv'
<1> DEFINE new == Succ(cs, i) \ DOMAIN m
<1>1. PICK f \in Numberings(new, id) :
        /\ m' = [s \in DOMAIN m \cup new |-> IF s \in new THEN f[s] ELSE m[s]]
        /\ id' = id + Cardinality(new)
        /\ sCS' = Worklist(sCS \cup new)
  BY DEF Simulate
<1>2. /\ pc = "simulate" /\ ba' = ba /\ cs' = cs /\ branches' = branches /\ latches' = latches
      /\ edges' = edges \cup { <<m[cs], i, d>> : d \in NumbersOf(m', Succ(cs, i)) }
      /\ sF0' = sF0 \cup NumbersOf(m', ByF0(cs, i))
      /\ sNF0' = sNF0 \cup NumbersOf(m', ByNotF0(cs, i))
      /\ IF LastInput THEN pc' = "choose" /\ i' = i ELSE i' = i + 1 /\ pc' = pc
  <2>1. Edges(m') = { <<m[cs], i, d>> : d \in NumbersOf(m', Succ(cs, i)) }
    BY DEF Edges, NumbersOf
  <2> QED BY <2>1 DEF Simulate, ByF0, ByNotF0
<1>3. /\ cs \in State /\ i \in J /\ id \in Nat /\ sCS \subseteq DOMAIN m
      /\ DOMAIN m \subseteq State /\ cs \in sCS /\ ba \in Circuit
      /\ PiNum \in Nat \ {0}
  BY <1>2, InputAssumption DEF IInv, TypeOK, Worklists
<1>4. /\ Succ(cs, i) \subseteq State /\ Succ(cs, i) = ByF0(cs, i) \cup ByNotF0(cs, i)
      /\ new \subseteq State
  BY <1>3, SuccType
<1>5. Cardinality(new) \in Nat
  BY <1>4, StateFinite, FS_Subset, FS_CardinalityType
<1> DEFINE c == Cardinality(new)
<1>6. /\ f \in [new -> id .. id + c - 1]
      /\ \A s, t \in new : f[s] = f[t] => s = t
      /\ \A k \in id .. id + c - 1 : \E s \in new : f[s] = k
  BY DEF Numberings
<1>7. /\ DOMAIN m' = DOMAIN m \cup new /\ DOMAIN m' \subseteq State
      /\ \A s \in DOMAIN m : m'[s] = m[s] /\ s \notin new
      /\ \A s \in new : m'[s] = f[s]
  BY <1>1, <1>3, <1>4
<1> HIDE DEF new, c
<1>8. id' \in Nat /\ id' = id + c /\ 0 .. id - 1 \subseteq 0 .. id' - 1
  BY <1>1, <1>3, <1>5 DEF c
<1>9. Numbered' /\ MType'
  <2>1. \A s \in DOMAIN m : m[s] \in 0 .. id - 1
    BY DEF IInv, MType
  <2>2. \A s \in new : f[s] \in id .. id + c - 1
    BY <1>6
  <2>3. \A s \in DOMAIN m' : m'[s] \in 0 .. id' - 1
    BY <2>1, <2>2, <1>3, <1>5, <1>7, <1>8 DEF c
  <2>4. MType'
    BY <2>3, <1>1, <1>7 DEF MType, new
  <2>5. \A s, t \in DOMAIN m' : m'[s] = m'[t] => s = t
    <3> SUFFICES ASSUME NEW s \in DOMAIN m', NEW t \in DOMAIN m', m'[s] = m'[t] PROVE s = t
      OBVIOUS
    <3>1. CASE s \in DOMAIN m /\ t \in DOMAIN m
      BY <3>1, <1>7 DEF IInv, Numbered
    <3>2. CASE s \in new /\ t \in new
      BY <3>2, <1>6, <1>7
    <3>3. CASE (s \in DOMAIN m /\ t \in new) \/ (s \in new /\ t \in DOMAIN m)
      BY <3>3, <2>1, <2>2, <1>3, <1>7
    <3> QED BY <3>1, <3>2, <3>3, <1>7
  <2>6. \A k \in 0 .. id' - 1 : \E s \in DOMAIN m' : m'[s] = k
    <3> TAKE k \in 0 .. id' - 1
    <3>1. CASE k < id
      <4>1. k \in NumbersOf(m, DOMAIN m)
        BY <3>1, <1>3, <1>8 DEF IInv, Numbered
      <4> QED BY <4>1, <1>7 DEF NumbersOf
    <3>2. CASE k >= id
      <4>1. k \in id .. id + c - 1
        BY <3>2, <1>3, <1>5, <1>8 DEF c
      <4> QED BY <4>1, <1>6, <1>7
    <3> QED BY <3>1, <3>2, <1>3, <1>8
  <2> QED BY <2>3, <2>4, <2>5, <2>6 DEF Numbered, NumbersOf
<1>10. \A s \in State, j \in J : Simulated(s, j)' <=> Simulated(s, j) \/ (s = cs /\ j = i)
  <2> SUFFICES ASSUME NEW s \in State, NEW j \in J
               PROVE  Simulated(s, j)' <=> Simulated(s, j) \/ (s = cs /\ j = i)
    OBVIOUS
  <2>1. j \in Nat /\ i \in Nat /\ j <= PiNum - 1 /\ i <= PiNum - 1
    BY <1>3 DEF J
  <2>2. CASE s = cs
    <3>1. Simulated(s, j) <=> j < i
      BY <2>2, <1>2, <1>3 DEF Simulated
    <3>2. Simulated(s, j)' <=> (j < i \/ j = i)
      BY <2>1, <2>2, <1>1, <1>2, <1>3, <1>7 DEF Simulated, Worklist, LastInput
    <3> QED BY <2>2, <3>1, <3>2
  <2>3. CASE s # cs
    <3>1. s \in sCS' <=> s \in sCS \/ s \in new
      BY <2>3, <1>1 DEF Worklist, LastInput
    <3> QED BY <2>3, <3>1, <1>2, <1>3, <1>7 DEF Simulated
  <2> QED BY <2>2, <2>3
<1>11. \A s, j : Succ(s, j)' = Succ(s, j) /\ ByF0(s, j)' = ByF0(s, j) /\ ByNotF0(s, j)' = ByNotF0(s, j)
  BY <1>2, SuccSame
<1>12. Succ(cs, i) \subseteq DOMAIN m'
  BY <1>7 DEF new
<1>13. ReachedNumbered'
  BY <1>7, <1>10, <1>11, <1>12 DEF IInv, ReachedNumbered
(* What the earlier simulations reached keeps its number.                    *)
<1>14. ASSUME NEW s \in State, NEW j \in J, Simulated(s, j)
       PROVE  /\ s \in DOMAIN m /\ m'[s] = m[s]
              /\ \A t \in Succ(s, j) : t \in DOMAIN m /\ m'[t] = m[t]
  BY <1>7, <1>14 DEF IInv, ReachedNumbered, Simulated
<1>15. EdgesKnown'
  <2>0. J' = J
    BY DEF J
  <2> SUFFICES ASSUME NEW x \in (0 .. id' - 1) \X J \X (0 .. id' - 1)
               PROVE  x \in edges' <=>
                        \E s \in State, t \in State :
                          /\ Simulated(s, x[2])' /\ t \in Succ(s, x[2])
                          /\ x[1] = m'[s] /\ x[3] = m'[t]
    BY <1>11, <2>0 DEF EdgesKnown
  <2>1. x[2] \in J /\ x = <<x[1], x[2], x[3]>>
    OBVIOUS
  <2>2. x \in edges <=>
          \E s \in State, t \in State :
            /\ Simulated(s, x[2]) /\ t \in Succ(s, x[2])
            /\ x[1] = m'[s] /\ x[3] = m'[t]
    <3>1. ASSUME x \in edges
          PROVE  \E s \in State, t \in State :
                   /\ Simulated(s, x[2]) /\ t \in Succ(s, x[2])
                   /\ x[1] = m'[s] /\ x[3] = m'[t]
      <4>1. x \in (0 .. id - 1) \X J \X (0 .. id - 1)
        BY <3>1 DEF IInv, TypeOK
      <4>2. PICK s \in State, t \in State :
              /\ Simulated(s, x[2]) /\ t \in Succ(s, x[2])
              /\ x[1] = m[s] /\ x[3] = m[t]
        BY <3>1, <4>1 DEF IInv, EdgesKnown
      <4> QED BY <4>2, <2>1, <1>14
    <3>2. ASSUME NEW s \in State, NEW t \in State,
                 Simulated(s, x[2]), t \in Succ(s, x[2]), x[1] = m'[s], x[3] = m'[t]
          PROVE  x \in edges
      <4>1. s \in DOMAIN m /\ t \in DOMAIN m /\ x[1] = m[s] /\ x[3] = m[t]
        BY <3>2, <2>1, <1>14
      <4>2. x \in (0 .. id - 1) \X J \X (0 .. id - 1)
        BY <4>1, <2>1 DEF IInv, MType
      <4> QED BY <3>2, <4>1, <4>2 DEF IInv, EdgesKnown
    <3> QED BY <3>1, <3>2
  <2>3. x \in { <<m[cs], i, d>> : d \in NumbersOf(m', Succ(cs, i)) } <=>
          \E t \in State : t \in Succ(cs, i) /\ x[1] = m'[cs] /\ x[2] = i /\ x[3] = m'[t]
    BY <2>1, <1>3, <1>4, <1>7 DEF NumbersOf
  <2> QED BY <2>1, <2>2, <2>3, <1>2, <1>3, <1>10
<1>16. F0Known'
  <2>1. ASSUME NEW d \in 0 .. id' - 1
        PROVE  d \in sF0' <=>
                 \E s \in State, j \in J, t \in State :
                   Simulated(s, j)' /\ t \in ByF0(s, j) /\ d = m'[t]
    <3>1. d \in sF0 <=>
            \E s \in State, j \in J, t \in State :
              Simulated(s, j) /\ t \in ByF0(s, j) /\ d = m'[t]
      <4>1. \A s \in State, j \in J, t \in State :
              Simulated(s, j) /\ t \in ByF0(s, j) =>
                t \in DOMAIN m /\ m'[t] = m[t] /\ m[t] \in 0 .. id - 1
        BY <1>3, <1>14, SuccType DEF IInv, MType
      <4>2. d \in sF0 => d \in 0 .. id - 1
        BY DEF IInv, TypeOK
      <4> QED BY <4>1, <4>2 DEF IInv, F0Known
    <3>2. d \in NumbersOf(m', ByF0(cs, i)) <=> \E t \in State : t \in ByF0(cs, i) /\ d = m'[t]
      BY <1>4 DEF NumbersOf
    <3> QED BY <3>1, <3>2, <1>2, <1>3, <1>10
  <2>2. ASSUME NEW d \in 0 .. id' - 1
        PROVE  d \in sNF0' <=>
                 \E s \in State, j \in J, t \in State :
                   Simulated(s, j)' /\ t \in ByNotF0(s, j) /\ d = m'[t]
    <3>1. d \in sNF0 <=>
            \E s \in State, j \in J, t \in State :
              Simulated(s, j) /\ t \in ByNotF0(s, j) /\ d = m'[t]
      <4>1. \A s \in State, j \in J, t \in State :
              Simulated(s, j) /\ t \in ByNotF0(s, j) =>
                t \in DOMAIN m /\ m'[t] = m[t] /\ m[t] \in 0 .. id - 1
        BY <1>3, <1>14, SuccType DEF IInv, MType
      <4>2. d \in sNF0 => d \in 0 .. id - 1
        BY DEF IInv, TypeOK
      <4> QED BY <4>1, <4>2 DEF IInv, F0Known
    <3>2. d \in NumbersOf(m', ByNotF0(cs, i)) <=> \E t \in State : t \in ByNotF0(cs, i) /\ d = m'[t]
      BY <1>4 DEF NumbersOf
    <3> QED BY <3>1, <3>2, <1>2, <1>3, <1>10
  <2> QED BY <1>11, <2>1, <2>2 DEF F0Known, J
<1>17. Running' /\ Started'
  BY <1>2, <1>7 DEF IInv, Running, Started, NumbersOf
<1>18. Worklists'
  <2>1. sCS' \subseteq DOMAIN m'
    BY <1>1, <1>3, <1>7 DEF Worklist
  <2>2. ~ LastInput => cs \in sCS'
    BY <1>1, <1>3 DEF Worklist
  <2> QED BY <2>1, <2>2, <1>2 DEF Worklists
<1>19. TypeOK'
  <2>1. NumbersOf(m', Succ(cs, i)) \subseteq 0 .. id' - 1
    BY <1>9, <1>12 DEF NumbersOf, MType
  <2>2. m[cs] \in 0 .. id' - 1
    BY <1>3, <1>8 DEF IInv, MType
  <2>3. edges' \subseteq (0 .. id' - 1) \X J \X (0 .. id' - 1)
    <3>1. edges \subseteq (0 .. id' - 1) \X J \X (0 .. id' - 1)
      BY <1>8 DEF IInv, TypeOK
    <3> QED BY <3>1, <2>1, <2>2, <1>2, <1>3
  <2>4. sF0' \subseteq 0 .. id' - 1 /\ sNF0' \subseteq 0 .. id' - 1
    BY <2>1, <1>2, <1>4, <1>8 DEF IInv, TypeOK, NumbersOf
  <2>5. i' \in J
    BY <1>2, <1>3 DEF J, LastInput
  <2>6. sCS' \subseteq State
    BY <1>7, <1>18 DEF Worklists
  <2>7. ba' \in Circuit /\ LatchedF0(ba)' /\ pc' \in {"choose", "simulate", "run"}
    BY <1>2 DEF IInv, TypeOK, LatchedF0
  <2>8. latches' \subseteq 0 .. id' - 1 /\ branches' \subseteq State
    BY <1>2, <1>8 DEF IInv, TypeOK
  <2> QED BY <2>3, <2>4, <2>5, <2>6, <2>7, <2>8, <1>2, <1>3, <1>7, <1>8, J' = J DEF TypeOK
<1> QED BY <1>9, <1>13, <1>15, <1>16, <1>17, <1>18, <1>19 DEF IInv

LEMMA InvStep == IInv /\ [Next]_vars => IInv'
<1> SUFFICES ASSUME IInv, [Next]_vars PROVE IInv'
  OBVIOUS
<1>1. CASE \E s \in State : Choose(s)
  BY <1>1, ChooseStep
<1>2. CASE Simulate
  BY <1>2, SimulateStep
<1>3. CASE Write
  BY <1>3, WriteStep
<1>4. CASE \E j \in J : Clock(j)
  BY <1>4, ClockStep
<1>5. CASE UNCHANGED vars
  <2> USE <1>5 DEF vars
  <2>1. TypeOK' /\ Worklists' /\ Running'
    BY DEF IInv, TypeOK, LatchedF0, Worklists, Running, NumbersOf
  <2>2. \A r \in State, j \in J : Simulated(r, j)' <=> Simulated(r, j)
    BY DEF Simulated
  <2> QED BY <2>1, <2>2, NothingSimulated DEF IInv
<1> QED BY <1>1, <1>2, <1>3, <1>4, <1>5 DEF Next

LEMMA Invariance == Spec => []IInv
BY InvInit, InvStep, PTL DEF Spec

-----------------------------------------------------------------------------
(* Once the network is written, every state met has been simulated under     *)
(* every input.                                                              *)
LEMMA AllSimulated ==
  ASSUME IInv, pc = "run"
  PROVE  \A s \in DOMAIN m, j \in J :
           /\ s \in State /\ Simulated(s, j) /\ Succ(s, j) \subseteq DOMAIN m
BY DEF IInv, TypeOK, Worklists, Simulated, ReachedNumbered

(* The edges are those of the states met.                                    *)
LEMMA EdgesWhenWritten == IInv => EdgesExact
<1> SUFFICES ASSUME IInv, pc = "run"
             PROVE  edges = UNION { EdgesOf(s, j) : s \in DOMAIN m, j \in J }
  BY DEF EdgesExact
<1>1. ASSUME NEW x \in edges
      PROVE  \E s \in DOMAIN m, j \in J : x \in EdgesOf(s, j)
  <2>1. x \in (0 .. id - 1) \X J \X (0 .. id - 1)
    BY DEF IInv, TypeOK
  <2>2. x[2] \in J /\ x = <<x[1], x[2], x[3]>>
    BY <2>1
  <2>3. PICK s \in State, t \in State :
          Simulated(s, x[2]) /\ t \in Succ(s, x[2]) /\ x[1] = m[s] /\ x[3] = m[t]
    BY <2>1 DEF IInv, EdgesKnown
  <2> QED BY <2>2, <2>3 DEF Simulated, EdgesOf
<1>2. ASSUME NEW s \in DOMAIN m, NEW j \in J, NEW x \in EdgesOf(s, j)
      PROVE  x \in edges
  <2>0. PICK t \in Succ(s, j) : x = <<m[s], j, m[t]>>
    BY DEF EdgesOf
  <2>1. s \in State /\ t \in State /\ t \in DOMAIN m /\ Simulated(s, j)
    BY AllSimulated DEF IInv, TypeOK
  <2>2. x \in (0 .. id - 1) \X J \X (0 .. id - 1) /\ x[1] = m[s] /\ x[2] = j /\ x[3] = m[t]
    BY <2>0, <2>1 DEF IInv, MType
  <2>3. \E p \in State, q \in State :
          Simulated(p, x[2]) /\ q \in Succ(p, x[2]) /\ x[1] = m[p] /\ x[3] = m[q]
    BY <2>1, <2>2
  <2> QED BY <2>2, <2>3 DEF IInv, EdgesKnown
<1> QED BY <1>1, <1>2

(* f0 of the network speaks for every branch.                                *)
LEMMA F0ForAll == IInv => AcceptsForAllBranches
<1> SUFFICES ASSUME IInv, pc = "run", NEW j \in J
             PROVE  F0(j) <=> \A s \in branches, n \in N : ba[<<s, j, n>>].f0
  <2> SUFFICES ASSUME IInv, pc = "run", NEW j \in J
               PROVE  F0(j) <=> \A s \in branches, n \in N : ba[s, j, n].f0
    BY DEF AcceptsForAllBranches
  <2> QED BY Zenon
<1>1. \A s \in branches : s \in DOMAIN m /\ s \in State /\ Succ(s, j) \subseteq DOMAIN m
  BY AllSimulated DEF IInv, Running
<1>2. \A d : d \in NextLatches(j) <=> \E s \in branches : \E t \in Succ(s, j) : d = m[t]
  <2>1. \A d : d \in NextLatches(j) <=>
          d \in 0 .. id - 1 /\ \E s \in branches : <<m[s], j, d>> \in edges
    BY DEF NextLatches, IInv, Running, NumbersOf
  <2>2. ASSUME NEW d, NEW s \in branches, <<m[s], j, d>> \in edges
        PROVE  \E t \in Succ(s, j) : d = m[t]
    <3>0. PICK r \in DOMAIN m, k \in J : <<m[s], j, d>> \in EdgesOf(r, k)
      BY <2>2, EdgesWhenWritten DEF EdgesExact
    <3>1. PICK t \in Succ(r, k) : <<m[s], j, d>> = <<m[r], k, m[t]>>
      BY <3>0 DEF EdgesOf
    <3>2. r = s /\ k = j
      BY <3>1, <1>1 DEF IInv, Numbered
    <3> QED BY <3>1, <3>2
  <2>3. ASSUME NEW s \in branches, NEW t \in Succ(s, j)
        PROVE  m[t] \in 0 .. id - 1 /\ <<m[s], j, m[t]>> \in edges
    <3>1. m[t] \in 0 .. id - 1 /\ <<m[s], j, m[t]>> \in EdgesOf(s, j)
      BY <1>1 DEF EdgesOf, IInv, MType
    <3> QED BY <3>1, <1>1, EdgesWhenWritten DEF EdgesExact
  <2> QED BY <2>1, <2>2, <2>3
<1>3. \A s \in branches, n \in N :
        /\ ba[<<s, j, n>>].f0 \in BOOLEAN
        /\ ba[<<s, j, n>>].f0 = TRUE => ba[<<s, j, n>>].next \in ByF0(s, j)
        /\ ba[<<s, j, n>>].f0 = FALSE => ba[<<s, j, n>>].next \in ByNotF0(s, j)
  BY <1>1 DEF ByF0, ByNotF0, SuccBy, IInv, TypeOK, Circuit
<1>4. \A s \in DOMAIN m, t \in DOMAIN m, k \in J :
        /\ t \in ByF0(s, k) => m[t] \in sF0
        /\ t \in ByNotF0(s, k) => m[t] \in sNF0
  BY AllSimulated DEF IInv, MType, F0Known
<1>5. \A s \in branches : Succ(s, j) = ByF0(s, j) \cup ByNotF0(s, j) /\ Succ(s, j) # {}
  BY <1>1, SuccType DEF IInv, TypeOK
<1>6. ASSUME F0(j), NEW s \in branches, NEW n \in N PROVE ba[<<s, j, n>>].f0
  <2>1. SUFFICES ASSUME ba[<<s, j, n>>].f0 = FALSE PROVE FALSE
    BY <1>3
  <2> DEFINE t == ba[<<s, j, n>>].next
  <2>2. t \in ByNotF0(s, j) /\ t \in Succ(s, j) /\ t \in DOMAIN m
    BY <2>1, <1>1, <1>3, <1>5
  <2>3. m[t] \in NextLatches(j) /\ m[t] \in sNF0
    BY <2>2, <1>1, <1>2, <1>4
  <2> QED BY <2>3, <1>6 DEF F0
<1>7. ASSUME \A s \in branches, n \in N : ba[<<s, j, n>>].f0 PROVE F0(j)
  <2>1. \A s \in branches : \A t \in Succ(s, j) : t \in ByF0(s, j)
    BY <1>7 DEF ByF0, SuccBy, Succ
  <2>2. NextLatches(j) \cap sNF0 = {}
    <3> SUFFICES ASSUME NEW d \in NextLatches(j), d \in sNF0 PROVE FALSE
      OBVIOUS
    <3>1. PICK s \in branches : \E t \in Succ(s, j) : d = m[t]
      BY <1>2
    <3>10. PICK t \in Succ(s, j) : d = m[t]
      BY <3>1
    <3>2. t \in DOMAIN m /\ t \in ByF0(s, j) /\ s \in State /\ t \in State /\ d \in 0 .. id - 1
      BY <3>10, <2>1, <1>1 DEF IInv, TypeOK, MType
    <3>3. PICK r \in State, k \in J, q \in State :
            Simulated(r, k) /\ q \in ByNotF0(r, k) /\ d = m[q]
      BY <3>2 DEF IInv, F0Known
    <3>4. q \in DOMAIN m
      BY <3>3, SuccType, AllSimulated DEF Simulated, IInv, TypeOK
    <3>5. q = t
      BY <3>10, <3>2, <3>3, <3>4 DEF IInv, Numbered
    <3> QED BY <3>2, <3>3, <3>5, SuccDisjoint DEF IInv, TypeOK
  <2>3. NextLatches(j) \cap sF0 # {}
    <3>1. PICK s \in branches : TRUE
      BY DEF IInv, Running
    <3>2. PICK t \in Succ(s, j) : TRUE
      BY <1>5
    <3>3. m[t] \in NextLatches(j) /\ m[t] \in sF0
      BY <1>1, <1>2, <1>4, <2>1
    <3> QED BY <3>3
  <2> QED BY <2>2, <2>3 DEF F0
<1> QED BY <1>6, <1>7

-----------------------------------------------------------------------------
(* The variables have their types, for every automaton and numbering.        *)
THEOREM TypeCorrect == Spec => []TypeOK
<1>1. IInv => TypeOK
  BY DEF IInv
<1> QED BY <1>1, Invariance, PTL

(* assert(id == mOldState2NewState.size()): the numbers below id are in use, *)
(* each for one state.                                                       *)
THEOREM NumbersUnique == Spec => []Numbered
<1>1. IInv => Numbered
  BY DEF IInv
<1> QED BY <1>1, Invariance, PTL

(* The network that is written has every edge of every state met, and no     *)
(* other, in whatever order the states are taken and numbered.               *)
THEOREM NetworkExact == Spec => []EdgesExact
BY EdgesWhenWritten, Invariance, PTL

(* The set latches of the network are those of the automaton's branches,     *)
(* however long it runs: the subset construction is sound and complete.      *)
THEOREM LatchesRight == Spec => []LatchesAreBranches
<1>1. IInv => LatchesAreBranches
  BY DEF IInv, Running, LatchesAreBranches
<1> QED BY <1>1, Invariance, PTL

(* The network accepts exactly what every branch of the automaton accepts.   *)
THEOREM UniversalLanguage == Spec => []AcceptsForAllBranches
BY F0ForAll, Invariance, PTL
=============================================================================
