----------------------------- MODULE InputOrder -----------------------------
(***************************************************************************)
(* The inputs of a Boolean automaton: which names are active, inactive or  *)
(* unknown to the circuit (Leq_Support), and in which order the circuit    *)
(* keeps them (Leq_BaModifyCirPiOrder, Leq_BaModifyCirPiOrderU in          *)
(* leqBa.cpp, Abc_NtkOrderObjsByName).  Leq_EliminateVar, Leq_GenSimPattern*)
(* and Leq_EqnWriteNetwork go by position: the inactive inputs first, then *)
(* v, then u.  The module follows the solution X through Leq_Support,      *)
(* Leq_InputProgressive2 and then Leq_Aba2Ba(2).                           *)
(***************************************************************************)
EXTENDS Integers, FiniteSets

CONSTANTS
  Name,   \* the inputs of the circuit; the order of names is that of numbers
  Unknown \* further names U and V may hold

ASSUME NameAssumption == Name \subseteq Nat /\ IsFiniteSet(Name)
ASSUME UnknownAssumption == Unknown \subseteq Nat \ Name /\ IsFiniteSet(Unknown)

PiNum == Cardinality(Name)
Pos == 0 .. PiNum - 1

VARIABLES
  sU, sV,             \* the names given for u and v
  bNondeterType,
  vPis,               \* the inputs of the circuit, by position
  mAct, mInact, sDc,  \* active and inactive inputs, names without an input
  elim,               \* the last elimination: what stood where, and its type
  sim, eqn,           \* determinized: the bits of input value j, by name
  pc

names == <<sU, sV>>
maps == <<mAct, mInact, sDc>>
vars == <<names, bNondeterType, vPis, maps, elim, sim, eqn, pc>>

-----------------------------------------------------------------------------
(* The orders in which a circuit may keep its inputs.                        *)
Orders ==
  { p \in [Pos -> Name] :
      /\ \A x, y \in Pos : p[x] = p[y] => x = y
      /\ \A n \in Name : \E x \in Pos : p[x] = n }

(* Pairings of two sets of positions, the first of one with the first of the *)
(* other and so on.                                                          *)
Pairings(A, B) ==
  { f \in [A -> B] : /\ \A x, y \in A : x < y => f[x] < f[y]
                     /\ \A y \in B : \E x \in A : f[x] = y }

(* Definitions whose comment begins with "Mutant" are faulty variants used   *)
(* only to see that the properties notice them.                              *)

(* The order after the inputs at paired positions changed places.            *)
Swapped(p, f) ==
  [x \in Pos |->
     IF x \in DOMAIN f THEN p[f[x]]
     ELSE IF \E y \in DOMAIN f : f[y] = x
          THEN p[CHOOSE y \in DOMAIN f : f[y] = x]
          ELSE p[x]]

(* Leq_BaModifyCirPiOrder: the inputs in the first places that are not       *)
(* inactive, and the inactive ones further up.                               *)
ActBefore(p, inact) == { x \in Pos : x < Cardinality(inact) /\ p[x] \notin inact }
InactAfter(p, inact) == { x \in Pos : x >= Cardinality(inact) /\ p[x] \in inact }

(* Mutant: the loop of Leq_BaModifyCirPiOrderU starts past the first v.      *)
UBeforeLate(p, inact, u) ==
  { x \in Pos : x > Cardinality(inact) /\ x < PiNum - Cardinality(u) /\ p[x] \in u }

(* Leq_BaModifyCirPiOrderU: the u below uBegin, and the others from there on.*)
UBefore(p, inact, u) ==
  { x \in Pos : x >= Cardinality(inact) /\ x < PiNum - Cardinality(u) /\ p[x] \in u }
NotUAfter(p, inact, u) ==
  { x \in Pos : x >= Cardinality(inact) /\ x >= PiNum - Cardinality(u) /\ p[x] \notin u }

(* What the calls may leave; nothing when an assertion on the sizes fails.   *)
Reorders(p, inact) ==
  LET A == ActBefore(p, inact)
      B == InactAfter(p, inact)
  IN IF Cardinality(A) = Cardinality(B) THEN { Swapped(p, f) : f \in Pairings(A, B) } ELSE {}

ReordersU(p, inact, u) ==
  LET A == UBefore(p, inact, u)
      B == NotUAfter(p, inact, u)
  IN IF Cardinality(A) = Cardinality(B) THEN { Swapped(p, f) : f \in Pairings(A, B) } ELSE {}

(* Mutant: u and v stay as they are.                                         *)
BothReordersNoU(p, inact, u) == Reorders(p, inact)

BothReorders(p, inact, u) == UNION { ReordersU(q, inact, u) : q \in Reorders(p, inact) }

(* Abc_NtkOrderObjsByName.                                                   *)
OrderObjsByName(p) == { q \in Orders : \A x, y \in Pos : x < y => q[x] < q[y] }

(* Mutant: uBegin is used as in Leq_BaModifyCirPiOrderU, without the - 1.    *)
TypeOfLate(x) ==
  IF x < Cardinality(mInact) THEN bNondeterType
  ELSE IF PiNum - Cardinality(sU) >= 0 /\ x > PiNum - Cardinality(sU) THEN 1 ELSE 0

(* Mutant: the index of the first u is signed.                               *)
TypeOfSigned(x) ==
  IF x < Cardinality(mInact) THEN bNondeterType
  ELSE IF x > PiNum - Cardinality(sU) - 1 THEN 1 ELSE 0

(* Leq_EliminateVar: 1 for universal.  uBegin = nInput - |sU| - 1 is         *)
(* unsigned: no position is above it when it wraps.                          *)
TypeOf(x) ==
  IF x < Cardinality(mInact) THEN bNondeterType
  ELSE IF PiNum - Cardinality(sU) - 1 >= 0 /\ x > PiNum - Cardinality(sU) - 1 THEN 1 ELSE 0

(* Bit b of input value j; there is one value per 2^(active inputs).         *)
ActNum == PiNum - Cardinality(mInact)
Bit(j, b) == (j \div 2^b) % 2

(* Leq_GenSimPattern: the bits of j, the highest for the first active input. *)
SimBit(j, x) == Bit(j, ActNum - 1 - (x - Cardinality(mInact)))

(* Mutant: the lowest bit belongs to the first input.                        *)
EqnBitFirst(j, x) == Bit(j, x - Cardinality(mInact))

(* Leq_EqnWriteNetwork: the lowest bit belongs to the last input, the next   *)
(* to the one before, and so on.                                             *)
EqnBit(j, x) ==
  Bit(j, CHOOSE b \in 0 .. ActNum - 1 : x - Cardinality(mInact) = ActNum - 1 - b)

(* The inputs above the inactive ones, and what Bits gives their positions.  *)
ActNames(p) == { p[x] : x \in Cardinality(mInact) .. PiNum - 1 }
ByName(p, Bits(_)) == [n \in ActNames(p) |-> Bits(CHOOSE x \in Pos : p[x] = n)]

-----------------------------------------------------------------------------
(* The maps after Leq_Support with the names s: the active inputs s lacks    *)
(* become inactive; of the names of s that are new, the inactive inputs      *)
(* become active again and the others are no input of the circuit.           *)
Supported(act, inact, dc, s) ==
  LET in  == inact \cup (act \ s)
      new == (s \ act) \ dc
  IN [act |-> (act \cap s) \cup (new \cap in), inact |-> in \ new, dc |-> dc \cup (new \ in)]

Init ==
  /\ sU \in SUBSET (Name \cup Unknown)
  /\ sV \in SUBSET ((Name \cup Unknown) \ sU)
  /\ bNondeterType \in {0, 1}
  /\ vPis \in Orders
  /\ mAct = Name /\ mInact = {} /\ sDc = {}
  /\ elim = <<>>
  /\ sim = <<>> /\ eqn = <<>>
  /\ pc = "support"

(* Leq_Support with the names of U and V, which orders the inputs.           *)
Support ==
  /\ pc = "support"
  /\ LET m == Supported(mAct, mInact, sDc, sU \cup sV)
     IN /\ mAct' = m.act /\ mInact' = m.inact /\ sDc' = m.dc
        /\ IF Reorders(vPis, m.inact) = {}
           THEN pc' = "sizes" /\ UNCHANGED vPis
           ELSE pc' = "start" /\ vPis' \in Reorders(vPis, m.inact)
  /\ UNCHANGED <<names, bNondeterType, elim, sim, eqn>>

(* The two calls before the loop of Leq_InputProgressive2, and at its end    *)
(* when the comparison did not leave it.                                     *)
Reorder ==
  /\ pc \in {"start", "check"}
  /\ IF BothReorders(vPis, mInact, sU) = {}
     THEN pc' = "sizes" /\ UNCHANGED vPis
     ELSE pc' = "eliminate" /\ vPis' \in BothReorders(vPis, mInact, sU)
  /\ UNCHANGED <<names, bNondeterType, maps, elim, sim, eqn>>

Eliminate ==
  /\ pc = "eliminate"
  /\ elim' = [x \in Pos |-> [name |-> vPis[x], type |-> TypeOf(x)]]
  /\ pc' = "addCheck"
  /\ UNCHANGED <<names, bNondeterType, vPis, maps, sim, eqn>>

(* Leq_AddCheckCir, whose result has its inputs sorted by name, and          *)
(* Leq_BaSetTransCir, which leaves every name in the map it is in.           *)
AddCheckCir ==
  /\ pc = "addCheck"
  /\ vPis' \in OrderObjsByName(vPis)
  /\ pc' = "check"
  /\ UNCHANGED <<names, bNondeterType, maps, elim, sim, eqn>>

Leave ==
  /\ pc = "check"
  /\ pc' = "done"
  /\ UNCHANGED <<names, bNondeterType, vPis, maps, elim, sim, eqn>>

(* Leq_Aba2Ba(2) puts the inactive inputs first, simulates the circuit for   *)
(* every value of the others and writes a network that has only those.       *)
(* Without inactive inputs it returns at once; without others it asks for    *)
(* input -1, where the assertion of Vec_PtrEntry stops it.                   *)
Determinize ==
  /\ pc = "done"
  /\ mInact # {}
  /\ IF Reorders(vPis, mInact) = {}
     THEN pc' = "sizes" /\ UNCHANGED <<vPis, maps, sim, eqn>>
     ELSE vPis' \in Reorders(vPis, mInact) /\
          IF ActNum = 0
          THEN pc' = "index" /\ UNCHANGED <<maps, sim, eqn>>
          ELSE /\ sim' = [j \in 0 .. 2^ActNum - 1 |-> ByName(vPis', LAMBDA x : SimBit(j, x))]
               /\ eqn' = [j \in 0 .. 2^ActNum - 1 |-> ByName(vPis', LAMBDA x : EqnBit(j, x))]
               /\ mAct' = ActNames(vPis') /\ mInact' = {} /\ UNCHANGED sDc
               /\ pc' = "determinized"
  /\ UNCHANGED <<names, bNondeterType, elim>>

Next ==
  \/ Support \/ Reorder \/ Eliminate \/ AddCheckCir \/ Leave \/ Determinize

Spec == Init /\ [][Next]_vars

-----------------------------------------------------------------------------
(* Every variable has its type. *)
TypeOK ==
  /\ sU \subseteq Name \cup Unknown /\ sV \subseteq (Name \cup Unknown) \ sU
  /\ bNondeterType \in {0, 1}
  /\ vPis \in Orders
  /\ mAct \subseteq Name /\ mInact \subseteq Name /\ sDc \subseteq Unknown
  /\ elim = <<>> \/ elim \in [Pos -> [name : Name, type : {0, 1}]]
  /\ DOMAIN sim = DOMAIN eqn
  /\ pc \in {"support", "start", "eliminate", "addCheck", "check", "done",
             "determinized", "sizes", "index"}

(* The place of a name: the inactive inputs, then v, then u.                 *)
Group(n) == IF n \in sU THEN 2 ELSE IF n \in sV THEN 1 ELSE 0

(* Whatever order the circuit came in and however often it was re-sorted,    *)
(* at every elimination the inactive inputs stand first, then v, then u.     *)
EliminatedInOrder ==
  elim # <<>> => \A x, y \in Pos : x < y => Group(elim[x].name) <= Group(elim[y].name)

(* uBegin = nInput - |sU| - 1 is unsigned and wraps: U has as many names as  *)
(* the circuit has inputs, its own or not (leqInpro2.cpp:4).                 *)
UBeginWraps == Cardinality(sU) >= PiNum

(* And each is quantified as its name demands: u for all, v for some, the    *)
(* inactive ones by the type of the automaton.  Where uBegin wraps u is      *)
(* quantified for some, too, and only u.                                     *)
QuantifiedByName ==
  elim # <<>> =>
    \A x \in Pos : elim[x].type = CASE Group(elim[x].name) = 2 -> IF UBeginWraps THEN 0 ELSE 1
                                    [] Group(elim[x].name) = 1 -> 0
                                    [] OTHER -> bNondeterType

(* assert(vpActPi.size()==vpInactPi.size()), assert(vpVPi.size()==           *)
(* vpUPi.size()): as many inputs are out of place below as above, and the    *)
(* program stops there only for a name of U the circuit does not have; input *)
(* -1 is asked for only when the circuit has no name of U or V.              *)
StopsOnlyForNames ==
  /\ pc = "sizes" => sU \cap Unknown # {}
  /\ pc = "index" => (sU \cup sV) \cap Name = {}

(* Determinized, X reads exactly those names of U and V the circuit has, and *)
(* a row of the table that was simulated for some values of them is written  *)
(* for the same values.                                                      *)
WrittenAsSimulated ==
  pc = "determinized" =>
    /\ mAct = (sU \cup sV) \cap Name
    /\ eqn = sim
    /\ \A j \in DOMAIN eqn : DOMAIN eqn[j] = mAct
    /\ \A val \in [mAct -> {0, 1}] : \E j \in DOMAIN eqn : eqn[j] = val
=============================================================================
