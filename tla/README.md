# A TLA+ model of leqSolving

The repository is a fork of the synthesis system ABC. What it adds, and what
this project models, is `src/src/leqSolving`: the commands `solve`, `spt`,
`inpro` and `ba`, which solve language equations by manipulating Boolean
automata. Given a fixed component F and a specification S, `solve` computes the
automaton of all controllers X such that F and X together stay within S. Of ABC
itself one engine is modelled, the PDR prover (`src/src/proof/pdr`) that decides
whether a solution is valid.

## Inventory

Everything runs in one thread and nothing is persisted: the hazards are those of
long procedures over unordered containers, of positions that stand for names, of
answers that may be "undecided", and of one flag (existential or universal
nondeterminism) whose meaning must be the same in every procedure.

| Component | State | Operations | Hard part | What makes it correct |
|---|---|---|---|---|
| Boolean automaton `Leq_Ba_t` (`leqSolving.hpp`, `leqBa.cpp`) | circuit, initial vector, maps of active and inactive inputs, `_bNondeterType` | `BaInit`, `BaInitTranCir`, `BaResetByTranCir`, `BaDuplicate` | the latch that keeps f0 | f0 is 0 for good once it was 0 |
| order of inputs (`leqBa.cpp`) | PI vector and ids of the circuit | `BaModifyCirPiOrder(U)`, `Abc_NtkOrderObjsByName` | positions stand for names and are re-sorted elsewhere | n, v, u stand in this order whenever positions are used |
| language operations (`leqOperation.cpp`) | the automata | `Complement`, `ProductBaTransCir`, `Support`, `PrefixClose`, `Solve` | the order they are applied in, the type flag | the solution holds every controller and nothing else |
| explicit input progressive (`leqInpro.cpp`, `leqSim.cpp`) | worklist, map of recorded moves, states under deletion, patched f0 | `InputProgressive`, `InProDeletState`, `InProModify*PO` | deletion while exploring, in rounds | the result is progressive and as large as can be |
| symbolic input progressive (`leqInpro2.cpp`, `leqEliQuan.cpp`) | circuit, check circuit of this and the last iteration | `InputProgressive2`, `EliminateVar`, `AddCheckCir`, `CheckEquivalent` | quantifier order, undecided answer, time limit | greatest fixpoint |
| determinization (`leqBa.cpp`, `leqEqn.cpp`) | worklist, numbering, edge table, f0 sets | `Aba2Ba`, `Aba2Ba2`, `BaGetNextState`, `EqnWriteNetwork` | numbering on the fly | same language |
| verification (`leqVerify.cpp`) | miters, the answers given | `VerifyX`, `VerifyFXS`, `VerifyEqX`, `LanguageContain` | undecided provers, checks that replace X on the way | an answer "valid" is right |
| PDR prover (`proof/pdr`) | levels of clauses, one solver per frame, queue of obligations | `SolveInt`, `BlockCube`, `Generalize`, `PushClauses`, `ReduceClause`, `FetchSolver`, `DeriveCex`, `VerifyInvariant` | clauses are reduced, removed and moved while solvers keep what they were told; obligations come back later | frames follow each other, answers are right, an answer comes |
| utilities, Cadet/Manthan files, the rest of ABC | | | | not modelled, see below |

How they interact: `solve` (`leqCmd.cpp:51`) reads F, S and the names U, V,
calls `Leq_Solve`, which calls the language operations in a fixed order on two
shared automata and ends in `Leq_InputProgressive2`; that one calls
`Leq_EliminateVar`, `Leq_AddCheckCir` and `Leq_CheckEquivalent` in a loop. With
`-v` the result goes on to `Leq_Aba2Ba2` (if X does not read every input of S)
and `leqVerify.cpp`, which builds miters and asks ABC's provers, PDR among them
(`leqVerify.cpp:286`, `341`, and from `Fra_FraigSec` at `fraSec.c:602`). `inpro` runs `Leq_InputProgressive`, `spt -d` runs
`Leq_Support` and `Leq_Aba2Ba`. All of them share the transition circuit
`_pNtk`, its initial vector and `_bNondeterType`, and tell u, v and the inactive
inputs apart by position. `PROJECT.json` lists the hazards at their lines.

## The modules

| Module | Models | Extends / instantiates |
|---|---|---|
| `TransitionCircuit` | a Boolean automaton as a function of latches and inputs | |
| `ProgressiveSubset` | what "make input progressive" promises (abstract) | `TransitionCircuit` |
| `InputProgressive` | `leqInpro.cpp` with `leqSim.cpp` | `TransitionCircuit`, `ProgressiveSubset` |
| `InputProgressive2` | `leqInpro2.cpp`, `leqEliQuan.cpp` | `TransitionCircuit` |
| `LeqSolve` | `leqOperation.cpp`, `Leq_BaInitTranCir`, the call in `leqCmd.cpp` | `InputProgressive2` |
| `Determinize` | `Leq_Aba2Ba(2)`, `Leq_BaGetNextState`, `leqEqn.cpp` | |
| `InputOrder` | names and positions: `Leq_BaModifyCirPiOrder(U)`, `Leq_Support`, `Abc_NtkOrderObjsByName`, the bit orders of `leqSim.cpp` and `leqEqn.cpp` | |
| `Verify` | `leqVerify.cpp` and the rest of `Leq_CommandSolve` | `LeqSolve` |
| `Prover` | what a prover promises (abstract) | |
| `Pdr` | `proof/pdr` with the parameters `leqVerify.cpp` takes | instantiates `Prover` |
| `MC*` | instances for TLC | the module named |
| `*Proofs` | theorems | the module named, `TLAPS` |
| `Recursion` | induction over the natural numbers and functions defined by recursion, for the proofs | `TLAPS` |

Definitions whose comment begins with "Mutant" are faulty variants; no
specification uses them.

### Common abstractions

A circuit is the function it computes: `a[s, u, v, n]` is a record of f0 and the
next latch vector. The and-inverter graph, names of objects, fraiging and
strashing (which keep the function) are not in the models. A latch vector and
the values of a group of inputs are single values, so 2^|u| values stand for
|u| inputs; the bit order of a vector is not modelled there. Which group a position
belongs to is taken as the code intends it after `Leq_BaModifyCirPiOrder(U)`:
`InputOrder` is about whether it does.

### InputProgressive

`ba` is the circuit given and `cut` the set of states that were conjoined away
from f0, so both circuits the code patches (`pNtk`, and the one inside `pMan`)
are `ba` without the steps into `cut`. `sCS`, `sRS`, `tmpNS`, `vDelS`,
`vtmpDelS` are the variables of the code, with the nested map `sRS[s][u][v]`
flattened: its keys are `sRS` and its contents `rec`.

| Action | Code (`leqInpro.cpp`) |
|---|---|
| `Keep(s)` | one turn of the outer loop in which every u has a move; `s` is any element, the container being unordered |
| `Reject(s, u)` | the turn that breaks at the first u without a move and calls `Leq_InProDeletState` |
| `DeleteOne`, `NextRound` | the loops of `Leq_InProDeletState`, one state and one round |
| `DeleteInit` | the initial state is to be deleted: constant 0 |
| `DeleteReturn`, `Finish` | the returns |

`clean` is a history variable, not code: it becomes FALSE when a kept state was
recorded together with the leftovers of a deleted one (the finding at line 155).
The model takes inactive inputs, as the procedure does; the command `inpro`
alone builds circuits that have none, and the run that shows the finding uses
only those.

### InputProgressive2

`f0` is the set of accepted steps of the current circuit, `pNtkCheck` the set of
states the last elimination left. `Iterate` is one turn of the loop: eliminate
u, v and n from the last position down, conjoin "the next state is one of them",
compare. `CheckEquivalent` may answer -1 (conflict limit) at any comparison, and
`Timeout` is the `exit(0)` at `leqEliQuan.cpp:39`. The order of quantifiers makes
"has a move" mean: for every n (or some n, if existential) there is one v good
for all u. That is not the sense of `InputProgressive`, where v may depend on u
and not on n; `HasMove` and `Progressive` keep the two apart, and
`DeterministicProgressive` relates them when there is no n.

### LeqSolve

One action per call of `Leq_Solve`: `ComplementS`, `Product` (with the
`Leq_BaInitTranCir` of F), `Support`, `ComplementX`, `PrefixClose`, and
`MakeProgressive`, which is `Next` of `InputProgressive2` on the automaton built
so far. A latch vector of X is `<<<<<<s, gS>>, <<f, gF>>>>, p>>`, where the
Boolean parts are the latches that keep f0. `Clock` is a cycle of the written
circuit beside F and S: `run` holds their latches and whether each side agreed
so far. It is how words of any length are followed, and models no code of
`leqSolving`.

### Determinize

`m`, `id`, `sCS`, `edges`, `sF0`, `sNF0` are the code's tables. `Choose` takes
any state of the worklist and `Simulate` numbers the new states of one input in
any order (`Numberings`), as the containers are unordered. `Write` ends the
exploration; `Clock` runs the network `Leq_EqnWriteNetwork` wrote (its latch and
f0 equations are `NextLatches` and `F0`) beside the branches of the automaton.

### InputOrder

`vPis` is the vector of primary inputs as names in their positions, `mAct` and
`mInact` the maps of the automaton (sets of names), `sU`, `sV` the names given.
`Support` sorts names into the maps, `Reorder` is the entry of
`Leq_InputProgressive2`, `Eliminate` quantifies one whole round from the last
position down and notes in `elim` which name was taken how, `AddCheckCir` and
`Leave` are what re-sorts the inputs by name, `Determinize` fills `sim` and `eqn`
with the input bits each row was simulated and written with. `Reorders` gives the orders the swap loops can end in: the objects are
paired by their positions only. `pc` also has the two ways the program stops
(`sizes`: the assertion at `leqBa.cpp:821`; `index`: position -1 at
`leqEqn.cpp:74`).

### Verify

Goes on where `LeqSolve` stops: one action per check of `Leq_CommandSolve`, in
its order (`-z`, `-d`, determinization, `-v`). A miter is the function it
computes, followed through all words by `NextXvX` and `NextFXS`; `Answers` is what
a prover may say of it: the truth or -1. `Xvs` are the circuits the user may give
with `-v`. `UseCommands` are values of the option that picks the prover: 0 is
one of the four that exist, 4 none, and then no prover is asked and the check
fails.

### Pdr

| Action | Code |
|---|---|
| `PropertyFails`, `OpenFrame` | the two ends of the query for the output in `Pdr_ManSolveInt`; opening a frame sets the output to 0 in the last one |
| `Finished`, `Disprove`, `Drop`, `Block`, `Predecessor` | one turn of the loop of `Pdr_ManBlockCube`, by its outcomes |
| `StayAt(c)`, `MoveUp(c)`, `LevelPushed`, `AllPushed` | `Pdr_ManPushClauses`, one cube or one level at a time |
| `FetchSolver(k)` | `Pdr_ManFetchSolver` finding that the solver of frame k used up its activation variables |

`vClauses` are the levels, as sets of cubes. A solver is kept as the set of states
its clauses leave (`vSolvers`), because that is what a query sees; it differs from
the frame (`InFrame`), as solvers are not told of everything and forget nothing.
SAT answers are open: any model, any final conflict that is a conflict
(`Reduced`), any cube ternary simulation could give (`Widened`). `Generalized` is
any cube without the initial state that stays blocked: the order in which
literals are tried depends on priorities with ties, and the loop sorts again after
each success, so the code does not promise a smallest one. A solver is rebuilt at
an action of its own, as clauses do not change within a turn: a rebuild between
two queries of a turn gives the outcomes of a rebuild before it. A miter whose
output is a constant is answered without a frame in the code; the model's
answers are the same. `head.iFrame > kMax` (`pdrCore.c:913`) cannot happen with
`fReuseProofOblig` off.

`Pdr` implements `Prover`, with "there is a set of states that shows it" for
`never`. `Verify` lets its provers give the same `Answers`, so it need not know
which prover was asked.

## The runs

| Run | Bounds | Distinct states | What it shows |
|---|---|---|---|
| `inpro_explicit` | 4 states, 2 values of u, v, n, 6912 automata | 124600 | types; deleted states stay out; recorded moves stay inside; without leftovers nothing is cut that a progressive set holds, "constant 0" is right, the result is progressive |
| `inpro_explicit_one_u` | 4 states, 1 value of u, 3 of v, 2 of n, 864 automata | 17468 | with one u: the result is always progressive, the procedure implements `ProgressiveSubset`, and it returns |
| `inpro_stale` | as the first, one n | violation | the finding at `leqInpro.cpp:155` |
| `inpro_symbolic` | 4 states, 2 values of u, v, n, both types, 4608 automata | 71840 | the checks shrink, no progressive set loses a state, a decided end is a fixpoint, the loop ends |
| `solve` | 3 F, 3 S and both kinds of interface (18 problems over single bits, with and without hidden inputs), three given circuits, `UseCommands` {0, 4} | 10820 | F under X keeps to S; X is prefix closed; X not declared deterministic never gets stuck; X holds all 64 two-state controllers that solve the problem; "valid" is printed of what solves if the provers decided; no check refutes a solution; the check of two X means containment |
| `verify_undecided` | the same | violation | the finding at `leqVerify.cpp:277` |
| `solve_deter` | the same problems, X reads the input of S | violation | the finding at `leqOperation.cpp:299` |
| `solve_hidden` | the problems of `solve` | violation | the finding at `leqEliQuan.cpp:33` |
| `determinize` | 3 machine states and the f0 latch, 2 inputs, 2 values of n, 324 automata | 108122 | numbers are unique, edges exact, latches follow the branches, f0 is universal, the exploration ends |
| `determinize_exists` | the same | violation | the finding at `leqEqn.cpp:122` |
| `input_order` | 4 names, one unknown name, every order, choice of U and V, both types | 26928 | at each elimination n, v, u stand in this order and are quantified as their names demand, and when `uBegin` wraps only u is not; the program stops only for a name it does not know; table and network agree on the bits of each row |
| `pdr` | 14 circuits of 3 latches and one input bit, limits 3 and 8 | 27304 | frames, solvers and obligations keep their relations; what is found above frame 0 is new to its solver and taken next; the invariant verifies; the counterexample is one; the answers are those of `Prover`; an answer comes |

Why the bounds are enough: four states allow a deletion that propagates through
two others and reaches the initial state, while a further one waits in the
worklist; two values of u are what leftovers need; two values of n are what
separates the two quantifications and makes a branch. In `solve`, F and S have
one latch each, which lets S demand today what F saw yesterday, and the
controllers have two states, enough to remember one bit, which is all the
problems can ask for; a controller, F and S have at most 8 states together, so with `Cycles` = 8
every state they reach is visited and "solves the problem" is exact, while X is
followed for words of 8 cycles. That is the only bound on a length: `Clock` and
the explorations are unbounded. In `input_order` four names let two inputs below
a border change places with two above it while n, v and u are all there. In
`pdr` three latches leave room for clauses that are generalized, reduced and
subsumed; the circuits go bad at once, after two to four steps, or never, with frames
that close at different levels; the limit 3 ends some of them undecided and 8
none; the first one cannot be proved without a solver being rebuilt. The automata families are
picked to have accepting, rejecting, splitting and half-accepting options at
every state; each property has a mutant of the code that the same run rejects.

Deadlock. The procedures return, so the runs of `InputProgressive`,
`InputProgressive2`, `LeqSolve`, `InputOrder`, `Verify` and `Pdr` say
`CHECK_DEADLOCK FALSE` (in `LeqSolve` only `exit` stops: after a solution the
clock ticks; in `InputOrder` also the two assertions). `Determinize` never stops
and is checked for deadlock.

Fairness. Each procedure is one sequential thread that runs until it returns,
and the calls it makes return: weak fairness of the whole step in
`InputProgressive`, of `Iterate` in `InputProgressive2` (the time limit is never
obliged to strike), and of the exploration in `Determinize` (nobody is obliged to
clock the network). No fairness is assumed about the order of the containers or
the answers of the provers. `LeqSolve` and `Verify` state no liveness:
`InputProgressive2` holds their only loop, the provers apart.

`Pdr` takes weak fairness of the whole step and strong fairness of each
`FetchSolver(k)`: every query uses up an activation variable and a solver with
`nRecycle` = 300 of them is built anew (`pdrSat.c:83`), so a solver that is asked
for ever is rebuilt again and again. `Termination` needs this. A clause that is
reduced while it moves up is told to the solver of the next frame only
(`pdrCore.c:196`), not to those below, whose levels it is part of, too. Such a
solver may find a predecessor the clause excludes; it is queued, dropped as
blocked already (`pdrCore.c:926`), and the query that found it is asked again
with the same result. The loop ends when the solver is rebuilt.

### Findings

1. `inpro_stale`: `tmpNS` is emptied only when a state is kept
   (`leqInpro.cpp:155`). The moves a rejected state had for the inputs below the
   stuck one are recorded as moves of the next state that is kept. They can hide
   that this state lost its last move, and the returned automaton gets stuck.
2. `determinize_exists`: `Leq_EqnWriteNetwork` writes f0 as "no branch rejects"
   (`leqEqn.cpp:122`), which is right for a universal automaton. `spt -d` hands it
   an existential one.
3. `solve_deter`: when X reads every input of S (and always without `-v`)
   `bIsDeter` keeps the type of X existential through the second complement
   (`leqOperation.cpp:299`), although complementing an existential automaton makes
   it universal. A value of the hidden outputs that F does not produce satisfies
   the complement vacuously, so `Leq_EliminateVar` finds a move where F leaves none.
4. `solve_hidden`: with inputs of S hidden, the inactive inputs stand first and
   are eliminated last, outside the choice of v (`leqEliQuan.cpp:33`), so X is
   credited with a v that depends on what it cannot see. The solution stays sound
   (`LoopMeetsS`) and keeps every controller, but it can be non-empty where no
   controller exists.
5. `verify_undecided`: `Leq_VerifyX` takes every answer but 0 for success
   (`leqVerify.cpp:277`), so a prover that gave up (-1) makes the program print "X is
   a valid solution" for a circuit the solution does not contain. With decided
   answers the message is right (`ValidSolves`).

Seen while modelling, and not what any document denies: a name in U that the
circuit does not have stops at the assertion at `leqBa.cpp:821`; with every input
hidden the determinization asks for input -1 (`leqEqn.cpp:74`); with no input
but u the index at `leqInpro2.cpp:4` wraps and u is quantified existentially;
`-d` announces equivalence
(`leqCmd.cpp:297`) though one direction of containment is checked. A Mealy
controller can solve the problem and still be refuted, as the elimination picks v
before it sees u: `SolvingNotRefuted` speaks of Moore controllers.

## The proofs

All theorems hold for every value of the constants, under the named assumptions
of the modules (`initS` is a state, there is at least one value of each group,
the automata have their types; `Determinize` also: finitely many states, at least
two values of n, and f0 is kept by a latch, as in every circuit that gets there).

- `InputProgressiveProofs`. The properties are not inductive: that nothing
  progressive is cut depends on the deletions that are pending and on the records
  being the moves of the *patched* circuit. The invariant has two layers.
  `Explored` says where a state can be (worklist, map, deleted, pending); it needs
  `Start`, as the initial state is in map and worklist at once in the beginning.
  `Exact`, under `clean`, says that records are exactly the moves left, that a
  recorded state without a move is pending (`NoneForgotten`) and that only stuck
  states are (`OnlyStuckDeleted`). A stuck state lies in no progressive set
  outside the cut (`StuckIsOutside`); at the end nothing is pending, so the
  recorded states are progressive. With one value of u the leftovers are empty
  (`OneUNoLeftovers`), and every step is a step or stutter of `ProgressiveSubset`
  (`OneUImplements`). Cutting stuck states in any order loses no progressive set
  (`AbstractIsRight`, of `ProgressiveSubset` itself); through the refinement that
  holds of the procedure (`OneUIsRight`).
- `InputProgressive2Proofs`. The invariant says that f0 is the given circuit
  restricted to `pNtkCheck` and that another elimination only gives fewer states;
  it rests on the elimination being monotone. `FixpointReached` assumes
  `~UBeginWraps`: if u is all there is, the unsigned index at `leqInpro2.cpp:4`
  wraps and u is quantified existentially.
- `DeterminizeProofs`. The invariant ties the tables to the simulations done so
  far (`Simulated`): edges and f0 sets hold what those showed and no more, and
  what they reached has a number. With an empty worklist everything numbered was
  simulated, so the network's latches are the automaton's branches; the latch
  that keeps f0 makes `sF0` and `sNF0` disjoint, from which f0 is universal.
- `LeqSolveProofs`. The first invariant names the automaton each call leaves
  (`Stages`) and reads the history off X's latches (`History`): gS and gF are
  whether S and F agreed so far, p whether X accepted so far. A step X accepts is
  then one where F's agreement so far implies S's (`SafeStep`): `LoopMeetsS` and
  `PrefixClosed`. The second follows the type through the calls and the fixpoint
  through the loop: if X is not declared deterministic its type is universal when
  the elimination sees it, and a run that X accepted stays in the states left
  (`SolutionNondeterProgressive`, again unless the index wraps). The third
  (`Kept`) is the other side: a set of states in which X can go on for ever,
  accepted, loses no state, whichever way the hidden inputs are quantified and
  also when the loop is left undecided (`SolutionLargest`).
- `Recursion`. `Reached` in `Verify` is defined by recursion over the number of
  steps. What a recursive definition computes needs induction, and the induction
  theorems of the library take an operator, which the provers cannot instantiate.
  Here the hypothesis is a set instead (`SetInduction`): a set that holds 0 and
  with every number the next one holds them all, which follows from the
  well-foundedness of <. From it, a function defined by recursion exists
  (`NatRecursion`). The proofs of `InputOrder`, `Verify` and `Pdr` use it.
- `VerifyProofs`. What is reached holds the start and every step from what was
  reached a step earlier; a set that holds the start and is closed under steps
  holds all of it; and as many steps as there are states reach everything.
  `CommandInductive` ties every answer noted down to the miter it was about, for
  the X held then. `NotRefuted`: some branch of X has the very latches of S and F
  that run beside it in the miter, so an accepted step is a safe one by
  `LeqSolveProofs`, and the miter is never 1. `EquivalentIsFoundContained`:
  nothing determinizes X after `-z` any more. `ControllersFound`: the latches of X
  that can stand beside a solving controller, S and F form a set in which X can
  go on for ever, so by `Kept` none is cut. `ValidIsASolution` and
  `SolvingIsNotRefuted` follow the given circuit, S and F beside X on the same
  words: if the circuit is contained the argument of `NotRefuted` applies to it;
  if it solves the problem it is a controller itself.
  Two hypotheses are about constants. `EnoughCycles`: `Cycles` is at least the
  number of states a controller (or the given circuit), S and F have together, so
  that "solves" means for ever; with fewer a controller could fail after it was
  looked at. `DrivesV`: the given circuit computes v and its next latches from its
  latches and u. The product of the check joins inputs by name
  (`leqOperation.cpp:201`), so that is what a circuit over the names of X is.
  `MCVerify` states both for its constants and TLC evaluates them.
- `InputOrderProofs`. Swapping two sets of positions in pairs, whatever the
  pairs, leaves an order of all inputs (`SwappedValues`). The first call so puts
  exactly the inactive inputs below its border (`ReordersRight`), the second u and
  nothing else above its own and does not touch the first (`ReordersURight`);
  `Leq_EliminateVar` counts with the same borders, except that no position is above
a `uBegin` that wraps (`EliminateRight`). As many
  inputs are out of place below a border as above it, being the differences of
  two sets of one size, and sets of one size can be paired (`OutOfPlace`,
  `PairingsExist`, by induction): so the assertions of the code hold
  (`ReordersExist`, `ReordersUExist`), the second as long as U names inputs of the
  circuit. The numbers below 2^n run through all words of n bits (`EveryWord`), so
  every choice of values has its row. That 2^(n+1) is 2 * 2^n is not known to the
  provers; it is read off the size of a powerset (`TwoExponent`, by `FS_SUBSET` of
  the library, whose own proof leaves that same fact of arithmetic unproved).
- `PdrProofs`. A clause is removed only where another one subsumes it, and moves
  up only where the frame below implies it: every action leaves the frames as
  they are or smaller (`Kept`, `Shrinks`), and a frame is made smaller only by
  what cannot be reached from the frame below (`Added`), so frames keep following
  each other (`FrameStep`). A solver leaves more states than its frame, so what it
  refutes the frame refutes (`ModelsCover`), and it can be behind the frame
  without harm. Obligations (`Doomed`) hold no state of the frame below theirs, and
  no state of any set that shows the output 0: one that holds the initial state
  refutes all of those. The level that was empty when it was passed stays empty
  (`FirstEmpty`), so its frame and the next are the same set, which is closed under
  steps. With that an answer 1 or 0 is right and every step is one of `Prover` or
  a stutter. An obligation keeps the inputs it was found with, whichever frame it
  is moved to: from every state of it they lead to output 1 (`Leading`), as one
  step from it goes into the obligation it was found for. So the inputs of the
  one that ends the search are a counterexample (`CounterexampleRight`). The queue
  is in the order of frames, so what is found is taken next (`QueueStep`,
  `PushedFirst`); and above frame 0 its cube has literals of its own, as with an
  input that leads every state to the target the initial state would go there,
  which a closed frame or the obligation's own rules out (`FoundIsNew`). Assumed:
  there is a latch, limits lie within 1..`MaxFrame`, circuits have their type.

Only model-checked: everything under fairness (`Termination`, `Written`), as the
prover handles neither ENABLED nor liveness. Every other property of the passing
runs is a theorem.
`Implements` for more than one u is false (finding 1) and is not claimed.

Only proved, in no run: the types of `InputProgressive2`, `InputOrder` and `Determinize`,
`ConstZeroJustified`, the promises of `ProgressiveSubset`, that the solution is
the largest of its kind (`Kept`) and the assertion `NoInitInQueue`.

## Not modelled

- Bit width: latch vectors are values; `1 << latches` and `Leq_Bin2Dec` in 32 bits
  are listed as a hazard.
- Inputs of one circuit missing from another ("don't care" inputs) in product and
  support, `qSolver` = 2 (no elimination).
- `Leq_BaDuplicate`: the copy is the automaton; `Verify` goes on with X itself.
- `Leq_InproDeterminize`: its only call comes after the command has its result.
- `leqUtility.cpp`, `util.cpp`: conversion, printing, gate trees. Cadet and
  Manthan files: not compiled.
- PDR with other parameters than the verification takes: abstraction, several
  outputs, down and CTGs, restarts, shortest traces, limits of time and conflicts
  (with a limit the answer is -1, which `Prover` allows), and the incremental
  variant `pdrIncr.c`.
- `Fra_FraigSec`: a sequence of reductions and bounded checks by many engines,
  ending in PDR. `Verify` lets it give what `Prover` allows.
- The rest of ABC, almost all of the repository's 967 thousand lines: a synthesis
  system taken over from elsewhere, in which `leqSolving` is one directory. Its
  calls appear as what they do to the function of a circuit. The modules map a
  very small share of those lines for that reason.

## Plan

Done: every module above, with the theorems listed. Next, in this order:

1. An abstract solver (the set of controllers) and `LeqSolve` shown to implement
   it; `SolutionSound`, `SolutionLargest` and `ControllersFound` are its parts.
2. `Support` and `ProductBaTransCir` with don't-care inputs
   (`leqOperation.cpp:121-166`).
3. The width of latch vectors (`leqBa.cpp:289`), as a module on `Leq_Bin2Dec`.
