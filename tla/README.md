# A TLA+ model of Modelchecker

Modelchecker decides whether a *bad* output of an AIGER circuit can be asserted.
It runs a portfolio of engines on the same circuit: property directed
reachability (`PDR.cpp`) and bounded model checking (`BMC.cpp`), each in threads
that `main.cpp` starts and joins. The first engine with a verdict writes it to a
shared variable, and the others stop. Every query goes to one of two SAT solvers
whose source is part of the repository: CaDiCaL (incremental, all queries of the
engines) and MiniSat (preprocessing of PDR's transition relation).

This directory models the engines, the files they read and write, and the solvers;
checks them with TLC on small instances; and proves with TLAPS, among others, that BMC is
right for every circuit, PDR for every circuit on which bad implies the constraints, and
the portfolio for any number of threads.

## 1. Inventory

| part | state it keeps | operations | what makes it correct |
|---|---|---|---|
| PDR engine, `PDR.cpp`, `PDR.hpp` | frames with a set of cubes and a solver each, the obligation queue, `State` objects linked by `next`, the member `core`, counterexample | `check_BMC0/1`, `get_pre_of_bad`, `rec_block_cube`, `mic`, `CTG_down`, `add_cube`, `propagate`, `check` | the frames over-approximate reachability, lemmas exclude no initial state, a counterexample is a run of the circuit, a proof is an inductive invariant, the loops end |
| BMC engine, `BMC.cpp`, `BMC.hpp` | the unfolded AND gates and a hash table, the values of the circuit's variables in the current frame, an incremental solver | `initialize`, `unfold`, `Aig_And`, `solve_one_frame`, `check` | the unfolding computes the circuit's function, the frames of all threads cover the bound, skipped frames lose no bug |
| portfolio, `main.cpp` and the globals of `aig.cpp` | `RESULT`, `result_mutex`, `current_bmc_execution`, the threads | create, join, publish, print | one verdict, the right one, one witness, every thread stops |
| circuit, `aig.hpp` | inputs, latches, reset values, AND gates, bad, constraints | read-only once loaded | |
| AIGER reader, `aig.cpp` | the file position | `load_aiger_from_file`, `read_literal`, `decode`, `translate_to_dimacs` | literals keep sign and meaning |
| certificate and witness output | the gates of the certificate | `propagate` (gates of the invariant), `show_aag`, `show_witness` | the certificate is inductive, the witness reaches bad |
| literal orders | floating-point scores per latch | `updateLitOrder`, `heuristic_Lit_CMP` | none: they choose among sound alternatives |
| solver wrappers, `sat_solver.hpp`, `ipasir.h` | a solver object | `add`, `assume`, `solve`, `val`, `failed`, `simplify` | adapters to CaDiCaL and MiniSat |
| MiniSat, `minisat/core/Solver.cc` | clauses, learnt clauses, watches, trail | `addClause_`, `propagate`, `analyze`, `reduceDB`, `simplify`, `search`, `solve_` | no unit is missed, learnt clauses follow, models and final conflicts are right, it returns |
| MiniSat preprocessing, `minisat/simp/SimpSolver.cc` | occurrence lists, touched variables, queue, stored clauses | `eliminate` with subsumption, asymmetric branching and variable elimination, `extendModel` | on the frozen variables the formula keeps its models; it ends |
| CaDiCaL's API, `solver.cpp` | the state of the object, clauses, assumptions, constraint, limits | `add`, `assume`, `constrain`, `solve`, `simplify`, `lookahead`, `terminate` ... | an answer is about what is there now; assumptions, constraint and limits last for one call |
| incremental use, `external.cpp`, `restore.cpp`, `extend.cpp` | freeze counters, the extension stack, tainted literals | reactivate, restore, extend, copy | every answer is about all clauses added so far |
| CDCL search of CaDiCaL (`propagate.cpp`, `analyze.cpp`, `backtrack.cpp`, `assume.cpp` ...) | trail with levels out of order, control stack, clauses | propagate, analyze, shrink, minimize, backtrack, decide, restart, reduce | as for MiniSat, with chronological backtracking and a constraint |
| techniques between searches (`elim.cpp`, `backward.cpp`, `gates.cpp`, `instantiate.cpp`, `block.cpp`, `cover.cpp`, `condition.cpp`, `subsume.cpp`, `vivify.cpp`, `transred.cpp`, `probe.cpp`, `decompose.cpp`, `ternary.cpp`, `deduplicate.cpp`) | the clause database and the extension stack | one each | only consequences are added; what is removed can be reconstructed |
| guesses before search (`lucky.cpp`, `walk.cpp`, `rephase.cpp`) | trail; broken clauses, saved phases | lucky phases, local search | what they call a model is one |
| variable numbering, `compact.cpp` | maps between external and internal variables, all tables | `compact`, `internalize` | renumbering is invisible |
| command line, `main.cpp` | option values | `validateInput` | |

Lemma sharing between PDR threads, restarts, `show_uaiger` and all `output_stats`
logging are compiled out (their macros are 0). The stand-alone programs, parsers,
proof output and the tester that come with CaDiCaL are not linked; `aigtoaig` is a
binary.

Interaction: all threads get one `Aiger` object, which each engine copies; they
share `RESULT` (a plain `int`, read without a lock in every loop and in the
solver's terminate callback), `result_mutex`, `current_bmc_execution` and
`state_count` (plain integers, incremented without a lock).

What is hard here: the interplay of lemmas, cubes and solvers in PDR (a lemma is
tested in one frame, generalized while other lemmas are added, and added to
another one; `core` is a member that every query overwrites, and is aliased by
the reference `ctg`); obligations that are dropped, pushed or given up;
lifting in the presence of constraints; the unlocked second write of the
verdict; the race on the thread index; threads that assume away the frames they
skip. In the solvers: clauses and literals that one technique removed and a later
call of the user needs again; units that are assigned and not yet propagated while
the next technique step looks at the clauses; watches and reasons that survive
out-of-order backtracking, restarts and garbage collection; a termination request
that races the end of a call. `PROJECT.json` lists these hazards line by line.

## 2. Modules

| module | models |
|---|---|
| `Circuit` | the circuit as a transition system on latch assignments; initial states, the transition relation with its constraints, `Safe` |
| `Gates` | the circuit as numbered AND gates, and its meaning by simulation |
| `Answer` | abstract: one right verdict is published once |
| `PDR` | one PDR engine; other engines may publish a verdict |
| `BMC` | one BMC engine: the unfolding, the incremental solver, the frames skipped, the witness |
| `Portfolio` | main, the PDR and BMC threads, the lock, the counter, the printed answer |
| `Obligations` | the obligation queues of PDR engines that share the state counter |
| `Aiger` | the AIGER reader: sections of a file, `translate_to_dimacs`, reset values, property |
| `Certificate` | the gates of the certificate and the file `show_aag` writes, read back by `Aiger` |
| `Cnf` | clauses, models, unit propagation: the reference notions |
| `SimpSolver` | MiniSat's preprocessing of what `encode_translation` and `encode_lift` add |
| `Minisat` | MiniSat's CDCL loop |
| `Cdcl` | CaDiCaL's CDCL loop |
| `Solver` | CaDiCaL's API with a concurrent `terminate` |
| `Internal` | CaDiCaL's clause database between searches |
| `Elim`, `Blocked`, `Vivify`, `Probe` | the techniques that change it |
| `External` | incremental use, composed with the four modules above |
| `Lucky`, `Walk` | guesses before search |
| `Compact` | renumbering of variables |
| `MCPDR`, `MCBMC`, `MCPortfolio`, `MCFiles`, `MCParts`, `MCSearch`, `MCCadical`, `MCCompact` | small instances for TLC |
| `PDRProofs` | types, soundness, certificate and witness of `PDR`, and that it implements `Answer` |
| `PartsProofs` | MiniSat's preprocessing keeps the meaning of the translation and `extendModel` completes a model; no obligation is lost in the race on the state counter |
| `GatesProofs` | facts about the meaning of a circuit of gates |
| `BMCProofs` | the unfolding, the queries and the witness of `BMC` |
| `CertificateProofs` | the gates of the certificate mean the invariant; a file is read as the circuit it lists, the certificate as the circuit that was written |
| `PortfolioProofs` | the portfolio with any number of threads |
| `SearchProofs` | MiniSat's search is sound; what CaDiCaL's API promises its caller |
| `Induction` | induction and recursive functions, in a form the provers can use |

### Circuit
A latch assignment is the set of its literals, a cube any set of literals. A
circuit is a record: reset values `init` (a cube; a latch may have none), `next`,
`bad` and `cons` as sets of (assignment, input) pairs. `Initial` is what
`encode_init_condition` encodes: the reset values *and* the constraints under some
input. `Trans` is `encode_translation` plus the primed constraints `new_frame`
adds: constraints now and next, bad not now. `Safe` is the reference: some set of
assignments holds the initial ones, is closed under constrained steps and meets
no admissible bad pair.

### PDR
`cubes[k]` and `solver[k]` are `frames[k].cubes` and the cubes negated into
`frames[k].solver`; `F(k)` is what that solver admits. Queries are sets: `Into(k, c, d)`
is the set of models of frame k, not c, and d primed; `is_inductive` is its
emptiness; `Cores` is everything `is_inductive(.., gen_core)` may leave in `core`,
including the fallback to the whole cube when the core holds an initial state.
A satisfiable query returns any model and an unsatisfiable one any core, so the
literal orders, the `-uc` assumption order and the random shuffles are all
covered. `Lifted`/`LiftedBad` are the cores of the lift solver, clause by clause.

`pc` follows `check`: `bmc0`, `bmc1`, `loop`, `block` (an iteration of
`rec_block_cube`), `mic`, `down` (an iteration of `CTG_down`), `propagate`, then
`safe` or `found`, and `done`. The recursion of `mic` and `CTG_down` is the
sequence `stack`; the inner activation works on `core` itself, as `Cube &ctg = core`
makes it. One action is one query with everything the code does up to the next
one. The options are constants: `CtgTries` (3 in the code), `MaxJoins` (2^20),
`PunishSizes` (10, 20, 30), `PunishLimit` (5), `EsfDepth` (20), `EsfPeriod` (5),
`UsePr`. `failed` saturates at `PunishLimit`, the only value it is compared with.
`OtherEngine` is the rest of the portfolio: a right verdict may appear at any time.

### BMC
`Gates` numbers variables as `translate_to_dimacs` does: 1 is false, then inputs,
latches and gates, fan-ins first. `Settle` evaluates a circuit and `Frame` runs it
for k frames; they are the reference.

`values`, `uaiger` and `lit_has_insert` are the members of `BMC`: the literal of the
unfolding each variable of the circuit has in the current frame, the unfolding, and
the gates already handed to the solver. `units` are the literals the solver holds.
`initialize` and `unfold` are one action each; `Aig_And` is the one- and two-level
rewriting of `unfold`, `Hashed` its hash table. `solve_one_frame` is `NotAsserted`
(the frame is skipped or the query has no model) or `AssertedInFrame`. A query is
the set of values of the solver's free variables that satisfy its gates and units.
A leaf the solver does not know is printed as `x` in the witness: `WitnessReal` asks
that bad is reached whatever value it has. `encode_init_condition` builds a solver
that nobody queries and is left out. So is the test against `max_nodes`, which is
`INT_MAX` and can never be exceeded by an `int`.

### Portfolio
The circuit is `First[p]`, the frames in which bad p can be asserted with no
earlier one: a BMC solver holds the negation of bad of all earlier frames, so this
is what its query tells (`QueryExact` of `BMC`). `current_bmc_execution++` is a read and a write.
Publishing is lock, test, write and print, unlock; a PDR thread that proved the
property writes `RESULT` once more after the unlock. `answer` follows the order of
the tests in `main`.

### Files: Aiger and Certificate
A file is a sequence of tokens, a number being a number and a delta-coded literal a
sequence of 7-bit groups. `load_aiger_from_file` is one action per section, with the
optional counts of the header; `translate_to_dimacs` aborts where its assertions fail.
`IsSource` is what a file may list: literals that exist, in the ASCII format with fan-ins
before or after their gate, and justice and fairness properties. The reader takes the
counts of the latter from the header but does not skip their lines (`aig.cpp:241`, a
TODO), so `ReadGate` takes them for gates, as the code does; a binary file with such
lines would be decoded character by character, below the tokens of the model, and is
not given. `FaninsFirst` and `SafetyOnly` name the files without forward fan-ins and
without these properties.
`Certificate` starts from a circuit that was read, adds the gates of an invariant as
`propagate` does, cube after cube (`NextCube`, `EndCube`) and literal after literal
(`AddLiteral`), writes them with `show_aag` and reads the result again.

### PDR's helpers: Obligations and SimpSolver
`Obligations` splits `state_count++` into a read and a write for any number of engines
and keeps only what the order of the queue compares. `SimpSolver` takes the clauses
`encode_translation` or `encode_lift` adds, for a small family of circuits, and runs
`eliminate` in any order of its heap and queue.

### Search: Minisat, Cdcl, Solver
The loops keep what correctness depends on: clauses as sequences, because the first two
literals are watched; the trail; levels and reasons. Scores, phases, glue and limits are
choices: any unassigned literal may be decided, restarts and reductions may happen at
any time up to a bound, `reduceDB` may remove any clause the code's conditions allow.
In `Cdcl` one action visits one watched clause, so that conflicts and units are found in
any order of the watch list. `Solver` has the states of `cadical.hpp`; what search
answers is open; `terminate` sets its flag at any time. `asked` holds what the user asked
of the next call by the documentation, `outlived` what the code keeps from before although
the documentation ends it: the assumptions and the constraint of a `lookahead`
(`solver.cpp:560`) and the constraint of a call that returned 0 (`solver.cpp:625`). So
`ForOneSolve` says exactly under what a search runs, and where that is more than was asked.

### Between searches: Internal, Elim, Blocked, Vivify, Probe, External
The clause database is one record and a technique is a sequence of actions on it, as
small as the intermediate states other code can see. Clauses are sets; occurrence lists
and schedules give any order the code's sorting leaves open. `extension` is the
reconstruction stack and `extend` replays it. In `External` the user adds clauses,
assumes, constrains, freezes and melts; `solve` restores clauses for tainted literals;
then any technique may run. Where the order in which the code traverses reasons is left
open (`probe` learns any literal that fails by unit propagation, not only the dominator
`probe.cpp` computes; `Analyzed` allows any set of decisions that ends in the same way),
the model allows more than the code.

### Lucky, Walk and Compact
`Lucky` tries the eight phases in their order, with termination in between. `Walk`
keeps broken clauses, the watch of each satisfied one, and the statistic
`stats.walk.minimum` over several calls. `Compact` has both numberings, all tables that
are renumbered, and the user's calls between compactions; freeze counters are added to
what is left in the slot of a dropped variable, and wrap at a small `UINT_MAX`, and the
constraint is shrunk again when it is added back.

## 3. Runs

| run | instance | shows |
|---|---|---|
| `pdr_seq` | 13 circuits, 3 latches, 1 input, no `-pr` | frame invariants of `PDR.hpp`, solver = cubes, obligations, `mic`, real witness, `RootBlocked` |
| `pdr_all2` | every circuit of 2 latches and no input with bad implying the constraints, three kinds of reset | right verdict, inductive certificate, termination |
| `pdr_par` | 8 of the circuits, `-pr`, another engine publishing | one verdict, never overwritten; the assertion before `propagate` |
| `pdr_spurious` | one circuit with bad outside the constraint | violation of `WitnessReal` (finding 1) |
| `pdr_parts` | 8 variables: the encodings of small cones with and without constraints, asymmetric branching on and off; two engines with three and two states | the simplified transition relation is the one encoded, models extend, simplification ends, no obligation is lost |
| `bmc` | circuits of 1 input, 2 latches and 3 gates; 3 frames; one thread, or one of two that skips every other frame | the unfolding equals the circuit, every query means "bad here for the first time", real witness |
| `portfolio_mixed` | 2 PDR + 2 BMC threads that take turns at the frames, every placement of bugs in frames 1..4, `nframes` 2 | one right verdict, one witness, indices, the bug of a frame somebody is in charge of, an answer |
| `portfolio_index` | `-findbug`, 2 properties | violation of `EveryBugFound` (finding 2) |
| `files` | circuits with up to two gates, ASCII and binary, well and badly numbered, forward fan-ins, justice and fairness lines; certificates of up to two cubes | a file is read as what it means or refused; the gates of a certificate mean the invariant; certificates read back |
| `search` | 9 queries (5 variables) for CaDiCaL, 4 formulas with 3 lists of assumptions for MiniSat, 13 formulas for elimination with gates, sequences of 3 API calls | watches, learnt clauses, answers, lifetime of answers, assumptions and constraint, return |
| `cadical` | 4 formulas for two calls with a user's operation in between, 200 for one call with a learnt clause, 3 variables; lucky phases, local search, two compactions | consequences only, models kept, removed variables gone, right guesses, invisible renumbering |
| `cadical_freeze` | 4 variables, each frozen at most once, 2 compactions | violation of `FrozenProtected` (finding 3) |

`pdr_parts`, `search` and `cadical` put several modules into one model: the variable
`part` says which one a behaviour is of, the variables of the others keep a dummy value,
and every property says for each part what it asks. Nothing interacts across parts that
the code keeps apart; what does interact is composed inside a part (`External`).

Bounds. Three latches give frames up to depth 4 and cubes whose literals can be
dropped one after another; `CtgTries = MaxJoins = 1` lets both limits be reached;
`MCPunish = <<0, 1, 2>>` and `PunishLimit = 2` make cubes of three literals
punish as cubes of thirty do in the code, so that obligations are given up;
`EsfDepth = 1`, `EsfPeriod = 2` make propagation start late. No other bound is
needed: the state space of an instance is finite because the engine ends. In
the solvers' modules every limit is a constant: calls of `solve`, user operations between
them, restarts and reductions (`MaxRestarts`, `MaxReduce`), flips and rounds of local
search, compactions. Two calls with one operation in between are what it takes to
eliminate a variable, bring it back and extend a model over both; the formulas of `search`
are chosen so that literals stay on the trail out of order, blocks of a level shrink,
assumptions fail for every reason `failing` distinguishes and each kind of gate is found.
With three variables `cadical` meets no if-then-else gate and no variable with too many
resolvents; the `Elim` part of `search` does. In
`BMC` three gates over earlier variables with every sign reach every case of
the rewriting; three frames let a gate be found in the hash table that an earlier
frame made and an earlier cone has or has not given to the solver. In
`Portfolio` the bound on frames is the program's own `nframes`, and bugs just
beyond it are included; two BMC threads divide frames 1 to 3, and the race on the index
may also leave both in charge of the same ones. With `-findbug` there is one thread per property and
nobody skips a frame; `IndexAlwaysInRange` and `CoveredBugIsFound` hold for both modes, and
`portfolio_index` runs it. `cadical` allows one frozen variable, assumption or constraint at a time
in its compactions, which the other tables need; `cadical_freeze` leaves those tables
out and has all four variables frozen at once, since a counter must be dropped twice.

Fairness. `FairSpec` of `PDR` is weak fairness of the engine's step: the thread is
scheduled and solver calls return. In `Portfolio` each thread's own steps and the
lock are weakly fair; a thread asks for the lock once, so nobody can be overtaken
for ever. Nothing is assumed about the other engines. The solvers' loops are weakly fair
(they run in the calling thread); for `TerminateReturns` only the polling of the
termination flag inside search is.

Every run but `cadical` checks deadlock; a finished engine, or `main` at its end, stutters.
In `cadical` the bounds on calls and operations end behaviours.

## 4. Proofs

The theorems about `PDR` hold for all finite sets of literals, all circuits and all
option values that satisfy the modules' assumptions; those about `Portfolio` for any
number of threads, properties and frames; those about `BMC` for all circuits, frames and
numbers of threads; those about the files for all circuits and sets of cubes; those about
`Obligations`, `SimpSolver`, `Minisat` and `Solver` for any number of
engines, states, variables, clauses, restarts and calls.

### PDR

* `TypeCorrect`: `Spec => []TypeOK`. Inductive invariant `Typed`: `TypeOK` and
  `Control`, which says for each place in `check` what is live: how many frames
  there are, when the queue must be empty, that the outermost activation of `mic`
  works on a subset of the obligation at its frame, and that `propagate` only
  visits cubes its frame still has. Without it the type of `queue` (an obligation
  below Foo) is not inductive.
* `QueueIsEmpty`: the assertion before `propagate`, from the same invariant.
* `VerdictIsSound`, `FramesAreSound`, `SolversMatchCubes`, `ObligationsSound`,
  `MicCubesStayInductive`, `EngineImplementsAnswer`
  assume `Admissible`: on every circuit of the instance bad implies the
  constraints. Inductive invariant `Sound`: the frame invariants; queued
  obligations lie outside their frame; cubes under generalization are inductive
  at their level and hold no initial state; while `propagate` runs, no step out of
  the top frame meets bad; every state on the heap is `Doomed` (no closed set
  without bad holds an assignment of it); a thread about to publish is right.
  The argument: lemmas added while a cube is generalized only shrink frames
  (`StrengthenFrames`), which keeps every established inductiveness
  (`SoundStrengthen`); a moved cube leaves solvers and cubes in step
  (`MatchPreserved`); an empty frame is a closed set without bad (`FixpointSafe`);
  a lifted predecessor of a doomed state is doomed (`LiftedDoomed`), and frame 0
  is met only by an initial state that steps into one (`CounterexampleUnsafe`).
  `Admissible` is needed exactly in the lifting lemmas; `pdr_spurious` shows that
  without it the conclusion is false of the code.
* `CertificateIsInductive` (also under `Admissible`) adds to `Sound` that an engine
  alone has no verdict before its own: the certificate then consists of the cubes
  above the empty frame, which describe that frame.
* `RootIsBlocked` adds `Root`: only depths beyond the current round are recorded in
  `failed_depth` (`FailedBeyond`), so the root obligation, of depth 1, is never given up
  below the top frame; it stays pending until a lemma that is part of it is added
  at the top frame or above.
* `WitnessIsReal` (under `Admissible`): a printed witness is a run into bad, of any
  length. `Doomed` says that some run goes wrong, not that the stored inputs do, so
  `Sound` is not enough; `HeapLeads` adds that from *every* assignment in a state of the
  heap the state's own inputs meet the constraints and lead into the state it
  points to, or into bad. The theorem follows along the chain of states by induction.
* `NewStateIsQueued` (`PartsProofs`): `std::set` drops no new obligation, whatever
  index the unlocked `state_count++` gave its state. The indices may indeed be equal;
  what saves the queue is `PendingIsFirst`: between the query and the insertion
  the new obligation's frame is below that of everything queued, and the frame
  is compared first.

### MiniSat's preprocessing

* `TranslationIsExact` and `ModelIsExtended` (`PartsProofs`), for every number of variables and
  every set of encodings that satisfies `EncodingsAssumption` (literals and clauses over the
  variables). The inductive invariant is `SimpInv`: `Typed` (no frozen variable is eliminated),
  `Control` (everything is added before it simplifies; the clause
  `backwardSubsumptionCheck` works with is still there while it has candidates, and is none of
  them), `Sound` (every model of the formula satisfies what is left, removed clauses
  included, so no contradiction is invented) and `Complete` (every assignment that
  satisfies what is left, *with the clauses and resolvents that are still to be added*, becomes
  a model of the formula under `extendModel`, which changes eliminated variables only).
  Neither of the last two is enough alone: together they give the same models on the frozen
  variables. Elimination keeps `Complete` by the resolution argument: when all
  resolvents hold, all clauses of one side hold without the variable, and the stored side decides
  its value, the default unit being stored last and therefore read first. Removed
  clauses, which PDR may still copy, are the reason why `Sound` speaks about them
  too. Unit propagation is an induction over rounds (`PropagationsSound`).

### MiniSat's search

* `MinisatIsSound` (`SearchProofs`), for any number of variables and all clauses and assumptions over
  them (`InputsAssumption`), whatever is decided, forgotten, trimmed and restarted, and in whatever order the
  watchers of a literal are visited. The inductive invariant is `MinisatInv`:
  `Typed` (a clause of the database is a list of at least two different literals),
  `Trail` (`TrailOK`: each variable once, the levels one after another; `ReasonsOK`: a literal
  stands first in its reason, whose other literals were falsified before it, or it is the first of its
  level), `Search`, `Derived`, `Covered` and `AnswerKept`.
  The heart of `Search` is `Watched`: when the watchers of a literal have been visited, a clause that
  watches its negation has a true literal of no higher level. The level is needed because a backjump
  must not leave the watch false alone; *visited* (`Visited`) because the queue may be
  half done, and after a conflict the last level is given up, so that `LearnClause` may rely only
  on what lies below it. `Assumed` says which levels belong to assumptions, so that the decisions
  `analyzeFinal` collects are assumptions. `Derived` (each model of the formula satisfies the database, the
  literals of level 0 and the clause under analysis) gives soundness of learning and of "unsatisfiable";
  `Covered` (each clause of the formula is a tautology, holds at level 0 or contains a clause that is not
  learnt) gives soundness of models after `simplify`, `reduceDB` and the removal of
  false literals in `addClause_`: without "not learnt" `reduceDB` would break it.
  Minimization (`MinimizedHolds`) and the final conflict (`ClosedHolds`) are inductions along the trail;
  `Redundant`, `analyzeFinal` and `Trim` are recursive functions, characterised by `Recursion`.

### BMC

* `UnfoldingIsExact`, `QueryIsExact`, `WitnessOfBMCIsReal` (`BMCProofs`), from the assumption
  `CircuitsAssumption` only, which says what `translate_to_dimacs` leaves: fan-ins precede
  gates, literals have variables, reset values are literals of latches, at most one for each.
  The invariant speaks about all *valuations* that obey the gates of the
  unfolding (`Obeys`), not about runs: then a rewriting of `Aig_And` is correct node by node
  (`RewrittenExact`, and `AigAndExact` for the depth of two), a hash hit is a gate that
  is there, and gates that are added later keep every earlier statement
  (`ObeysExtended`). The bridge to runs has two halves: each run of the circuit
  gives a valuation that obeys the unfolding, and each obeying valuation gives, on the leaves,
  the inputs and first latches of a run with the same values in every frame
  (`LeavesRealized`, `RunOfLeaves`). `BeforeUnfold` is the invariant between frames, `BeforeSolve` between
  `unfold` and the query, `WitnessAsks` at the end.
  For the query: what the solver has been given is closed under fan-ins
  (`InsertedClosed`), so its models are exactly the restrictions of obeying valuations to
  its free variables (`ModelsSound`, `ModelsComplete`); the units it holds say "no bad in an earlier
  frame, the constraints in all", also for skipped frames (`UnitsKept`). A leaf the solver
  was never given cannot influence bad (`FreeSupports`), which is why the witness may print `x`.

### Certificate

* `CertificateMeansCubes` (`CertificateProofs`), from `CircuitsAssumption` and `CubesAssumption` (cubes are
  over variables of the circuit): while `propagate` appends gates, they stay in order, the
  variables of the circuit keep their values, and bad of the certificate is true exactly where
  a cube that is complete holds. `WithBad` is the set of cubes it starts from, so at the
  end these are the lemmas, bad and the violations of the constraints: with
  `CertificateIsInductive` this gives that the circuit `show_aag` writes proves the property. The
  invariant adds what the code's locals mean in the middle of a cube (`OutMeans`:
  `new_and_gate` is the conjunction of the literals taken so far) and that a cube is in `work` until its
  last gate is there (`Progress`). `SettleExtends` and `SettleGate` of `GatesProofs`: appended gates change no
  earlier value, and a gate is the conjunction of its fan-ins.

### Files

All in `CertificateProofs`. The model's texts are sequences of numbers and line ends; a circuit to be
listed satisfies `SourcesAssumption`: its literals exist (`IsSource`); for the binary format fan-ins
precede their gate, the larger one comes first and literals
fit an unsigned (`IsBinary`), without which there is no such file. `IndicesAssumption`: `main` refuses a negative property index.

* `FilesAreRefusedOrRead`, `FilesMeanTheirCircuit`: for files without justice and fairness lines
  (`SafetyOnly`), in whatever order their fan-ins are. `SameLiterals` compares fan-ins, next states,
  property and constraints under all values of all variables, which makes sense without an
  order of the gates; `SameFunctions`, the values computed from latches and inputs, follows where
  fan-ins come first. The inductive invariant is `ReaderInv`: the file has a
  `Layout` (where each line, and in the binary format each pair of codes, starts), and the reader is before the
  header, behind `n` items of a section with exactly those items read (`Reading`: `SoFar`, and `p` at
  `Cursor`), or done (`ReadAll`). The cursor is the delicate part: in a text section the reader
  stops *on* the line end and skips it before the next line, while in the binary gates it stops behind the last
  code; the header leaves it on its line end in either format, also when the optional counts are missing
  (`HeaderCounts`), and so does a latch whose reset value is (`ReadsLatch`). `encode` is undone by `decode` for every
  number below `2 ^ Width` (`DecodesGate`; `Codes` says what the groups must be, by induction over the number).
  The value of a literal of AIGER is then that of its translation: under given values by the translation
  of the literal alone, from latches and inputs by induction over the gates.
* `CertificateIsReadBack`. What `show_aag` writes is the ASCII file of a circuit that satisfies `IsSource`
  and has its fan-ins first (`CertTextIs`, `CertificateIsSource`: here the order of the appended gates matters),
  so `ReaderInv` holds
  while it is read; translating to AIGER and back changes no literal (`ThereAndBack`), so what is read is
  exactly `Grown`, the circuit with the appended gates (`CircuitBack`). `CertificateMeansCubes`
  says what that means.

### Portfolio

* `PortfolioTypeCorrect`, `IndexAlwaysInRange`, `WitnessIsUnique`,
  `CoveredBugIsFound`, `PortfolioImplementsAnswer`. Inductive invariant `Right`:
  `Indices` (the counter never exceeds the number of threads that have written it,
  however stale what they read), `Verdicts` (one thread in the lock, a thread on its way
  to publish is right, `RESULT` is 0 between the test and the write, and not 0 for a
  thread about to repeat it), `Covered` (the frames behind a BMC thread hold no bug it
  is in charge of) and `Joins`. The decisions of the PDR and BMC threads are assumptions of this
  module's model; `VerdictIsSound` and `QueryIsExact` justify them.

### CaDiCaL's API

* `AskedForOneSolve` (`SearchProofs`): a search runs under the assumptions, constraint and limits
  given since the last one and, of earlier ones, exactly under what `lookahead` or a call that
  returned 0 kept (`outlived`); `val` and `failed` are about what was asked. Two parts
  of the invariant carry it: `AskedIsHeld` (from `solve` until the answer is given up, the solver
  still holds what it was asked) and `RequestedIsHeld` (an answered solver
  keeps the old assumptions and constraint, which count no more: the next call drops them, and
  only in these two states; otherwise it holds what was asked and what outlived a call, and
  nothing else).

### Induction

`Induction` states induction over the naturals, over ranks and the
defining equation of a recursive function on a ranked domain for *sets* instead of predicates:
the library's theorems with an operator parameter cannot be instantiated by the
provers, its least-element theorem (`WFMin`) can. `GatesProofs` uses it for `Settle`,
`BMCProofs` for `Latches`, `Aig_And`, `unfold`, the values of the nodes and the cone, `PDRProofs` for
the chain of states of a witness; `Recursion`, for a function defined from its predecessor value, serves
`PartsProofs` (unit propagation, `extendModel`) and `SearchProofs`.

### Only model-checked

* Liveness: `Terminates`, `Answers`, `SimplifyReturns`, `SearchReturns`, `TerminateReturns`;
  the provers have no rule for fairness here.
* CaDiCaL's search loop and elimination (`WatchesKept`, `AnswerRight`) and its techniques (the run `cadical`).
  `Cdcl` would need an invariant like `MinisatInv` for a trail whose levels are out of order; `Cdcl` and the
  techniques are written with folds over clauses, whose operator parameter the provers
  cannot instantiate, and would first have to use recursive functions as `Minisat` does.
* `EveryBugFound`, `FrozenProtected` and, without `Admissible`, `WitnessReal` are false of the
  code (section 5).

## 5. Findings

1. *Spurious counterexamples under constraints* (`PDR.cpp:689`, run `pdr_spurious`).
   The lift solver holds `-bad` as a unit, so an assignment that is bad under the
   stored inputs counts as lifted even when those inputs violate a constraint.
   `PDR.hpp:13` and `PDR.cpp:745` say that states must meet the constraints.
2. *Two threads, one index* (`main.cpp:11`, run `portfolio_index`): a property, or a
   residue class of frames, may be checked by nobody; `README.md:22` promises BMC for
   each property.
3. *Freeze counters after compaction* (`compact.cpp:289`, run `cadical_freeze`). A counter that
   moves is added to what its new slot holds, and the slot of a fixed variable that is dropped is
   never cleared; its literals are mapped to the first fixed variable, its counter is not.
   One compaction can only protect too much: with 1 fixed, 2 frozen and fixed and 3 active,
   3 moves into the slot of 2 and inherits its counter. Two can protect too little: 3 and 4 are
   frozen, 2 and 4 fixed; `compact` maps 4 to 2, whose counter is 0, and melting 4 wraps it to
   `UINT_MAX`; when 1 is fixed the next `compact` drops 2, and 3 moves into that slot: 1 plus
   `UINT_MAX` is 0, and the frozen variable 3 may be eliminated. `cadical.hpp:552` promises that
   only as many melts as freezes enable elimination. The engines freeze nothing in CaDiCaL; for
   assumptions, which `compact.cpp:305` says are all frozen, one variable would have to wrap in the same way.

Observations met while modelling; no run is kept for them:

* `result: safe` is never printed: `main.cpp:130` tests `RESULT != 10` first;
  `README.md:42` says it is.
* `PDR.hpp:60` says "prefer deeper" but the operator takes the smaller depth first; the
  printed witness names `b0` whatever the property; a witness may continue after bad was
  reached; `includes(.., abs_compare)` in `rec_block_cube` compares variables, not
  literals; the run time is printed only when no bug was found; a comment in `basic.hpp`
  calls variable 1 true, it is false.
* If `-bad` and the constraints contradict each other through gates, MiniSat's
  `addClause` notices and ignores all later clauses; the relation copied to the solvers
  is then satisfiable. Only a constraint that is the literal bad is repaired
  (`PDR.cpp:606`). `SimpSolver` starts from encodings without this contradiction.
* `set_clear_act` and `clear_act` of the wrapper are not virtual and do nothing when
  called through `SATSolver*`; `minisatSimp::assume` clears where it should push; neither
  is used by the engines in that way.
* CaDiCaL: `elim_backward_clause` sets `satisfied`, declared outside the loop, for one
  clause and drops the following ones too (`backward.cpp:76`); `get_clause` and
  `get_ternary_clause` skip true literals as well as false ones (`gates.cpp:383`), so a
  clause that is satisfied by a unit not propagated yet counts as part of a gate. Both
  need a unit found while resolvents are added, on formulas of eight or more variables.
* `copy` takes over neither tainted marks nor the clauses they would restore
  (`solver.cpp:1242`); `CopyHasSameModels` is therefore asked only while nothing is tainted.
* `solve` returning 0 keeps the constraint (`solver.cpp:625`), `lookahead` keeps the
  assumptions and the constraint (`solver.cpp:560`), `assume` is accepted inside an open clause
  (`solver.cpp:553`); `cadical.hpp:290`, `:228` and `:232` say otherwise. `ForOneSolve`
  does not count what is kept as asked for: it is in `outlived`, and the next search runs under both.
* A file with justice or fairness lines is read past them as if they were gates
  (`aig.cpp:241`). Most such files abort on the number of the first gate; fairness lines whose
  literals happen to be numbered like the gates load as another circuit.
* `translate_to_dimacs` asserts the numbers of the gates, not the order of their fan-ins
  (`aig.cpp:50`): an ASCII file with a fan-in behind its gate is loaded, while `unfold` of BMC takes
  the value of a fan-in from the frame as computed so far and needs fan-ins first
  (`CircuitsAssumption` of `BMC`).
* `stats.walk.minimum` is never reset (`walk.cpp:381`): after a call that reached 0 later
  rounds save no phases; answers stay right (`GuessesRight`).

## 6. Not modelled, and the plan

* `Gates` to `Circuit`: that the transition system of `PDR` is the one the gates define is
  not shown; the two are read from the same code.
* Command line, text layout, logging and the code that is compiled out.
* The heuristic scores of PDR and of the solvers: every order is allowed.
* MiniSat: released variables, memory relocation and the DIMACS parsers;
  `SimpSolver::solve_` and `substitute`, which nobody calls.
* CaDiCaL: cubes and `lookahead` (not called), proof output and checker (off), the
  stand-alone application, tester, parser, options, statistics and profiling.
* Details that change no answer: `SimpSolver` has no `subsumption_lim` (it only skips
  candidates), `Cdcl` looks at two recent clauses for eager subsumption instead of twenty,
  `resolve_clauses` does not swap its arguments by size, `Substitute` leaves clauses alone in which only
  fixed literals would go, `Publish` writes `RESULT` and prints in one step (both are done
  under the lock), and a round of local search starts on propagated clauses.
* Not covered by a property: justice and fairness sections (a TODO in the source),
  and `tbug` in `main.cpp:90` has 64 entries and one thread is
  created per property.

Next: the same for CaDiCaL's loop (`Cdcl`), with levels out of order on the trail.
