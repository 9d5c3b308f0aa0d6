------------------------------ MODULE MCSearch ------------------------------
(***************************************************************************)
(* Search and what is asked of it, in one model: the loops of CaDiCaL      *)
(* (Cdcl) and MiniSat (Minisat), variable elimination on formulas with     *)
(* gates (Elim), and CaDiCaL's API (Solver).  A behaviour is one of one of *)
(* them: `part' says which, and the variables of the others have a dummy   *)
(* value.  All but the last work on five variables.                        *)
(***************************************************************************)
EXTENDS Cdcl

(***************************************************************************)
(* CaDiCaL.  In the first formula, implication chains give blocks of two   *)
(* literals of one level that shrink to one; in the second a conflict two  *)
(* levels up jumps over a level, so that the literal learnt stays out of   *)
(* order; the third and fourth are contradictory; the next three fail      *)
(* under assumptions and a constraint; the last two satisfy a constraint,  *)
(* by propagation and by a decision.                                       *)
(***************************************************************************)
Query(cnf, assume, constrain, options) ==
  [cnf |-> cnf, assume |-> assume, constrain |-> constrain,
   chrono |-> options, chronoalways |-> options = 2]

FirstQuery ==
  Query(<< <<-1, 2>>, <<-1, 3>>, <<-2, -3, -4, 5>>, <<-2, -3, -4, -5>> >>, <<4>>, <<>>, 1)

MCQueries ==
  { FirstQuery,
    Query(<< <<-1, -2, 3>>, <<-2, -3, -4, 5>>, <<-2, -3, -4, -5>> >>, <<1>>, <<>>, 1),
    Query(<< <<1, 2>>, <<1, -2>>, <<-1, 3, 4>>, <<-1, 3, -4>> >>, <<>>, <<>>, 2),
    Query(<< <<1, 2, 3>>, <<1, 2, -3>>, <<1, -2>>, <<-1, 2>>, <<-1, -2, 4>>, <<-1, -4>> >>, <<>>, <<>>, 1),
    Query(<< <<-1, -2, 3>>, <<-3, 4>>, <<-4, -5, -1>> >>, <<1, 2, 1, 5>>, <<>>, 1),
    Query(<< <<-1, 3>>, <<-3, -4>>, <<-2, -5>> >>, <<1, 2>>, <<4, 5>>, 1),
    Query(<< <<-1, 3, 4>>, <<-3, 2>>, <<-4, 2>> >>, <<-2, 2>>, <<1, 5>>, 1),
    Query(<< <<-1, 3>>, <<-2, -5>>, <<-2, 1>> >>, <<2>>, <<3, 4>>, 1),
    Query(<< <<-1, 3>>, <<-2, 4>> >>, <<1>>, <<-3, 2>>, 1) }

(***************************************************************************)
(* MiniSat.  Formulas that make the search learn, minimize, backjump over  *)
(* levels and fail under assumptions: one that is contradictory by search, *)
(* one with a long clause and a unit added after a first answer, one with  *)
(* implication chains that give redundant literals, and one with a         *)
(* tautology that is contradictory by units.  5 is fixed by a unit.        *)
(***************************************************************************)
MCInputs ==
  { <<{5}, {1, 2}, {-1, 2, 3}, {1, -2, 3}, {-1, -2, 3}, {-3}>>,
    <<{1, 2, 3, 4}, {5}, {-1, -2}, {3, -4}, {-3, 1}, {-1}>>,
    <<{5}, {-1, 2}, {-2, -3, 4}, {-4, -3, -1, -5}, {1, 3}>>,
    <<{1, -1, 2}, {5}, {1, 3}, {-3, 1}, {-1}>> }
MCAssumptions == {<<>>, <<4, -4>>, <<2, 3, 2>>}

CONSTANTS
  Inputs, Assumptions,   \* what MiniSat is given
  MaxSolves, MaxLater, MaxMinisatRestarts,
  UserLiterals, MaxClauses, MaxCalls

VARIABLES
  part,
  todo, formula, learnts, ok, trail_lim, vardata, qhead, confl, out_learnt, assumptions,
  model, solves, state, adding_clause, adding_constraint, constraint,
  limited, termination_forced, used, asked, outlived, calls, tick

ASSUME InputsAssumption ==
  /\ \A s \in Inputs : s \in Seq(SUBSET Lit)
  /\ \A s \in Assumptions : s \in Seq(Lit)

M == INSTANCE Minisat WITH MaxRestarts <- MaxMinisatRestarts

(***************************************************************************)
(* Elimination: definitions of 1 (an equivalence, AND, if-then-else and    *)
(* XOR gates) with clauses that use it, and a variable with too many       *)
(* resolvents.                                                             *)
(***************************************************************************)
MCGates ==
  {G \cup U : G \in { { {1, -2}, {-1, 2} },
                      { {1, -2, -3}, {-1, 2}, {-1, 3} },
                      { {-1, -2, 3}, {-1, 2, 4}, {1, -2, -3}, {1, 2, -4} },
                      { {-1, 2, 3}, {-1, -2, -3}, {1, -2, 3}, {1, 2, -3} } },
             U \in { { {1, 4}, {-1, 5} }, { {1, 4, 5}, {-1, -4, 5}, {1, -5, 2} },
                    { {1, 3}, {1, -3}, {-1, 5} } } }
    \cup { { {1, 2, 3}, {1, 3, 4}, {1, 4, 5}, {-1, 2, 4}, {-1, 3, 5}, {-1, 2, 5} } }

E == INSTANCE Elim WITH
       original <- formula, internal <- db, phase <- pc, backward <- todo,
       Formulas <- MCGates, MaxLearned <- 0, UserFrozen <- {5}, ElimBound <- 0, ElimClsLim <- 3,
       ElimGates <- {"equiv", "and", "ite", "xor"}, ElimBackward <- TRUE

(* CaDiCaL's API, where search is left open.                               *)
S == INSTANCE Solver

-----------------------------------------------------------------------------
MCInit ==
  \/ /\ part = "Cdcl" /\ Init
     /\ todo = 0 /\ formula = 0 /\ learnts = 0 /\ ok = 0 /\ trail_lim = 0 /\ vardata = 0
     /\ qhead = 0 /\ confl = 0 /\ out_learnt = 0 /\ assumptions = 0 /\ model = 0
     /\ solves = 0 /\ state = "none" /\ adding_clause = 0 /\ adding_constraint = 0
     /\ constraint = 0 /\ limited = 0 /\ termination_forced = 0
     /\ used = 0 /\ asked = 0 /\ outlived = 0 /\ calls = 0 /\ tick = 0
  \/ /\ part = "Minisat" /\ M!Init
     /\ query = 0 /\ redundant = 0 /\ garbage = 0 /\ propagated = 0 /\ control = 0
     /\ vtab = 0 /\ clause = 0 /\ unsat = 0 /\ unsat_constraint = 0 /\ failed = 0
     /\ reductions = 0 /\ state = "none" /\ adding_clause = 0 /\ adding_constraint = 0
     /\ constraint = 0 /\ limited = 0 /\ termination_forced = 0
     /\ used = 0 /\ asked = 0 /\ outlived = 0 /\ calls = 0 /\ tick = 0
  \/ /\ part = "Solver" /\ S!Init
     /\ db = 0 /\ trail = 0 /\ visit = 0 /\ conflict = 0 /\ status = 0 /\ pc = "none"
     /\ restarts = 0 /\ todo = 0 /\ learnts = 0 /\ ok = 0 /\ trail_lim = 0 /\ vardata = 0
     /\ qhead = 0 /\ confl = 0 /\ out_learnt = 0 /\ model = 0 /\ solves = 0 /\ query = 0
     /\ redundant = 0 /\ garbage = 0 /\ propagated = 0 /\ control = 0 /\ vtab = 0
     /\ unsat = 0 /\ unsat_constraint = 0 /\ failed = 0 /\ reductions = 0

  \/ /\ part = "Elim" /\ E!InitElim
     /\ trail = 0 /\ visit = 0 /\ conflict = 0 /\ status = 0
     /\ restarts = 0 /\ learnts = 0 /\ ok = 0 /\ trail_lim = 0 /\ vardata = 0
     /\ qhead = 0 /\ confl = 0 /\ out_learnt = 0 /\ model = 0 /\ solves = 0 /\ query = 0
     /\ redundant = 0 /\ garbage = 0 /\ propagated = 0 /\ control = 0 /\ vtab = 0
     /\ unsat = 0 /\ unsat_constraint = 0 /\ failed = 0 /\ reductions = 0
     /\ clause = 0 /\ assumptions = 0 /\ state = "none" /\ adding_clause = 0
     /\ adding_constraint = 0 /\ constraint = 0 /\ limited = 0
     /\ termination_forced = 0 /\ used = 0 /\ asked = 0 /\ outlived = 0 /\ calls = 0 /\ tick = 0

notInCdcl ==
  <<todo, formula, learnts, ok, trail_lim, vardata, qhead, confl, out_learnt,
    assumptions, model, solves, state, adding_clause, adding_constraint, constraint,
    limited, termination_forced, used, asked, outlived, calls, tick>>
notInMinisat ==
  <<query, redundant, garbage, propagated, control, vtab, clause, unsat,
    unsat_constraint, failed, reductions, state, adding_clause, adding_constraint,
    constraint, limited, termination_forced, used, asked, outlived, calls, tick>>
notInSolver ==
  <<db, trail, visit, conflict, status, pc, restarts, todo, learnts, ok, trail_lim,
    vardata, qhead, confl, out_learnt, model, solves, query, redundant, garbage,
    propagated, control, vtab, unsat, unsat_constraint, failed, reductions>>

notInElim ==
  <<trail, visit, conflict, status, restarts, learnts, ok, trail_lim, vardata, qhead, confl,
    out_learnt, model, solves, query, redundant, garbage, propagated, control, vtab, unsat,
    unsat_constraint, failed, reductions, clause, assumptions, state, adding_clause,
    adding_constraint, constraint, limited, termination_forced, used,
    asked, outlived, calls, tick>>

CdclStep ==
  /\ part = "Cdcl" /\ Next /\ UNCHANGED <<part, notInCdcl>>
  /\ restarts' = 0 \/ (query = FirstQuery /\ reductions' = 0)     \* in the first query
MinisatStep ==
  /\ part = "Minisat" /\ M!Next /\ UNCHANGED <<part, notInMinisat>>
  /\ restarts' = 0 \/ todo = <<>>     \* restarts only once all clauses are there
ElimStep == part = "Elim" /\ E!NextElim /\ UNCHANGED <<part, notInElim>>
SolverStep == part = "Solver" /\ S!Next /\ UNCHANGED <<part, notInSolver>>
SolverPolls == part = "Solver" /\ S!Poll /\ UNCHANGED <<part, notInSolver>>

MCNext == CdclStep \/ MinisatStep \/ ElimStep \/ SolverStep

allVars == <<part, vars, notInCdcl>>

MCSpec ==
  /\ MCInit /\ [][MCNext]_allVars
  /\ WF_allVars(CdclStep) /\ WF_allVars(MinisatStep) /\ WF_allVars(SolverPolls)

-----------------------------------------------------------------------------
(* CaDiCaL's watched literals: after propagation, no clause is unit or     *)
(* false without it having been noticed, also when chronological           *)
(* backtracking has left literals of lower levels on the trail; reasons    *)
(* and levels are right.                                                   *)
WatchesKept == part = "Cdcl" => TypeOK /\ ImplicationLevels /\ WatchInvariant

(* Clauses CaDiCaL learns, minimizes and shrinks follow from the formula   *)
(* and are unit where the search continues.  A model satisfies clauses,    *)
(* assumptions and constraint; the assumptions reported as failed, with    *)
(* the constraint if it is reported, contradict the formula.  Elimination  *)
(* changes no answer: clauses and units follow from the formula, and       *)
(* models of what is left are extended to its models.                      *)
AnswerRight ==
  /\ part = "Cdcl" => Learning /\ AnswerSound
  /\ part = "Elim" => E!DerivesConsequences /\ E!Reconstructs

(* MiniSat's search: no unit or conflict is missed whatever is learnt,     *)
(* forgotten and restarted, reasons stay in the database, what analyze     *)
(* derives follows from the clauses, and so do solve's answers: the model, *)
(* the final conflict and the contradiction.                               *)
MinisatSound ==
  part = "Minisat" => M!TypeOK /\ M!WatchInvariant /\ M!Learning /\ M!AnswerSound

(* Both loops return, whatever is learnt, forgotten and restarted.         *)
SearchReturns ==
  /\ (part = "Cdcl") ~> (pc = "done")
  /\ (part = "Minisat" /\ pc = "search") ~> (pc = "idle")

(* CaDiCaL's API: while it says it is SATISFIED or UNSATISFIED nothing the *)
(* answer depends on has changed; limits are those given for this call,    *)
(* and so are assumptions and constraint, but for what lookahead, and a    *)
(* solve that returns 0, keep beyond their documented lifetime.            *)
ForOneSolve == part = "Solver" => S!ForOneSolve

(* A request to terminate that comes while solve runs makes it return, even*)
(* if search would go on forever.                                          *)
TerminateReturns ==
  (part = "Solver" /\ state = "SOLVING" /\ termination_forced) ~> (state /= "SOLVING")

=============================================================================
