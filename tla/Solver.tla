------------------------------- MODULE Solver -------------------------------
(***************************************************************************)
(* The API of CaDiCaL (solver.cpp): the states a solver goes through, and  *)
(* how long clauses, assumptions, the constraint and limits last.  Another *)
(* thread or a signal handler may call terminate at any time.  Search      *)
(* itself is left open: it returns SATISFIED or UNSATISFIED after any      *)
(* number of polls, or never; only what it was asked is kept.              *)
(***************************************************************************)
EXTENDS Naturals, FiniteSets

CONSTANTS
  UserLiterals,    \* literals of the user's calls
  MaxClauses,  \* bound on the clauses added
  MaxCalls     \* bound on the calls of solve

CONFIGURING == "CONFIGURING"
UNKNOWN == "UNKNOWN"
ADDING == "ADDING"
SOLVING == "SOLVING"
SATISFIED == "SATISFIED"
UNSATISFIED == "UNSATISFIED"
READY == {CONFIGURING, UNKNOWN, SATISFIED, UNSATISFIED}
VALID == READY \cup {ADDING}

VARIABLES
  state,
  formula,            \* terminated clauses
  clause,             \* literals of a clause that is not terminated
  adding_clause, adding_constraint,
  assumptions,
  constraint,         \* literals of the constraint, and 0 once it is terminated
  limited,            \* a limit is set
  termination_forced,
  used,               \* what the last call of solve was asked
  asked,              \* what the user asked of the next solve, by the documentation
  outlived,           \* what is kept from before, though the documentation ends it
  calls,
  tick                \* flips when search goes on

dataVars == <<formula, clause, adding_clause, adding_constraint, assumptions, constraint, limited>>
vars == <<state, dataVars, termination_forced, used, asked, outlived, calls, tick>>

Nothing == [assumptions |-> {}, constraint |-> {}, limited |-> FALSE]
NothingKept == [assumptions |-> {}, constraint |-> {}]

Init ==
  /\ state = CONFIGURING
  /\ formula = {} /\ clause = {} /\ adding_clause = FALSE /\ adding_constraint = FALSE
  /\ assumptions = {} /\ constraint = {} /\ limited = FALSE /\ termination_forced = FALSE
  /\ used = [formula |-> {}, assumptions |-> {}, constraint |-> {}, limited |-> FALSE]
  /\ asked = Nothing /\ outlived = NothingKept /\ calls = 0 /\ tick = FALSE

(***************************************************************************)
(* transition_to_unknown_state, and what the calls below make of the       *)
(* assumptions and the constraint that it left.                            *)
(***************************************************************************)
Resets == state \in {SATISFIED, UNSATISFIED}

AssumptionsLeft == IF Resets THEN {} ELSE assumptions
ConstraintLeft == IF Resets THEN {} ELSE constraint

LeaveAnswer == assumptions' = AssumptionsLeft /\ constraint' = ConstraintLeft

add(lit) ==
  /\ state \in VALID
  /\ clause' = clause \cup {lit} /\ adding_clause' = TRUE
  /\ state' = ADDING /\ LeaveAnswer
  /\ UNCHANGED <<formula, adding_constraint, limited, termination_forced, used, asked, outlived, calls, tick>>

(* add (0): the state is UNKNOWN even while a constraint is not terminated.*)
AddZeroKeepingState ==
  /\ state \in VALID /\ Cardinality(formula) < MaxClauses
  /\ formula' = formula \cup {clause} /\ clause' = {} /\ adding_clause' = FALSE
  /\ UNCHANGED <<state, adding_constraint, limited, termination_forced, used, asked, outlived,
                 calls, tick, assumptions, constraint>>

AddZero ==
  /\ state \in VALID /\ Cardinality(formula) < MaxClauses
  /\ formula' = formula \cup {clause} /\ clause' = {} /\ adding_clause' = FALSE
  /\ state' = UNKNOWN /\ LeaveAnswer
  /\ UNCHANGED <<adding_constraint, limited, termination_forced, used, asked, outlived, calls, tick>>

(* constrain: a literal, or 0, which also is a constraint of no literal;   *)
(* a new constraint replaces a terminated one.                             *)
constrain(lit) ==
  LET replaces == 0 \in ConstraintLeft IN
  /\ state \in VALID
  /\ constraint' = (IF replaces THEN {} ELSE ConstraintLeft) \cup {lit}
  /\ asked' = [asked EXCEPT !.constraint = (IF replaces THEN {} ELSE @) \cup {lit}]
  /\ outlived' = [outlived EXCEPT !.constraint = IF replaces THEN {} ELSE @]
  /\ adding_constraint' = (lit # 0)
  /\ assumptions' = AssumptionsLeft
  /\ state' = IF lit # 0 THEN ADDING ELSE UNKNOWN
  /\ UNCHANGED <<formula, clause, adding_clause, limited, termination_forced, used, calls, tick>>

(* assume leaves the state ADDING too.                                     *)
assume(lit) ==
  /\ state \in VALID
  /\ assumptions' = AssumptionsLeft \cup {lit} /\ constraint' = ConstraintLeft
  /\ asked' = [asked EXCEPT !.assumptions = @ \cup {lit}]
  /\ state' = UNKNOWN
  /\ UNCHANGED <<formula, clause, adding_clause, adding_constraint, limited, termination_forced,
                 used, outlived, calls, tick>>

reset_assumptions ==
  /\ state \in VALID
  /\ assumptions' = {} /\ constraint' = ConstraintLeft
  /\ asked' = [asked EXCEPT !.assumptions = {}]
  /\ outlived' = [outlived EXCEPT !.assumptions = {}]
  /\ state' = UNKNOWN
  /\ UNCHANGED <<formula, clause, adding_clause, adding_constraint, limited, termination_forced,
                 used, calls, tick>>

reset_constraint ==
  /\ state \in VALID
  /\ assumptions' = AssumptionsLeft /\ constraint' = {}
  /\ asked' = [asked EXCEPT !.constraint = {}]
  /\ outlived' = [outlived EXCEPT !.constraint = {}]
  /\ state' = UNKNOWN
  /\ UNCHANGED <<formula, clause, adding_clause, adding_constraint, limited, termination_forced,
                 used, calls, tick>>

limit ==
  /\ state \in VALID
  /\ limited' = TRUE /\ asked' = [asked EXCEPT !.limited = TRUE]
  /\ UNCHANGED <<state, formula, clause, adding_clause, adding_constraint, assumptions, constraint,
                 termination_forced, used, outlived, calls, tick>>

(* lookahead does not change the state, and keeps the assumptions and the  *)
(* constraint that by the documentation end with it.                       *)
lookahead ==
  /\ state \in VALID
  /\ termination_forced' = FALSE
  /\ asked' = [asked EXCEPT !.assumptions = {}, !.constraint = {}]
  /\ outlived' = [assumptions |-> AssumptionsLeft, constraint |-> ConstraintLeft]
  /\ UNCHANGED <<state, dataVars, used, calls, tick>>

(* call_external_solve_and_check_results, for solve and simplify.          *)
solve ==
  /\ state \in READY /\ calls < MaxCalls
  /\ LeaveAnswer
  /\ used' = [formula |-> formula, assumptions |-> AssumptionsLeft, constraint |-> ConstraintLeft,
              limited |-> limited]
  /\ state' = SOLVING /\ calls' = calls + 1
  /\ UNCHANGED <<formula, clause, adding_clause, adding_constraint, limited, termination_forced,
                 asked, outlived, tick>>

(* Search polls terminated_asynchronously; reset_solving and reset_limits. *)
PollIgnoringRequest ==
  /\ state = SOLVING
  /\ tick' = ~tick
  /\ \/ UNCHANGED <<state, dataVars, termination_forced, asked, outlived>>
     \/ /\ state' \in {SATISFIED, UNSATISFIED}
        /\ limited' = FALSE /\ termination_forced' = FALSE
        /\ asked' = Nothing /\ outlived' = NothingKept
        /\ UNCHANGED <<formula, clause, adding_clause, adding_constraint, constraint, assumptions>>
  /\ UNCHANGED <<used, calls>>

GoOn ==
  /\ ~termination_forced /\ tick' = ~tick
  /\ UNCHANGED <<state, dataVars, termination_forced, asked, outlived>>

(* Without an answer the assumptions are reset and the constraint is not;  *)
(* an answer keeps both until the state is left.                           *)
Return ==
  /\ \/ /\ (termination_forced \/ limited) /\ state' = UNKNOWN
        /\ assumptions' = {} /\ outlived' = [assumptions |-> {}, constraint |-> constraint]
     \/ state' \in {SATISFIED, UNSATISFIED} /\ UNCHANGED assumptions /\ outlived' = NothingKept
  /\ limited' = FALSE /\ termination_forced' = FALSE
  /\ asked' = Nothing /\ tick' = FALSE
  /\ UNCHANGED <<formula, clause, adding_clause, adding_constraint, constraint>>

Poll ==
  /\ state = SOLVING
  /\ GoOn \/ Return
  /\ UNCHANGED <<used, calls>>

terminate ==
  /\ state \in VALID \cup {SOLVING}
  /\ termination_forced' = TRUE
  /\ UNCHANGED <<state, dataVars, used, asked, outlived, calls, tick>>

Next ==
  \/ \E lit \in UserLiterals : add(lit) \/ constrain(lit) \/ assume(lit)
  \/ AddZero \/ constrain(0) \/ reset_assumptions \/ reset_constraint \/ limit \/ lookahead
  \/ solve \/ Poll \/ terminate

Spec == Init /\ [][Next]_vars /\ WF_vars(Poll)

-----------------------------------------------------------------------------
(***************************************************************************)
(* val and failed are about the formula and the assumptions of the user:   *)
(* whatever is called after solve, while the solver says SATISFIED or      *)
(* UNSATISFIED nothing the answer depends on has changed.                  *)
(***************************************************************************)
AnswerIsCurrent ==
  state \in {SATISFIED, UNSATISFIED} =>
    /\ used.formula = formula /\ used.assumptions = assumptions /\ used.constraint = constraint

(* By cadical.hpp assumptions are "for next call to 'solve'", "reset after *)
(* the call to 'solve' as well as after returning from 'simplify' and      *)
(* 'lookahead", and the constraint has the "same lifetime".  The code      *)
(* keeps both over lookahead, and the constraint over a solve that returns *)
(* 0, until they are reset, replaced or answered.  solve runs under what   *)
(* was asked since then and these remains, no more and no less.            *)
RequestsForOneSolve ==
  state = SOLVING => /\ used.assumptions = asked.assumptions \cup outlived.assumptions
                     /\ used.constraint = asked.constraint \cup outlived.constraint

(* A limit is for one call: it never stops a later one.                    *)
LimitsForOneSolve == state = SOLVING => used.limited = asked.limited

(* What was asked, and for how long, in one formula.                       *)
ForOneSolve == AnswerIsCurrent /\ RequestsForOneSolve /\ LimitsForOneSolve

(* A request to terminate that comes while solve runs makes it return, even*)
(* if search would go on forever.                                          *)
TerminateReturns == (state = SOLVING /\ termination_forced) ~> state /= SOLVING

=============================================================================
