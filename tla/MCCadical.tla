----------------------------- MODULE MCCadical -----------------------------
(***************************************************************************)
(* CaDiCaL without its search loop, in one model: incremental use and all  *)
(* techniques that run between searches (External), the two ways to guess  *)
(* a model before search (Lucky, Walk), and the numbering of variables     *)
(* (Compact).  A behaviour is one of one of them: `part' says which; the   *)
(* variables of the others have a dummy value, External's those of a       *)
(* solver without clauses.  Three variables.                               *)
(***************************************************************************)
EXTENDS External

(***************************************************************************)
(* External: formulas for incremental use, equivalences, definitions and   *)
(* chains on which the techniques remove variables and clauses, and one    *)
(* that is unsatisfiable; and for one call only, {1, 2, 3} with a binary   *)
(* and any other clause.  Search may have learned one clause.              *)
(***************************************************************************)
MCIncremental ==
  { {{-1, 2}, {1, -2}, {2, 3}}, {{-1, 2}, {1, 3}}, {{1}, {-1, 2}, {-1, -2}}, {{1, 2, 3}, {-1, 2}, {-1, 3}} }
ClausesOf(n) == {c \in SUBSET Lit : Cardinality(c) = n /\ ~Tautology(c)}
MCSmall == {{{1, 2, 3}, c, d} : c \in ClausesOf(2), d \in ClausesOf(2) \cup ClausesOf(3)}
MCFormulas == MCIncremental \cup MCSmall
MCAddable == {{1, -2}, {-3}}
MCAssumable == {1, -2}

MCInitExternal ==
  /\ InitExternal
  /\ \/ calls = 0 /\ original \in MCIncremental /\ internal.red = {}
     \/ calls = 1 /\ original \in MCSmall /\ ~restoreflush

NoClauses ==
  /\ original = {} /\ internal = Fresh({}, {}) /\ phase = "idle" /\ backward = <<>>
  /\ schedule = {} /\ pured = FALSE /\ round = NoRound /\ restoreflush = FALSE /\ tainted = {}
  /\ constraint = NoConstraint /\ api = "user" /\ calls = 0 /\ ops = 0 /\ techniques = 0

CONSTANTS MaxFlips, MaxRounds, MaxExternal, MaxFreeze, MaxCompacts
VARIABLES
  part,
  irredundant, redundant, trail, way, pc, left, terminated, res, clauses, vals, broken,
  watched, flips, rounds, minimum, old_minimum, least, saved, caller, answer, e2i, i2e,
  status, frozentab, queue, efrozen, eassumptions, econstraint, iconstraint,
  unsat_constraint, compacts

(***************************************************************************)
(* Lucky: three binary clauses with or without a unit, and formulas of     *)
(* five clauses: some of those no constant, forward or backward phase      *)
(* satisfies, so that the Horn phases succeed or fail.                     *)
(***************************************************************************)
LuckyFormulas ==
  {F \cup U : F \in kSubset(3, ClausesOf(2)), U \in {{}, {{1}}}}
    \cup {F \cup {{1, 2}, {-1, -2, -3}} : F \in kSubset(3, ClausesOf(2))}

L == INSTANCE Lucky WITH phase <- way, Formulas <- LuckyFormulas

(***************************************************************************)
(* Walk: satisfiable formulas; the clause that may be added makes the      *)
(* second one lose a model.  The assumptions may contradict themselves, a  *)
(* clause, or neither.                                                     *)
(***************************************************************************)
W == INSTANCE Walk WITH
       Formulas <- {{{1, 2}, {-1, 3}, {-2, -3, 1}}, {{1, 2, 3}, {-1, -2}, {-2, -3}, {2, 3}}},
       Added <- {{1, -2}},
       Assumed <- {{}, {-1, 3}, {-1, -2}, {1, -1}}

V == INSTANCE Compact WITH UserClauses <- {{1, -2}, {-1, 2, 3}},
                           UserConstraints <- {{1, -3}}, constraint <- iconstraint

-----------------------------------------------------------------------------
MCInit ==
  \/ /\ part = "External" /\ MCInitExternal
     /\ irredundant = 0 /\ redundant = 0 /\ trail = 0 /\ way = 0 /\ pc = "none" /\ left = 0
     /\ terminated = 0 /\ res = 0 /\ clauses = 0 /\ vals = 0 /\ broken = 0 /\ watched = 0
     /\ flips = 0 /\ rounds = 0 /\ minimum = 0 /\ old_minimum = 0 /\ least = 0
     /\ saved = 0 /\ caller = 0 /\ answer = 0 /\ e2i = 0 /\ i2e = 0 /\ status = 0
     /\ frozentab = 0 /\ queue = 0 /\ efrozen = 0 /\ eassumptions = 0
     /\ econstraint = 0 /\ iconstraint = 0 /\ unsat_constraint = 0 /\ compacts = 0
  \/ /\ part = "Lucky" /\ L!Init /\ NoClauses
     /\ assumptions = {} /\ clauses = 0 /\ vals = 0 /\ broken = 0 /\ watched = 0
     /\ flips = 0 /\ rounds = 0 /\ minimum = 0 /\ old_minimum = 0 /\ least = 0
     /\ saved = 0 /\ caller = 0 /\ answer = 0 /\ e2i = 0 /\ i2e = 0 /\ status = 0
     /\ frozentab = 0 /\ queue = 0 /\ efrozen = 0 /\ eassumptions = 0
     /\ econstraint = 0 /\ iconstraint = 0 /\ unsat_constraint = 0 /\ compacts = 0
  \/ /\ part = "Walk" /\ W!Init /\ NoClauses
     /\ irredundant = 0 /\ redundant = 0 /\ trail = 0 /\ way = 0 /\ left = 0
     /\ terminated = 0 /\ res = 0 /\ e2i = 0 /\ i2e = 0 /\ status = 0 /\ frozentab = 0
     /\ queue = 0 /\ efrozen = 0 /\ eassumptions = 0
     /\ econstraint = 0 /\ iconstraint = 0 /\ unsat_constraint = 0 /\ compacts = 0
  \/ /\ part = "Compact" /\ V!Init /\ NoClauses
     /\ irredundant = 0 /\ redundant = 0 /\ trail = 0 /\ way = 0 /\ pc = "none" /\ left = 0
     /\ terminated = 0 /\ res = 0 /\ broken = 0 /\ watched = 0 /\ flips = 0 /\ rounds = 0
     /\ minimum = 0 /\ old_minimum = 0 /\ least = 0 /\ caller = 0 /\ answer = 0

idle == <<original, internal, phase, backward, schedule, pured, round, techniques, restoreflush,
          tainted, constraint, api, calls, ops>>

ExternalStep ==
  /\ part = "External" /\ NextExternal
  /\ UNCHANGED <<part, irredundant, redundant, trail, way, pc, left, terminated, res,
               clauses, vals, broken, watched, flips, rounds, minimum, old_minimum,
               least, saved, caller, answer, e2i, i2e, status, frozentab, queue, efrozen,
               eassumptions, econstraint, iconstraint, unsat_constraint, compacts>>
LuckyStep ==
  /\ part = "Lucky" /\ L!Next
  /\ UNCHANGED <<part, idle, assumptions, clauses, vals, broken, watched, flips, rounds,
               minimum, old_minimum, least, saved, caller, answer, e2i, i2e, status,
               frozentab, queue, efrozen, eassumptions, econstraint, iconstraint,
               unsat_constraint, compacts>>
WalkStep ==
  /\ part = "Walk" /\ W!Next
  /\ UNCHANGED <<part, idle, irredundant, redundant, trail, way, left, terminated, res,
               e2i, i2e, status, frozentab, queue, efrozen, eassumptions, econstraint, iconstraint,
               unsat_constraint, compacts>>
CompactStep ==
  /\ part = "Compact" /\ V!Next
     (* at most one frozen variable, assumption or constraint at a time *)
  /\ Cardinality({e \in DOMAIN efrozen' : efrozen'[e] > 0}) + Cardinality(eassumptions')
       + (IF econstraint' = {} THEN 0 ELSE 1) <= 1
  /\ UNCHANGED <<part, idle, irredundant, redundant, trail, way, pc, left, terminated, res,
               broken, watched, flips, rounds, minimum, old_minimum, least, caller,
               answer>>

MCNext == ExternalStep \/ LuckyStep \/ WalkStep \/ CompactStep

allVars ==
  <<part, externalVars, irredundant, redundant, trail, way, pc, left, terminated, res, clauses, vals, broken,
    watched, flips, rounds, minimum, old_minimum, least, saved, caller, answer, e2i, i2e,
    status, frozentab, queue, efrozen, eassumptions, econstraint, iconstraint,
               unsat_constraint, compacts>>

MCSpec == MCInit /\ [][MCNext]_allVars

-----------------------------------------------------------------------------
(* Answers found before search are right: what lucky phases leave on the   *)
(* trail is a model; local search keeps the broken clauses, break counts   *)
(* and saved phases right after any number of flips, and its answer is     *)
(* right under clauses and assumptions that change between calls.          *)
GuessesRight ==
  /\ part = "Lucky" => L!LuckyIsModel /\ L!HornIsLucky
  /\ part = "Walk" => W!BrokenExact /\ W!BreakExact /\ W!BestSaved /\ W!AnswerSound

(* Renumbering: the maps between external and internal variables agree,    *)
(* assumptions and constraint are those of the user, and no compaction     *)
(* changes values, clauses, constraint, decision order or phases.          *)
CompactInvisible == [][part = "Compact" => V!KeepsView]_allVars

=============================================================================
