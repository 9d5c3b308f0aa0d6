-------------------------------- MODULE Walk --------------------------------
(***************************************************************************)
(* CaDiCaL's local search: walk_round flips variables of falsified clauses *)
(* and keeps the phases of the best assignment it has met.  rephase runs   *)
(* it between restarts for its phases alone; local_search runs rounds      *)
(* before CDCL, and answers when one satisfies all clauses.  A satisfied   *)
(* clause is watched by one true literal, the others are in broken.        *)
(* Scores only choose among the literals of a clause, so any may be taken; *)
(* the limit on propagations and a termination may end a round at any time *)
(* and the initial phases come from a search that is not modelled here, so *)
(* they are arbitrary.  Redundant clauses are not walked (walkredundant    *)
(* is off) and clauses have no fixed literals (garbage_collection); units  *)
(* have been propagated by the callers, so the propagation at the root     *)
(* level with which a round begins does nothing and never fails.           *)
(***************************************************************************)
EXTENDS Cnf

CONSTANTS
  Formulas,     \* sets of clauses a solver may start with
  Added,        \* clauses that may be added between calls
  Assumed,      \* sets of assumptions
  MaxFlips,     \* bound on the flips of a round
  MaxRounds     \* lim.localsearch

VARIABLES
  clauses, assumptions,
  vals,         \* true literals
  broken, watched,
  flips, rounds,
  minimum,      \* stats.walk.minimum, or Infinite
  old_minimum,  \* old_global_minimum
  least,        \* minimum of the round
  saved,        \* phases.saved, as the literals it makes true
  caller, pc, answer

round == <<vals, broken, watched, flips, least, old_minimum>>
phases == <<minimum, saved>>
vars == <<clauses, assumptions, round, rounds, phases, caller, pc, answer>>

Infinite == 100
Falsified(F, a) == {c \in F : c \cap a = {}}

Init ==
  /\ clauses \in Formulas /\ assumptions = {}
  /\ vals = {} /\ broken = {} /\ watched = <<>> /\ flips = 0 /\ least = Infinite
  /\ rounds = 0 /\ minimum = Infinite /\ old_minimum = Infinite
  /\ saved = {-v : v \in Var}
  /\ caller = "none" /\ pc = "idle" /\ answer = 0

-----------------------------------------------------------------------------
(* Between calls: a clause is added, or the search and the other kinds of  *)
(* rephasing (original, inverted, flipping, random, best) change phases.   *)
AddClause ==
  /\ pc = "idle"
  /\ \E c \in Added \ clauses : clauses' = clauses \cup {c}
  /\ assumptions' = {} /\ answer' = 0
  /\ UNCHANGED <<round, rounds, phases, caller, pc>>

Rephase ==
  /\ pc = "idle"
  /\ saved' \in Total \ {saved}
  /\ UNCHANGED <<clauses, assumptions, round, rounds, minimum, caller, pc, answer>>

Call(who) ==
  /\ pc = "idle"
  /\ \E A \in Assumed : assumptions' = A
  /\ caller' = who /\ rounds' = 0 /\ pc' = "start" /\ answer' = 0
  /\ UNCHANGED <<clauses, round, phases>>

(* walk, from rephase_walk, and local_search, from solve.                  *)
RephaseWalk == Call("rephase")
LocalSearch == Call("local_search")

-----------------------------------------------------------------------------
(* walk_save_minimum: the phases of an assignment with fewer falsified     *)
(* clauses than any before, of this round or an earlier one.               *)
walk_save_minimum(a, b) ==
  IF Cardinality(b) < minimum THEN minimum' = Cardinality(b) /\ saved' = a ELSE UNCHANGED phases

(* The start of walk_round: assumptions are assigned first, and fail if    *)
(* they contradict each other or leave a clause no other literal.          *)
Failing ==
  \/ Conflicts(assumptions)
  \/ \E c \in clauses : c \subseteq Negated(assumptions)

StartFailing ==
  /\ pc = "start" /\ Failing
  /\ pc' = "end" /\ answer' = 20
  /\ UNCHANGED <<clauses, assumptions, round, rounds, phases, caller>>

StartRound ==
  /\ pc = "start" /\ ~Failing
  /\ \E a \in Total :
       /\ assumptions \subseteq a
       /\ vals' = a /\ broken' = Falsified(clauses, a)
       /\ \E w \in [clauses \ Falsified(clauses, a) -> a] :
            (\A c \in DOMAIN w : w[c] \in c) /\ watched' = w
       /\ least' = Cardinality(Falsified(clauses, a))
       /\ walk_save_minimum(a, Falsified(clauses, a))
  /\ flips' = 0 /\ old_minimum' = minimum
  /\ pc' = "flip"
  /\ UNCHANGED <<clauses, assumptions, rounds, caller, answer>>

(* walk_flip_lit: clauses with the literal are made and watched by it;     *)
(* clauses its negation watched get another true literal or are broken.    *)
ReplacementsBefore(c, a) == (c \cap a) \cup (c \cap vals)

Replacements(c, a) == c \cap a

walk_flip_lit(l) ==
  LET a == (vals \ {-l}) \cup {l}
      made == {c \in broken : l \in c}
      unwatched == {c \in DOMAIN watched : watched[c] = -l}
      lost == {c \in unwatched : Replacements(c, a) = {}}
  IN /\ vals' = a /\ broken' = (broken \ made) \cup lost
     /\ \E r \in [unwatched \ lost -> Lit] :
          /\ \A c \in DOMAIN r : r[c] \in Replacements(c, a)
          /\ watched' = [c \in (DOMAIN watched \ lost) \cup made |->
                           IF c \in made THEN l
                           ELSE IF c \in unwatched THEN r[c] ELSE watched[c]]

(* walk_pick_clause and walk_pick_lit: assumptions are not flipped.        *)
Pickable(c) == {l \in c : l \notin Negated(assumptions)}

Flip ==
  /\ pc = "flip" /\ flips < MaxFlips
  /\ \E c \in broken : \E l \in Pickable(c) : walk_flip_lit(l)
  /\ flips' = flips + 1
  /\ IF Cardinality(broken') < least
     THEN least' = Cardinality(broken') /\ walk_save_minimum(vals', broken')
     ELSE UNCHANGED <<least, phases>>
  /\ UNCHANGED <<clauses, assumptions, rounds, old_minimum, caller, pc, answer>>

(* The end of walk_round: no broken clause, the limit, or a termination.   *)
EndRound ==
  /\ pc = "flip"
  /\ answer' = IF least > 0 THEN 0 ELSE 10
  /\ pc' = "end"
  /\ UNCHANGED <<clauses, assumptions, round, rounds, phases, caller>>

-----------------------------------------------------------------------------
(* The caller: walk ignores the answer; local_search has more rounds, and  *)
(* tries the saved phases if one found a model.  For the answer 20 it only *)
(* computes the failed assumptions (see Cdcl).                             *)
Return ==
  /\ pc = "end"
  /\ IF caller = "rephase" THEN pc' = "idle" /\ answer' = 0 /\ UNCHANGED <<rounds, vals>>
     ELSE \/ answer = 0 /\ rounds < MaxRounds - 1 /\ pc' = "start"
             /\ rounds' = rounds + 1 /\ UNCHANGED <<answer, vals>>
          \/ answer = 10 /\ pc' = "try" /\ vals' = {} /\ answer' = 0 /\ UNCHANGED rounds
          \/ /\ answer = 20 \/ (answer = 0 /\ rounds >= MaxRounds - 1)
             /\ pc' = "idle" /\ UNCHANGED <<rounds, answer, vals>>
  /\ UNCHANGED <<clauses, assumptions, broken, watched, flips, least, old_minimum, phases, caller>>

(* try_to_satisfy_formula_by_saved_phases: decide, assumptions first, then *)
(* variables in any order by their saved phase, and propagate.             *)
Decisions ==
  LET open == {l \in assumptions : l \notin vals}
  IN IF open /= {} THEN open ELSE {l \in saved : {l, -l} \cap vals = {}}

Satisfied == \A v \in Var : {v, -v} \cap vals /= {}

TrySaved ==
  /\ pc = "try"
  /\ \/ Satisfied /\ assumptions \subseteq vals /\ answer' = 10 /\ pc' = "idle" /\ UNCHANGED vals
     \/ (\E l \in assumptions : -l \in vals) /\ answer' = 20 /\ pc' = "idle" /\ UNCHANGED vals
     \/ \E l \in Decisions :
          /\ -l \notin vals
          /\ LET a == UnitClosure(clauses, vals \cup {l}) IN
             IF Conflicts(a) THEN pc' = "idle" /\ vals' = {} /\ UNCHANGED answer
             ELSE vals' = a /\ UNCHANGED <<pc, answer>>
  /\ UNCHANGED <<clauses, assumptions, broken, watched, flips, least, old_minimum, rounds, phases, caller>>

Next ==
  \/ AddClause \/ Rephase \/ RephaseWalk \/ LocalSearch
  \/ StartFailing \/ StartRound \/ Flip \/ EndRound \/ Return \/ TrySaved

Spec == Init /\ [][Next]_vars

-----------------------------------------------------------------------------
(***************************************************************************)
(* While a round runs, broken has exactly the falsified clauses, every     *)
(* other clause is watched by a true literal, and the assumptions hold:    *)
(* flips only look at clauses of one watch list and at broken.             *)
(***************************************************************************)
BrokenExact ==
  pc = "flip" =>
    /\ broken = Falsified(clauses, vals)
    /\ DOMAIN watched = clauses \ broken
    /\ \A c \in DOMAIN watched : watched[c] \in c \cap vals
    /\ assumptions \subseteq vals

(* The break count of a literal: the clauses it watches and alone satisfies. *)
walk_break_value(l) == Cardinality({c \in DOMAIN watched : watched[c] = l /\ c \cap vals = {l}})

(* They are the clauses that flipping the literal falsifies, although only *)
(* one watch list is visited.                                              *)
BreakExact ==
  pc = "flip" =>
    \A l \in vals : walk_break_value(l) = Cardinality(Falsified(clauses, (vals \ {l}) \cup {-l}) \ broken)

(* A round that improves on all earlier ones leaves the phases of its best *)
(* assignment, although it goes on flipping after it met it.               *)
BestSaved ==
  pc = "flip" /\ minimum < old_minimum =>
    minimum = least /\ Cardinality(Falsified(clauses, saved)) = minimum

(***************************************************************************)
(* What local_search answers.  The minimum is never reset: after a call    *)
(* that reached zero, no later round saves its phases, also when clauses   *)
(* were added or the assumptions changed.  The answer is right since the   *)
(* saved phases are propagated before they are trusted.                    *)
(***************************************************************************)
AnswerSound ==
  pc = "idle" /\ caller = "local_search" =>
    /\ answer = 10 => vals \in Models(clauses) /\ assumptions \subseteq vals
    /\ answer = 20 => ~Satisfiable(clauses \cup {{l} : l \in assumptions})

=============================================================================
