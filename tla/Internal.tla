------------------------------ MODULE Internal ------------------------------
(***************************************************************************)
(* The clause database of CaDiCaL (cadical/src, class Internal) as its     *)
(* simplification techniques see it between searches, at decision level 0. *)
(* It is one record, so that a technique is an operator from records to    *)
(* records:                                                                *)
(*   irr, red   irredundant and redundant clauses that are not garbage     *)
(*   val        literals fixed at the root; some may not be propagated yet *)
(*   unsat      the empty clause was derived                               *)
(*   status     of a variable: class Flags                                 *)
(*   extension  the reconstruction stack: pairs of a witness and a clause  *)
(*   frozentab  how often a variable is frozen: by the user, as assumption *)
(*              or by the constraint                                       *)
(* Clauses are sets, so copies of a clause count once; a clause that is    *)
(* marked garbage leaves the record at once.                               *)
(***************************************************************************)
EXTENDS Cnf, Sequences, SequencesExt

CONSTANTS
  Formulas,   \* the formulas a run starts from
  MaxLearned, \* bound on the redundant clauses a run starts with
  UserFrozen  \* variables the user froze before the run

VARIABLES
  original,   \* the formula the user added
  internal,   \* the record above
  phase       \* the technique that runs, "idle" between techniques

Status == {"active", "fixed", "eliminated", "pure", "substituted"}

Frozen == {v \in Var : internal.frozentab[v] > 0}
True(S) == S.val
False(S) == Negated(S.val)
assigned(S, l) == {l, -l} \cap S.val /= {}
Unassigned(S, c) == {l \in c : ~assigned(S, l)}
active(S, l) == S.status[VarOf(l)] = "active"
Occs(S, l) == {c \in S.irr : l \in c}
Fixed(S) == {{l} : l \in S.val}
Clauses(S) == S.irr \cup S.red

(* What binary clauses of F imply in one step, and the literals reachable  *)
(* from l in their implication graph.                                      *)
ImpliedBy(F, A) == A \cup {l \in Lit : \E k \in A : {-k, l} \in F}

Reaches(F, l) ==
  LET reach[k \in 0 .. 2 * N] == IF k = 0 THEN {l} ELSE ImpliedBy(F, reach[k - 1])
  IN reach[2 * N]

(***************************************************************************)
(* The changes techniques make.                                            *)
(***************************************************************************)
learn_empty_clause(S) == [S EXCEPT !.unsat = TRUE]

assign_unit(S, l) == [S EXCEPT !.val = @ \cup {l}, !.status[VarOf(l)] = "fixed"]

mark_garbage(S, C) == [S EXCEPT !.irr = @ \ C, !.red = @ \ C]

new_irredundant(S, c) == [S EXCEPT !.irr = @ \cup {c}, !.red = @ \ {c}]
new_redundant(S, c) == [S EXCEPT !.red = @ \cup ({c} \ S.irr)]

(* A clause keeps its kind when literals are removed from it.              *)
replace(S, c, d) == IF c \in S.irr THEN new_irredundant(mark_garbage(S, {c}), d)
                                   ELSE new_redundant(mark_garbage(S, {c}), d)

push_on_extension(S, c, w) == [S EXCEPT !.extension = Append(@, [witness |-> w, clause |-> c])]

mark_status(S, l, s) == [S EXCEPT !.status[VarOf(l)] = s]

(* propagate at level 0, over all clauses.                                 *)
propagate(S) ==
  LET up == UnitClosure(Clauses(S), S.val)
  IN IF Conflicts(up) THEN learn_empty_clause(S)
     ELSE [S EXCEPT !.val = up,
                    !.status = [v \in Var |-> IF {v, -v} \cap up /= {} THEN "fixed" ELSE @[v]]]

Propagated(S) == UnitClosure(Clauses(S), S.val) = S.val

(* mark_satisfied_clauses_as_garbage: satisfied clauses go, false literals *)
(* are flushed unless fewer than two others would be left.                 *)
Flushed(S, c) == IF Cardinality(c \ False(S)) < 2 THEN c ELSE c \ False(S)

mark_satisfied_clauses_as_garbage(S) ==
  [S EXCEPT !.irr = {Flushed(S, c) : c \in {d \in @ : d \cap S.val = {}}},
            !.red = {Flushed(S, c) : c \in {d \in @ : d \cap S.val = {}}}]

(* External::extend: from the last pair to the first, a clause the         *)
(* assignment falsifies has its witness flipped.                           *)
FlipWitness(p, a) == IF a \cap p.clause /= {} THEN a ELSE (a \ Negated(p.witness)) \cup p.witness

extend(a, extension) == FoldRight(FlipWitness, extension, a)

(* A run starts after search, which may have learned clauses.              *)
Fresh(F, R) ==
  [irr |-> {c \in F : Cardinality(c) > 1}, red |-> R \ F, unsat |-> FALSE, extension |-> <<>>,
   frozentab |-> [v \in Var |-> IF v \in UserFrozen THEN 1 ELSE 0],
   val |-> UNION {c \in F : Cardinality(c) = 1},
   status |-> [v \in Var |-> IF {v} \in F \/ {-v} \in F THEN "fixed" ELSE "active"]]

Learnable(F) ==
  {r \in UNION {{Resolvent(c, d, l) : l \in {k \in c : -k \in d}} : c \in F, d \in F} :
     Cardinality(r) > 1 /\ ~Tautology(r)}

InitInternal ==
  /\ original \in Formulas
  /\ phase = "idle"
  /\ \E R \in UNION {kSubset(k, Learnable(original)) : k \in 0 .. MaxLearned} :
       internal = Fresh(original, R)

-----------------------------------------------------------------------------
(* Types: clauses have at least two literals and are no tautologies, fixed *)
(* literals do not clash.                                                  *)
TypeInternal ==
  /\ \A c \in Clauses(internal) : c \subseteq Lit /\ Cardinality(c) >= 2 /\ ~Tautology(c)
  /\ internal.unsat \/ ~Conflicts(internal.val)
  /\ internal.status \in [Var -> Status]
  /\ \A v \in Var : internal.status[v] = "fixed" <=> {v, -v} \cap internal.val /= {}

(***************************************************************************)
(* What may be concluded: every clause and every fixed literal follows     *)
(* from the user's formula, so an empty clause means that the formula has  *)
(* no model, with or without assumptions.                                  *)
(***************************************************************************)
DerivesConsequences ==
  /\ \A c \in Clauses(internal) \cup Fixed(internal) : Implies(original, c)
  /\ internal.unsat => ~Satisfiable(original)

(***************************************************************************)
(* What may be forgotten: the stack of removed clauses turns every         *)
(* assignment that satisfies the clauses that are left into a model of the *)
(* user's formula, without touching frozen variables.                      *)
(***************************************************************************)
Reconstructs ==
  \A a \in Models(internal.irr \cup Fixed(internal)) :
    LET m == extend(a, internal.extension)
    IN /\ Satisfies(m, original)
       /\ \A l \in a : VarOf(l) \in Frozen => l \in m

(***************************************************************************)
(* Variables that were eliminated, found pure or substituted are gone: no  *)
(* irredundant clause has one, and no clause at all when search continues, *)
(* so search, the techniques and the user's model never meet one.          *)
(***************************************************************************)
Removed == {v \in Var : internal.status[v] \in {"eliminated", "pure", "substituted"}}

InactiveGone ==
  \A c \in IF phase = "idle" THEN Clauses(internal) ELSE internal.irr : VarsOf(c) \cap Removed = {}

=============================================================================
