------------------------------ MODULE Blocked ------------------------------
(***************************************************************************)
(* Three techniques of CaDiCaL that remove clauses which do not follow from*)
(* the others: blocked clauses and pure literals (block.cpp), covered      *)
(* clauses (cover.cpp) and globally blocked clauses (condition.cpp).  What *)
(* they remove is pushed on the extension stack with the literals to flip. *)
(* Heaps, move-to-front lists and effort limits decide only what is tried  *)
(* next and when a technique stops: here anything scheduled may be next,   *)
(* and a technique may stop at any time.  Phases: "block", "cover" and      *)
(* "condition".                                                            *)
(***************************************************************************)
EXTENDS Internal

CONSTANTS
  BlockMinClsLim, BlockMaxClsLim,  \* opts.blockminclslim, opts.blockmaxclslim
  CoverMinClsLim                   \* opts.coverminclslim

VARIABLES
  schedule,   \* block: the literals to try; cover: the clauses to try
  pured,      \* block: a pure literal was found
  round       \* condition: the assignment and the clauses the round started with

blockedVars == <<original, internal, phase, schedule, pured, round>>

NoRound == [assigned |-> {}, clauses |-> {}]

(* Pushing every clause of a set with the same blocking literal.           *)
PushAll(S, C, l) == FoldLeft(LAMBDA T, c : push_on_extension(T, c, {l}), S, SetToSeq(C))

(***************************************************************************)
(* Blocked clauses (block.cpp).                                            *)
(***************************************************************************)
TooLarge(c) == Cardinality(c) > BlockMaxClsLim
marked_skip(S, l) == \E c \in Occs(S, -l) : TooLarge(c)

(* is_blocked_clause: all resolvents on l are tautologies.                 *)
is_blocked_clause(S, c, l) == \A d \in Occs(S, -l) : (c \ {l}) \cap Negated(d \ {-l}) /= {}

(* block_schedule: literals of active variables the user did not freeze.   *)
block_schedule(S) ==
  {l \in Lit : active(S, l) /\ VarOf(l) \notin Frozen /\ ~marked_skip(S, l)}

block_pure_literal(S, l) ==
  mark_status(mark_garbage(PushAll(S, Occs(S, l), l), Occs(S, l)), l, "pure")

(* block_literal_with_one_negative_occ: not if the only clause with -l is  *)
(* too large.                                                              *)
block_literal_with_one_negative_occ(S, l) ==
  LET blocked == {c \in Occs(S, l) : /\ Cardinality(c) \in BlockMinClsLim .. BlockMaxClsLim
                                     /\ is_blocked_clause(S, c, l)}
  IN IF \E d \in Occs(S, -l) : TooLarge(d) THEN S
     ELSE mark_garbage(PushAll(S, blocked, l), blocked)

(* block_candidates: clauses with a literal that some clause with -l has   *)
(* negated.                                                                *)
block_candidates(S, l) ==
  {c \in Occs(S, l) : /\ Cardinality(c) \in BlockMinClsLim .. BlockMaxClsLim
                      /\ (c \ {l}) \cap Negated(UNION Occs(S, -l)) /= {}}

(* block_impossible: a clause with -l clashes with no candidate.           *)
block_impossible(S, C, l) ==
  Cardinality(C) > 1 /\ \E d \in Occs(S, -l) : (d \ {-l}) \cap Negated(UNION C) = {}

block_literal_with_at_least_two_negative_occs(S, l) ==
  LET candidates == block_candidates(S, l)
      blocked == {c \in candidates : is_blocked_clause(S, c, l)}
  IN IF \/ \E d \in Occs(S, -l) : TooLarge(d)
        \/ candidates = {} \/ block_impossible(S, candidates, l)
     THEN S
     ELSE mark_garbage(PushAll(S, blocked, l), blocked)

StartBlock ==
  /\ phase = "idle" /\ ~internal.unsat /\ internal.irr /= {}
  /\ LET S == propagate(internal)
         T == mark_satisfied_clauses_as_garbage(S)
     IN \/ S.unsat /\ internal' = S /\ UNCHANGED <<phase, schedule>>
        \/ ~S.unsat /\ internal' = T /\ phase' = "block" /\ schedule' = block_schedule(T)
  /\ pured' = FALSE
  /\ UNCHANGED <<original, round>>

(* block_literal and block_reschedule: removing a clause with a literal    *)
(* gives its negation another chance.                                      *)
block_reschedule(S, T) ==
  {l \in Lit : /\ -l \in UNION (S.irr \ T.irr)
               /\ active(T, l) /\ VarOf(l) \notin Frozen /\ ~marked_skip(T, l)}

block_literal(l) ==
  LET S == internal
      n == Cardinality(Occs(S, -l))
      T == IF ~active(S, l) \/ (n > 0 /\ Occs(S, l) = {}) THEN S
           ELSE IF n = 0 THEN block_pure_literal(S, l)
           ELSE IF n = 1 THEN block_literal_with_one_negative_occ(S, l)
           ELSE block_literal_with_at_least_two_negative_occs(S, l)
  IN /\ phase = "block" /\ l \in schedule
     /\ internal' = T
     /\ schedule' = (schedule \ {l}) \cup block_reschedule(S, T)
     /\ pured' = (pured \/ (active(S, l) /\ n = 0))
     /\ UNCHANGED <<original, phase, round>>

(* mark_redundant_clauses_with_eliminated_variables_as_garbage, if a pure  *)
(* literal was found.                                                      *)
mark_redundant_clauses_with_eliminated_variables_as_garbage(S) ==
  mark_garbage(S, {c \in S.red : \E v \in VarsOf(c) : S.status[v] \in {"eliminated", "pure"}})

EndBlock ==
  /\ phase = "block"
  /\ internal' = IF pured THEN mark_redundant_clauses_with_eliminated_variables_as_garbage(internal)
                 ELSE internal
  /\ phase' = "idle" /\ schedule' = {} /\ pured' = FALSE
  /\ UNCHANGED <<original, round>>

(***************************************************************************)
(* Covered clauses (cover.cpp).  K holds a candidate's extended clause     *)
(* (added, in negated form: assigned), the literals it had or got by       *)
(* covered literal addition (covered) and the private extension stack.     *)
(***************************************************************************)
cover_push_extension(K, l) ==
  [K EXCEPT !.extend = Append(@, [witness |-> {l}, clause |-> Range(K.covered)])]

(* cover_propagate_asymmetric: propagation over the irredundant clauses but*)
(* the candidate.                                                          *)
cover_propagate_asymmetric(S, c, K) ==
  LET up == UnitClosure(S.irr \ {c}, K.assigned)
  IN [K EXCEPT !.assigned = up, !.tautological = Conflicts(up)]

(* cover_propagate_covered: literals that all resolution candidates share. *)
ResolutionCandidates(S, K, l) ==
  {d \in Occs(S, -l) : (d \ {-l}) \cap K.assigned = {}}

Intersection(S, K, l) ==
  {o \in UNION ResolutionCandidates(S, K, l) :
     o /= -l /\ -o \notin K.assigned /\ \A d \in ResolutionCandidates(S, K, l) : o \in d}

covered_literal_addition(S, K, l) ==
  LET I == Intersection(S, K, l)
  IN [cover_push_extension(K, l) EXCEPT !.assigned = @ \cup Negated(I),
                                        !.covered = @ \o SetToSeq(I)]

cover_propagate_covered(S, K, l) ==
  IF VarOf(l) \in Frozen THEN K ELSE
  IF ResolutionCandidates(S, K, l) = {} THEN [cover_push_extension(K, l) EXCEPT !.tautological = TRUE]
  ELSE IF Intersection(S, K, l) = {} THEN K
  ELSE covered_literal_addition(S, K, l)

(* cover_clause: asymmetric literals first, then the first covered literal *)
(* that adds something, until nothing changes.                             *)
CoverPass(S, c, K) ==
  LET A == cover_propagate_asymmetric(S, c, K)
      Try(B, l) == IF B /= A THEN B ELSE cover_propagate_covered(S, B, l)
  IN IF K.tautological \/ A.tautological THEN A ELSE FoldLeft(Try, A, A.covered)

StartCover ==
  /\ phase = "idle" /\ ~internal.unsat /\ internal.irr /= {}
  /\ LET S == propagate(internal)
         T == mark_garbage(S, {c \in S.irr : c \cap S.val /= {}})
     IN \/ S.unsat /\ internal' = S /\ UNCHANGED <<phase, schedule>>
        \/ /\ ~S.unsat /\ internal' = T /\ phase' = "cover"
           /\ schedule' = {c \in T.irr : /\ Cardinality(c) >= CoverMinClsLim
                                         /\ ~(VarsOf(c) \subseteq Frozen)}
  /\ UNCHANGED <<original, pured, round>>

cover_clause(c, lits) ==
  LET S == internal
      start == [assigned |-> S.val \cup Negated(c), covered |-> lits, extend |-> <<>>,
                tautological |-> FALSE]
      K == FoldLeft(LAMBDA L, i : CoverPass(S, c, L), start, [i \in 1 .. N + 1 |-> i])
  IN /\ phase = "cover" /\ c \in schedule
     /\ internal' = IF K.tautological
                    THEN [mark_garbage(S, {c}) EXCEPT !.extension = @ \o K.extend]
                    ELSE S
     /\ schedule' = schedule \ {c}
     /\ UNCHANGED <<original, phase, pured, round>>

EndCover ==
  /\ phase = "cover"
  /\ phase' = "idle" /\ schedule' = {}
  /\ UNCHANGED <<original, internal, pured, round>>

(***************************************************************************)
(* Globally blocked clauses (condition.cpp).  A round starts from the      *)
(* assignment of search after a decision, completed by saved phases and    *)
(* without root-level, inactive and frozen variables.                      *)
(***************************************************************************)
StartCondition ==
  /\ phase = "idle" /\ ~internal.unsat /\ Propagated(internal) /\ internal.irr /= {}
  /\ \E a \in Total, d \in Lit :
       /\ active(internal, d) /\ d \in a
       /\ UnitClosure(Clauses(internal), internal.val \cup {d}) \subseteq a
       /\ internal' = mark_garbage(internal, {c \in internal.irr : c \cap internal.val /= {}})
       /\ round' = [assigned |-> {l \in a : active(internal, l) /\ VarOf(l) \notin Frozen},
                    clauses |-> internal'.irr]
  /\ phase' = "condition"
  /\ UNCHANGED <<original, schedule, pured>>

(* The part that only falsified clauses touch is conditional.              *)
InitialConditional(R) ==
  UNION {Negated(c) \cap R.assigned : c \in {d \in R.clauses : d \cap R.assigned = {}}}

(* Refinement for a candidate: conditional literals that it does not have  *)
(* negated are unassigned, and the clauses this leaves without a true      *)
(* literal make other literals conditional.                                *)
Unassign(R, c, P) == [P EXCEPT !.assigned = @ \ {l \in P.conditional : -l \notin c}]

Refine(R, c, P) ==
  LET U == Unassign(R, c, P)
      touched == {d \in R.clauses : d \cap U.assigned = {}}
  IN [U EXCEPT !.conditional = @ \cup (UNION {Negated(d) \cap U.assigned : d \in touched})]

Autarky(R, c) ==
  LET start == [assigned |-> R.assigned, conditional |-> InitialConditional(R)]
      P == FoldLeft(LAMBDA Q, i : Refine(R, c, Q), start, [i \in 1 .. 2 * N |-> i])
  IN P.assigned \ P.conditional

(* A candidate with an autarky literal goes; the witness is the autarky.   *)
(* Clauses that are reasons are skipped, which depends on the order of     *)
(* propagation: any candidate may be tried.                                *)
condition_clause(c) ==
  LET autarky == Autarky(round, c)
  IN /\ phase = "condition" /\ c \in round.clauses \cap internal.irr
     /\ c \cap autarky /= {}
     /\ internal' = mark_garbage(push_on_extension(internal, c, autarky), {c})
     /\ UNCHANGED <<original, phase, schedule, pured, round>>

EndCondition ==
  /\ phase = "condition"
  /\ phase' = "idle" /\ round' = NoRound
  /\ UNCHANGED <<original, internal, schedule, pured>>

-----------------------------------------------------------------------------
InitBlocked ==
  InitInternal /\ schedule = {} /\ pured = FALSE /\ round = NoRound

NextBlocked ==
  \/ StartBlock \/ EndBlock
  \/ \E l \in Lit : block_literal(l)
  \/ StartCover \/ EndCover
  \/ \E c \in internal.irr : \E lits \in SetToSeqs(c \ False(internal)) : cover_clause(c, lits)
  \/ StartCondition \/ EndCondition
  \/ \E c \in internal.irr : condition_clause(c)

SpecBlocked == InitBlocked /\ [][NextBlocked]_blockedVars

=============================================================================
