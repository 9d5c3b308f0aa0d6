------------------------------- MODULE Vivify -------------------------------
(***************************************************************************)
(* Internal::subsume of CaDiCaL: a round of forward subsumption and        *)
(* strengthening (subsume.cpp), vivification of irredundant and then of    *)
(* redundant clauses (vivify.cpp) and transitive reduction of the binary   *)
(* implication graph (transred.cpp), in this order.  What is scheduled     *)
(* (flags of recently added variables, glue, scores) and effort limits     *)
(* decide only which clauses are tried and when a round stops: any         *)
(* candidate may be next and a round may stop at any time.                 *)
(* Phases: "subsume", "vivify", "revivify" (redundant clauses), "transred".*)
(***************************************************************************)
EXTENDS Internal

vivifyVars == <<original, internal, phase>>

(***************************************************************************)
(* subsume_round: clauses without fixed literals, smaller ones first.  The *)
(* schedule is in the order of size and a clause is compared with those    *)
(* before it.                                                              *)
(***************************************************************************)
Connected(S, c) ==
  {d \in Clauses(S) \ {c} : Cardinality(d) <= Cardinality(c) /\ Unassigned(S, d) = d}

StartSubsume ==
  /\ phase = "idle" /\ ~internal.unsat
  /\ internal' = propagate(internal)
  /\ phase' = IF internal'.unsat THEN "idle" ELSE "subsume"
  /\ UNCHANGED original

(* subsume_check: flipped is the set of literals of subsuming that the     *)
(* candidate has negated.                                                  *)
Flipped(subsuming, subsumed) == subsuming \ subsumed
Subsumes(subsuming, subsumed) == subsuming \subseteq subsumed

Strengthens(subsuming, subsumed) ==
  Cardinality(Flipped(subsuming, subsumed)) = 1 /\ Negated(Flipped(subsuming, subsumed)) \subseteq subsumed

(* subsume_clause: a redundant clause that replaces an irredundant one     *)
(* becomes irredundant.                                                    *)
subsume_clause(S, d, c) ==
  IF c \in S.irr THEN new_irredundant(mark_garbage(S, {c}), d) ELSE mark_garbage(S, {c})

strengthen_clause(S, c, l) == replace(S, c, c \ {l})

try_to_subsume_clause(c) ==
  /\ phase = "subsume"
  /\ c \in Clauses(internal) /\ Cardinality(c) > 2 /\ Unassigned(internal, c) = c
  /\ \E d \in Connected(internal, c) :
       \/ Subsumes(d, c) /\ internal' = subsume_clause(internal, d, c)
       \/ /\ Strengthens(d, c)
          /\ \E l \in Negated(Flipped(d, c)) : internal' = strengthen_clause(internal, c, l)
  /\ UNCHANGED <<original, phase>>

(***************************************************************************)
(* vivify_clause: the negations of the candidate's literals are decided    *)
(* one after the other and propagated, ignoring the candidate, over the    *)
(* irredundant clauses or over all.  W.decisions are the literals of the   *)
(* candidate that were decided to be false, W.subsume what made the loop   *)
(* stop: a literal implied to be true, or conflict.  Decisions shared with *)
(* the previous candidate are reused: this saves propagations only.        *)
(***************************************************************************)
Conflict == 0
Nothing == N + 1

vivify_propagate(F, a) == UnitClosure(F, a)

VivifyLiteral(F, W, l) ==
  LET up == vivify_propagate(F, W.val \cup {-l})
  IN IF W.subsume /= Nothing THEN W
     ELSE IF l \in W.val THEN [W EXCEPT !.subsume = l]
     ELSE IF -l \in W.val THEN [W EXCEPT !.remove = TRUE]
     ELSE [W EXCEPT !.decisions = @ \cup {l}, !.val = IF Conflicts(up) THEN @ ELSE up,
                    !.subsume = IF Conflicts(up) THEN Conflict ELSE Nothing]

VivifyLiterals(F, S, lits) ==
  FoldLeft(LAMBDA W, l : VivifyLiteral(F, W, l),
           [val |-> S.val, decisions |-> {}, subsume |-> Nothing, remove |-> FALSE], lits)

(* vivify_analyze_redundant: the decisions conflict analysis reaches lead  *)
(* to the same end by themselves; which ones depends on the order of       *)
(* propagation.                                                            *)
EndsAlike(F, S, W, D) ==
  LET up == UnitClosure(F, S.val \cup Negated(D))
  IN Conflicts(up) \/ W.subsume \in up

Analyzed(F, S, W) == {D \in SUBSET W.decisions : EndsAlike(F, S, W, D)}

OnlyBinary(F) == {d \in F : Cardinality(d) = 2}

(* vivify_strengthen: a unit is propagated.                                *)
vivify_strengthen(S, c, d) ==
  IF Cardinality(d) = 1 THEN propagate(mark_garbage(assign_unit(S, CHOOSE l \in d : TRUE), {c}))
  ELSE replace(S, c, d)

(* The outcome in redundant mode when the loop stopped: remove the clause  *)
(* if only binary reasons are involved, else strengthen it to the seen     *)
(* decisions and the implied literal unless all its literals are such.     *)
vivify_post_process_analysis(S, F, c, W, D) ==
  LET kept == D \cup ({W.subsume} \ {Conflict})
  IN IF EndsAlike(OnlyBinary(F), S, W, D) THEN mark_garbage(S, {c})
     ELSE IF Unassigned(S, c) = kept THEN S
     ELSE vivify_strengthen(S, c, kept)

(* Irredundant candidates are propagated over irredundant clauses only.    *)
VivifyOver(S, c) == (IF phase = "vivify" THEN S.irr ELSE Clauses(S)) \ {c}

vivify_clause(c, lits) ==
  LET S == internal
      F == VivifyOver(S, c)
      W == VivifyLiterals(F, S, lits)
  IN /\ c \in (IF phase = "vivify" THEN S.irr ELSE S.red) /\ Cardinality(c) > 2
     /\ IF c \cap S.val /= {} THEN internal' = mark_garbage(S, {c})
        ELSE IF W.subsume /= Nothing THEN
          IF phase = "vivify" THEN internal' = mark_garbage(S, {c})
          ELSE \E D \in Analyzed(F, S, W) : internal' = vivify_post_process_analysis(S, F, c, W, D)
        ELSE IF W.remove THEN internal' = vivify_strengthen(S, c, W.decisions)
        ELSE UNCHANGED internal
     /\ UNCHANGED <<original, phase>>

VivifyRound ==
  /\ phase \in {"vivify", "revivify"} /\ ~internal.unsat
  /\ \E c \in Clauses(internal) : \E lits \in SetToSeqs(Unassigned(internal, c)) : vivify_clause(c, lits)

(***************************************************************************)
(* transred: a binary clause goes if there is another path from src to dst *)
(* in the binary implication graph, over irredundant clauses only if the   *)
(* clause is irredundant; src fails if both a literal and its negation are *)
(* reached.                                                                *)
(***************************************************************************)
TransredOver(S, c) == (IF c \in S.irr THEN S.irr ELSE Clauses(S)) \ {c}

transred(c, src, dst) ==
  LET S == internal
      reached == Reaches(TransredOver(S, c), src)
  IN /\ phase = "transred" /\ ~S.unsat
     /\ c \in Clauses(S) /\ c = {-src, dst} /\ Unassigned(S, c) = c
     /\ \/ dst \in reached /\ internal' = mark_garbage(S, {c})
        \/ Conflicts(reached) /\ internal' = propagate(assign_unit(S, -src))
     /\ UNCHANGED <<original, phase>>

(* The next part of subsume: watches are connected and propagated again.   *)
NextPart ==
  /\ phase \in {"subsume", "vivify", "revivify", "transred"}
  /\ internal' = IF internal.unsat THEN internal ELSE propagate(internal)
  /\ phase' = IF internal'.unsat THEN "idle"
              ELSE [subsume |-> "vivify", vivify |-> "revivify", revivify |-> "transred",
                    transred |-> "idle"][phase]
  /\ UNCHANGED original

NextSubsume ==
  \/ StartSubsume \/ NextPart \/ VivifyRound
  \/ \E c \in Clauses(internal) : try_to_subsume_clause(c)
  \/ \E c \in Clauses(internal) : \E l, k \in c : l /= k /\ transred(c, -l, k)

SpecSubsume == InitInternal /\ [][NextSubsume]_vivifyVars

=============================================================================
