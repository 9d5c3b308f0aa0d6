------------------------------- MODULE Probe -------------------------------
(***************************************************************************)
(* Internal::probe of CaDiCaL: equivalent literal substitution             *)
(* (decompose.cpp), ternary resolution (ternary.cpp), removal of duplicated*)
(* binary clauses with hyper unary resolution (deduplicate.cpp) and failed *)
(* literal probing with hyper binary resolution (probe.cpp).  The schedule *)
(* of probes and effort limits decide only what is tried and when a part   *)
(* stops.  Phases: "decompose", "ternary", "deduplicate", "probe".         *)
(***************************************************************************)
EXTENDS Internal

probeVars == <<original, internal, phase>>

Binary(S) == {c \in Clauses(S) : Cardinality(c) = 2}

(***************************************************************************)
(* decompose_round: the literals of a strongly connected component are     *)
(* equivalent.  All but frozen ones are replaced by the one with the       *)
(* smallest variable.                                                      *)
(***************************************************************************)
Component(S, l) ==
  {k \in Lit : active(S, k) /\ k \in Reaches(Binary(S), l) /\ l \in Reaches(Binary(S), k)}

Smallest(C) == CHOOSE l \in C : \A k \in C : VarOf(l) <= VarOf(k)

repr(S, l) == IF ~active(S, l) \/ VarOf(l) \in Frozen THEN l ELSE Smallest(Component(S, l))

(* A clause with replaced literals: satisfied, empty, a unit or another    *)
(* clause.                                                                 *)
Substitute(S, T, c) ==
  LET d == {repr(S, l) : l \in c \ False(T)} \ False(T)
  IN IF T.unsat \/ \A l \in c : repr(S, l) = l THEN T
     ELSE IF c \cap T.val /= {} \/ d \cap T.val /= {} \/ Tautology(d) THEN mark_garbage(T, {c})
     ELSE IF d = {} THEN learn_empty_clause(T)
     ELSE IF Cardinality(d) = 1 THEN mark_garbage(assign_unit(T, CHOOSE l \in d : TRUE), {c})
     ELSE replace(T, c, d)

(* Units are propagated, over the binary clauses of before too, which are  *)
(* still watched.                                                          *)
PropagateSubstituted(S, T) ==
  LET up == UnitClosure(Clauses(T) \cup Binary(S), T.val)
  IN IF T.unsat THEN T
     ELSE IF Conflicts(up) THEN learn_empty_clause(T)
     ELSE [T EXCEPT !.val = up, !.status = [v \in Var |-> IF {v, -v} \cap up /= {} THEN "fixed" ELSE @[v]]]

(* Substituted variables get their value back from two binary clauses.     *)
PushEquivalence(S, T, v) ==
  IF ~active(T, v) \/ repr(S, v) = v THEN T
  ELSE push_on_extension(push_on_extension(
         IF assigned(T, repr(S, v)) THEN T ELSE mark_status(T, v, "substituted"),
         {-v, repr(S, v)}, {-v}), {v, -repr(S, v)}, {v})

decompose_round ==
  LET S == internal
      D == FoldLeft(LAMBDA T, c : Substitute(S, T, c), S, SetToSeq(Clauses(S)))
      P == PropagateSubstituted(S, D)
      E == FoldLeft(LAMBDA T, v : PushEquivalence(S, T, v), P, [v \in 1 .. N |-> v])
  IN /\ phase = "decompose" /\ ~S.unsat
     /\ internal' = IF \E l \in Lit : active(S, l) /\ -l \in Component(S, l)
                    THEN learn_empty_clause(S)
                    ELSE IF P.unsat THEN P ELSE E
     /\ phase' \in IF internal'.unsat THEN {"idle"} ELSE {"decompose", "ternary", "idle"}
     /\ UNCHANGED original

(***************************************************************************)
(* ternary_lit: two ternary clauses are resolved.  A binary resolvent      *)
(* replaces both, a ternary one is redundant; neither is added if it is    *)
(* there or subsumed by a binary clause.                                   *)
(***************************************************************************)
ternary_find_clause(S, r) == r \in Clauses(S) \/ \E b \in Binary(S) : b \subseteq r

hyper_ternary_resolve(S, c, pivot, d) ==
  LET r == Resolvent(c, d, pivot)
  IN Cardinality(r) <= 3 /\ ~Tautology(r) /\ ~ternary_find_clause(S, r)

RedundantResolvent(S, c, d, r) == Cardinality(r) = 3 \/ (c \in S.red /\ d \in S.red)

ternary_lit(c, pivot, d) ==
  LET S == internal
      r == Resolvent(c, d, pivot)
      T == IF RedundantResolvent(S, c, d, r) THEN new_redundant(S, r) ELSE new_irredundant(S, r)
  IN /\ phase = "ternary" /\ ~S.unsat
     /\ pivot \in c /\ -pivot \in d /\ active(S, pivot)
     /\ \A e \in {c, d} : Cardinality(e) = 3 /\ Unassigned(S, e) = e
     /\ hyper_ternary_resolve(S, c, pivot, d)
     /\ internal' = IF Cardinality(r) = 2 THEN mark_garbage(T, {c, d}) ELSE T
     /\ UNCHANGED <<original, phase>>

(***************************************************************************)
(* mark_duplicated_binary_clauses_as_garbage: clauses are sets here, and   *)
(* of two copies the irredundant one is kept; {l, k} and {l, -k} give the  *)
(* unit l.                                                                 *)
(***************************************************************************)
mark_duplicated_binary_clauses_as_garbage(l, k) ==
  /\ phase = "deduplicate" /\ ~internal.unsat
  /\ active(internal, l) /\ {l, k} \in Binary(internal) /\ {l, -k} \in Binary(internal)
  /\ internal' = propagate(assign_unit(internal, l))
  /\ UNCHANGED <<original, phase>>

(***************************************************************************)
(* Probing l: binary clauses are propagated first; a long clause that      *)
(* becomes unit is resolved to a binary clause of its unit and the closest *)
(* dominator of its other literals, which then is the unit's reason.       *)
(***************************************************************************)
(* generate_probes: roots of the binary implication graph.                 *)
IsProbe(S, l) ==
  LET bins == {Unassigned(S, c) : c \in {d \in Clauses(S) : d \cap S.val = {}}}
      occurs(k) == \E c \in bins : Cardinality(c) = 2 /\ k \in c
  IN active(S, l) /\ occurs(-l) /\ ~occurs(l)

(* The edges of the implication tree: clauses binary but for false         *)
(* literals count.                                                         *)
TreeEdges(S) == {c \ False(S) : c \in {d \in Clauses(S) : Cardinality(d \ False(S)) = 2}}

Dominators(S, lits) == {k \in Lit : active(S, k) /\ lits \subseteq Reaches(TreeEdges(S), k)}

probe_dominator(S, lits, l) ==
  CHOOSE k \in Dominators(S, lits) :
    /\ k \in Reaches(TreeEdges(S), l)
    /\ \A j \in Dominators(S, lits) : j \in Reaches(TreeEdges(S), k) => k \in Reaches(TreeEdges(S), j)

(* hyper_binary_resolve: the resolvent is irredundant if it subsumes an    *)
(* irredundant reason, which then goes.                                    *)
hyper_binary_resolve(S, c, unit, dom) ==
  IF Cardinality((c \ {unit}) \ False(S)) < 2 THEN S
  ELSE IF -dom \notin c THEN new_redundant(S, {-dom, unit})
  ELSE replace(S, c, {-dom, unit})

(* probe_propagate2: binary clauses only.                                  *)
probe_propagate2(S, P) ==
  LET close[k \in 0 .. 2 * N] == IF k = 0 THEN P ELSE ImpliedBy(Binary(S), close[k - 1]) IN close[2 * N]

probe_propagate(S, l) ==
  LET Unit(P) == {x \in Clauses(P.S) \X Lit :
                    /\ x[2] \in x[1] /\ Cardinality(x[1]) > 2
                    /\ x[2] \notin P.val /\ -x[2] \notin P.val /\ x[1] \ {x[2]} \subseteq Negated(P.val)}
      Step(P, i) ==
        LET x == CHOOSE y \in Unit(P) : TRUE
            lits == Negated((x[1] \ {x[2]}) \ False(P.S))
            T == hyper_binary_resolve(P.S, x[1], x[2], probe_dominator(P.S, lits, l))
        IN IF Conflicts(P.val) \/ (\E c \in Clauses(P.S) : c \subseteq Negated(P.val)) \/ Unit(P) = {}
           THEN P
           ELSE [S |-> T, val |-> probe_propagate2(T, P.val \cup {x[2]})]
  IN FoldLeft(Step, [S |-> S, val |-> probe_propagate2(S, S.val \cup {l})], [i \in 1 .. N |-> i])

(* failed_literal: the negation of the conflict's dominator uip is a unit, *)
(* then those of the literals from uip up to the probe.                    *)
failed_literal(S, uip, l) ==
  LET T == propagate(assign_unit(S, -uip))
  IN IF T.unsat \/ -l \in T.val THEN T
     ELSE IF l \in T.val THEN learn_empty_clause(T)
     ELSE propagate(assign_unit(T, -l))

Fails(S, l) == Conflicts(UnitClosure(Clauses(S), S.val \cup {l}))

probe(l) ==
  LET P == probe_propagate(internal, l)
      conflict == Conflicts(P.val) \/ \E c \in Clauses(P.S) : c \subseteq Negated(P.val)
  IN /\ phase = "probe" /\ ~internal.unsat /\ IsProbe(internal, l)
     /\ \/ ~conflict /\ internal' = P.S
        \/ /\ conflict
           /\ \E uip \in P.val : active(P.S, uip) /\ Fails(P.S, uip) /\ internal' = failed_literal(P.S, uip, l)
     /\ UNCHANGED <<original, phase>>

-----------------------------------------------------------------------------
StartProbe ==
  /\ phase = "idle" /\ ~internal.unsat
  /\ internal' = propagate(internal)
  /\ phase' = IF internal'.unsat THEN "idle" ELSE "decompose"
  /\ UNCHANGED original

(* ternary, deduplicate and probe_round in this order, then decompose.     *)
NextPartProbe ==
  /\ phase \in {"ternary", "deduplicate", "probe"}
  /\ internal' = IF internal.unsat THEN internal ELSE propagate(internal)
  /\ phase' = IF internal'.unsat THEN "idle"
              ELSE [ternary |-> "deduplicate", deduplicate |-> "probe", probe |-> "decompose"][phase]
  /\ UNCHANGED original

NextProbe ==
  \/ StartProbe \/ NextPartProbe \/ decompose_round
  \/ \E c, d \in Clauses(internal) : \E pivot \in c : ternary_lit(c, pivot, d)
  \/ \E l, k \in Lit : mark_duplicated_binary_clauses_as_garbage(l, k)
  \/ \E l \in Lit : probe(l)

SpecProbe == InitInternal /\ [][NextProbe]_probeVars

=============================================================================
