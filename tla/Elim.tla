-------------------------------- MODULE Elim --------------------------------
(***************************************************************************)
(* Bounded variable elimination of CaDiCaL (elim.cpp) with the gates it    *)
(* looks for (gates.cpp), the backward subsumption of the resolvents it    *)
(* adds (backward.cpp) and variable instantiation (instantiate.cpp).       *)
(* Occurrence lists are sorted by size; among clauses of the same size the *)
(* order is that of the database and fixed here by the choice of a         *)
(* sequence.  A satisfied literal is taken to come before the others.      *)
(* Garbage limits, schedules and effort limits decide only when a variable *)
(* is tried: any active variable that is not frozen may be next.  Phases:  *)
(* "round" (elim_round runs), "backward" and "instantiate".                *)
(***************************************************************************)
EXTENDS Internal

CONSTANTS
  ElimBound,     \* lim.elimbound: clauses elimination may add
  ElimClsLim,    \* opts.elimclslim
  ElimGates,     \* the gates looked for: opts.elimequivs, elimands, elimites, elimxors
  ElimBackward   \* opts.elimbackward

VARIABLE backward   \* Eliminator::backward, the clauses still to be tried

elimVars == <<original, internal, phase, backward>>

BySize(C) == SetToSortSeq(C, LAMBDA c, d : Cardinality(c) < Cardinality(d))

(***************************************************************************)
(* elim_propagate: unit propagation from one literal over the occurrence   *)
(* lists of irredundant clauses.  Clauses satisfied on the way are dropped.*)
(* W.work holds the literals propagated.                                   *)
(***************************************************************************)
ElimStep(F, W) ==
  LET met == {c \in F : c \cap Negated(W.work) /= {} /\ c \cap W.val = {}}
      units == UNION {c \ Negated(W.val) : c \in {d \in met : Cardinality(d \ Negated(W.val)) = 1}}
  IN [work |-> W.work \cup units, val |-> W.val \cup units,
      empty |-> W.empty \/ \E c \in met : c \subseteq Negated(W.val)]

elim_propagate(S, root) ==
  LET start == [work |-> {root}, val |-> S.val, empty |-> FALSE]
      W == FoldLeft(LAMBDA w, i : ElimStep(S.irr, w), start, [i \in 1 .. N + 1 |-> i])
  IN IF W.empty \/ Conflicts(W.val) THEN learn_empty_clause(S)
     ELSE LET T == FoldSet(LAMBDA l, R : assign_unit(R, l), S, W.val \ S.val)
          IN mark_garbage(T, {c \in S.irr : \/ c \cap W.work /= {}
                                            \/ c \cap Negated(W.work) /= {} /\ c \cap W.val /= {}})

(***************************************************************************)
(* resolve_clauses: a pair of clauses with pivot and -pivot.  It drops a   *)
(* satisfied clause, learns a unit, or shortens the antecedents that the   *)
(* resolvent subsumes; otherwise the resolvent is left in R.clause.        *)
(***************************************************************************)
NoClause == {}

elim_on_the_fly_self_subsumption(S, c, pivot) ==
  new_irredundant(mark_garbage(S, {c}), (c \ {pivot}) \ False(S))

resolve_clauses(S, c, pivot, d, propagate_eagerly) ==
  LET resolvent == Resolvent(c, d, pivot) \ False(S)
      size == Cardinality(resolvent)
      shorter == {e \in {c, d} : Cardinality(e \ False(S)) > size}
      unit == CHOOSE l \in resolvent : TRUE
      Done(T) == [S |-> T, clause |-> NoClause]
  IN IF {c, d} \ S.irr /= {} THEN Done(S)
     ELSE IF c \cap S.val /= {} THEN Done(mark_garbage(S, {c}))
     ELSE IF d \cap S.val /= {} THEN Done(mark_garbage(S, {d}))
     ELSE IF Tautology(resolvent) THEN Done(S)
     ELSE IF size = 0 THEN Done(learn_empty_clause(S))
     ELSE IF size = 1 THEN
       Done(IF propagate_eagerly THEN elim_propagate(assign_unit(S, unit), unit)
            ELSE assign_unit(S, unit))
     ELSE IF shorter = {c, d} THEN
       Done(mark_garbage(elim_on_the_fly_self_subsumption(S, c, pivot), {d}))
     ELSE IF shorter = {c} THEN Done(elim_on_the_fly_self_subsumption(S, c, pivot))
     ELSE IF shorter = {d} THEN Done(elim_on_the_fly_self_subsumption(S, d, -pivot))
     ELSE [S |-> S, clause |-> resolvent]

(* The pairs of the two nested loops over occurrence lists; with a gate    *)
(* only pairs of a gate clause and another clause are resolved.            *)
Pairs(S, pivot, gates) ==
  LET ps == BySize(Occs(S, pivot))
      ns == BySize(Occs(S, -pivot))
      all == [k \in 1 .. Len(ps) * Len(ns) |->
                <<ps[((k - 1) \div Len(ns)) + 1], ns[((k - 1) % Len(ns)) + 1]>>]
  IN SelectSeq(all, LAMBDA x : gates = {} \/ (x[1] \in gates) /= (x[2] \in gates))

(* elim_resolvents_are_bounded: resolve all pairs, propagating units, and  *)
(* give up when there are too many or too long resolvents.                 *)
elim_resolvents_are_bounded(S, pivot, gates) ==
  LET bound == Cardinality(Occs(S, pivot)) + Cardinality(Occs(S, -pivot)) + ElimBound
      Try(B, x) ==
        IF ~B.ok THEN B
        ELSE LET R == resolve_clauses(B.S, x[1], pivot, x[2], TRUE)
                 n == B.n + (IF R.clause = NoClause THEN 0 ELSE 1)
             IN [S |-> R.S, n |-> n,
                 ok |-> /\ n <= bound /\ Cardinality(R.clause) <= ElimClsLim
                        /\ ~R.S.unsat /\ ~assigned(R.S, pivot)]
  IN FoldLeft(Try, [S |-> S, n |-> 0, ok |-> TRUE], Pairs(S, pivot, gates))

(* elim_add_resolvents: units are assigned but not propagated.             *)
elim_add_resolvents(S, pivot, gates) ==
  LET Add(A, x) ==
        IF A.S.unsat THEN A
        ELSE LET R == resolve_clauses(A.S, x[1], pivot, x[2], FALSE)
             IN IF R.clause = NoClause THEN [A EXCEPT !.S = R.S]
                ELSE [S |-> new_irredundant(R.S, R.clause), added |-> Append(A.added, R.clause)]
  IN FoldLeft(Add, [S |-> S, added |-> <<>>], Pairs(S, pivot, gates))

(* mark_eliminated_clauses_as_garbage: all clauses with the pivot go, and  *)
(* all of them, or the gate clauses, are pushed on the extension stack.    *)
mark_eliminated_clauses_as_garbage(S, pivot, gates) ==
  LET pos == SetToSeq(Occs(S, pivot))
      neg == SetToSeq(Occs(S, -pivot))
      PushPos(T, c) == IF gates = {} \/ c \in gates THEN push_on_extension(T, c, {pivot}) ELSE T
      PushNeg(T, c) == IF gates = {} \/ c \in gates THEN push_on_extension(T, c, {-pivot}) ELSE T
  IN mark_garbage(FoldLeft(PushNeg, FoldLeft(PushPos, S, pos), neg), Occs(S, pivot) \cup Occs(S, -pivot))

(***************************************************************************)
(* Gates (gates.cpp).  Second(S, c, l) is the other literal of a clause    *)
(* that is binary once false literals are ignored.                         *)
(***************************************************************************)
Binaries(S, l) == {c \in Occs(S, l) : c \cap S.val = {} /\ Cardinality(c \ ({l} \cup False(S))) = 1}
Second(S, c, l) == CHOOSE s \in c \ ({l} \cup False(S)) : TRUE
Seconds(S, l) == {Second(S, c, l) : c \in Binaries(S, l)}

(* mark_binary_literals: two binary clauses that clash make l a unit; a    *)
(* repeated one is dropped, as is a satisfied clause that has no second    *)
(* unassigned literal besides l.                                           *)
mark_binary_literals(S, l) ==
  LET kept == {CHOOSE c \in Binaries(S, l) :
                 Second(S, c, l) = s /\ \A d \in Binaries(S, l) :
                    Second(S, d, l) = s => Cardinality(c) <= Cardinality(d) : s \in Seconds(S, l)}
  IN IF Conflicts(Seconds(S, l)) THEN elim_propagate(assign_unit(S, l), l)
     ELSE mark_garbage(S, (Binaries(S, l) \ kept) \cup {c \in Occs(S, l) : c \cap S.val /= {} /\
                                   Cardinality(Unassigned(S, c) \ {l}) <= 1})

NoGate(S) == [S |-> S, gates |-> {}]
Open(G, pivot) == G.gates = {} /\ ~G.S.unsat /\ ~assigned(G.S, pivot)

(* find_equivalence: {pivot, -s} and {-pivot, s}; {pivot, s} and           *)
(* {-pivot, s} give the unit s.  M is the state after marking.             *)
Equivalence(M, pivot) ==
  LET Check(A, c) ==
        LET s == Second(A.S, c, -pivot)
        IN IF ~Open(A, pivot) \/ c \notin Binaries(A.S, -pivot) THEN A
           ELSE IF s \in Seconds(M, pivot) THEN NoGate(elim_propagate(assign_unit(A.S, s), s))
           ELSE IF -s \notin Seconds(M, pivot) THEN A
           ELSE [A EXCEPT !.gates = {c, CHOOSE d \in Binaries(A.S, pivot) : Second(A.S, d, pivot) = -s}]
  IN IF ~Open(NoGate(M), pivot) THEN NoGate(M)
     ELSE FoldLeft(Check, NoGate(M), BySize(Occs(M, -pivot)))

find_equivalence(G, pivot) ==
  IF "equiv" \notin ElimGates \/ ~Open(G, pivot) THEN G
  ELSE Equivalence(mark_binary_literals(G.S, pivot), pivot)

(* find_and_gate: a long clause with -pivot, and for each of its other     *)
(* literals l the clause {pivot, -l}.                                      *)
AndGate(M, pivot) ==
  LET Base == {c \in Occs(M, -pivot) :
                 /\ Cardinality(c) >= 3 /\ c \cap M.val = {}
                 /\ \A l \in (c \ {-pivot}) \ False(M) : -l \in Seconds(M, pivot)}
      With(base) == {base} \cup {d \in Binaries(M, pivot) : -Second(M, d, pivot) \in base}
  IN IF ~Open(NoGate(M), pivot) \/ Base = {} THEN NoGate(M)
     ELSE [S |-> M, gates |-> With(BySize(Base)[1])]

find_and_gate(G, pivot) ==
  IF "and" \notin ElimGates \/ ~Open(G, pivot) THEN G
  ELSE AndGate(mark_binary_literals(G.S, pivot), pivot)

(* find_if_then_else and find_xor_gate compare the unassigned literals.    *)
Matching(S, lits) == {c \in S.irr : Unassigned(S, c) = lits}

find_if_then_else(G, pivot) ==
  LET S == G.S
      Ites == {x \in Lit \X Lit \X Lit :
                 /\ Cardinality({VarOf(pivot), VarOf(x[1]), VarOf(x[2]), VarOf(x[3])}) = 4
                 /\ \A lits \in {{pivot, x[1], x[2]}, {pivot, -x[1], x[3]},
                                 {-pivot, x[1], -x[2]}, {-pivot, -x[1], -x[3]}} : Matching(S, lits) /= {}}
      x == CHOOSE y \in Ites : TRUE
      One(lits) == CHOOSE c \in Matching(S, lits) : TRUE
  IN IF "ite" \notin ElimGates \/ ~Open(G, pivot) \/ Ites = {} THEN G
     ELSE [G EXCEPT !.gates = {One({pivot, x[1], x[2]}), One({pivot, -x[1], x[3]}),
                               One({-pivot, x[1], -x[2]}), One({-pivot, -x[1], -x[3]})}]

EvenFlips(lits) == {(lits \ K) \cup Negated(K) : K \in {J \in SUBSET lits : Cardinality(J) % 2 = 0}}

find_xor_gate(G, pivot) ==
  LET S == G.S
      Base == {c \in Occs(S, pivot) :
                 /\ Cardinality(Unassigned(S, c)) >= 3
                 /\ \A lits \in EvenFlips(Unassigned(S, c)) : Matching(S, lits) /= {}}
      base == BySize(Base)[1]
  IN IF "xor" \notin ElimGates \/ ~Open(G, pivot) \/ Base = {} THEN G
     ELSE [G EXCEPT !.gates = {base} \cup {CHOOSE c \in Matching(S, lits) : TRUE :
                                lits \in EvenFlips(Unassigned(S, base)) \ {Unassigned(S, base)}}]

find_gate_clauses(S, pivot) ==
  find_xor_gate(find_if_then_else(find_and_gate(find_and_gate(
    find_equivalence(NoGate(S), pivot), pivot), -pivot), pivot), pivot)

-----------------------------------------------------------------------------
InitElim == InitInternal /\ backward = <<>>

(* elim_round starts with everything propagated and without satisfied      *)
(* irredundant clauses.                                                    *)
StartRound ==
  /\ phase = "idle" /\ ~internal.unsat
  /\ LET S == propagate(internal) IN
     /\ internal' = IF S.unsat THEN S ELSE mark_garbage(S, {c \in S.irr : c \cap S.val /= {}})
     /\ phase' = IF S.unsat THEN "idle" ELSE "round"
  /\ UNCHANGED <<original, backward>>

(* try_to_eliminate_variable: the phase with fewer occurrences is the      *)
(* pivot.  G is the state after the search for gates, B after the first    *)
(* resolution of all pairs, A after the second.                            *)
Pivot(v) == IF Cardinality(Occs(internal, v)) > Cardinality(Occs(internal, -v)) THEN -v ELSE v

GatesOf(pivot) ==
  IF Occs(internal, pivot) = {} THEN NoGate(internal) ELSE find_gate_clauses(internal, pivot)

Eliminated(S, pivot, gates) ==
  IF S.unsat THEN S ELSE mark_eliminated_clauses_as_garbage(S, pivot, gates)

try_to_eliminate_variable(v) ==
  /\ phase = "round" /\ ~internal.unsat
  /\ v \notin Frozen /\ active(internal, v)
  /\ \E G \in {GatesOf(Pivot(v))} :
       \/ ~Open([G EXCEPT !.gates = {}], v) /\ internal' = G.S /\ UNCHANGED <<phase, backward>>
       \/ /\ Open([G EXCEPT !.gates = {}], v)
          /\ \E B \in {elim_resolvents_are_bounded(G.S, Pivot(v), G.gates)} :
               \/ ~B.ok /\ internal' = B.S /\ UNCHANGED <<phase, backward>>
               \/ B.ok /\ \E A \in {elim_add_resolvents(B.S, Pivot(v), G.gates)} :
                    /\ \E E \in {Eliminated(A.S, Pivot(v), G.gates)} :
                         internal' = IF active(E, v) THEN mark_status(E, v, "eliminated") ELSE E
                    /\ backward' = IF ElimBackward THEN A.added ELSE <<>>
                    /\ phase' = IF backward' = <<>> THEN "round" ELSE "backward"
  /\ UNCHANGED original

(***************************************************************************)
(* elim_backward_clause: the new clause c removes the clauses it subsumes  *)
(* and strengthens those it subsumes up to one negated literal, among the  *)
(* occurrences of its rarest literal, in the order of that list.  satisfied*)
(* is set for a clause of the list and never reset, nor is size once two   *)
(* negated literals were met.                                              *)
(***************************************************************************)
BackwardStep(c, L, d) ==
  LET S == L.S
      lits == Unassigned(S, c)
      negated == {l \in Unassigned(S, d) : -l \in lits}
      found == Cardinality({l \in Unassigned(S, d) : l \in lits \/ -l \in lits})
      rest == (d \ False(S)) \ negated
      satisfied == L.satisfied \/ d \cap S.val /= {}
      unit == CHOOSE l \in rest : TRUE
  IN IF L.stop \/ d \notin S.irr \/ Cardinality(d) < Cardinality(lits) THEN L
     ELSE IF satisfied THEN [L EXCEPT !.S = mark_garbage(S, {d}), !.satisfied = TRUE]
     ELSE IF Cardinality(negated) > 1 THEN [L EXCEPT !.stop = TRUE]
     ELSE IF found /= Cardinality(lits) THEN L
     ELSE IF negated = {} THEN [L EXCEPT !.S = mark_garbage(S, {d})]
     ELSE IF Cardinality(rest) = 1 THEN
       [L EXCEPT !.S = elim_propagate(assign_unit(S, unit), unit), !.stop = TRUE]
     ELSE [L EXCEPT !.S = replace(S, d, d \ negated), !.queue = Append(@, d \ negated)]

Rarest(S, c) ==
  CHOOSE l \in Unassigned(S, c) :
    \A k \in Unassigned(S, c) : Cardinality(Occs(S, l)) <= Cardinality(Occs(S, k))

elim_backward_clause ==
  /\ phase = "backward" /\ backward /= <<>> /\ ~internal.unsat
  /\ LET c == Head(backward)
         Skip(S) == internal' = S /\ backward' = Tail(backward)
     IN \/ c \notin internal.irr /\ Skip(internal)
        \/ c \in internal.irr /\ c \cap internal.val /= {} /\ Skip(mark_garbage(internal, {c}))
        \/ /\ c \in internal.irr /\ c \cap internal.val = {}
           /\ \E occs \in SetToSeqs(Occs(internal, Rarest(internal, c)) \ {c}) :
                LET L == FoldLeft(LAMBDA A, d : BackwardStep(c, A, d),
                           [S |-> internal, satisfied |-> FALSE, stop |-> FALSE,
                            queue |-> Tail(backward)], occs)
                IN internal' = L.S /\ backward' = L.queue
  /\ UNCHANGED <<original, phase>>

BackwardDone ==
  /\ phase = "backward" /\ (backward = <<>> \/ internal.unsat)
  /\ phase' = "round" /\ backward' = <<>>
  /\ UNCHANGED <<original, internal>>

EndRoundKeepingRedundant ==
  /\ phase = "round" /\ phase' = "instantiate"
  /\ internal' = IF internal.unsat THEN internal ELSE propagate(internal)
  /\ UNCHANGED <<original, backward>>

(* The end of elim_round: redundant clauses with eliminated or pure        *)
(* variables go; watches are connected and propagated for instantiation.   *)
EndRound ==
  /\ phase = "round"
  /\ LET gone == {v \in Var : internal.status[v] \in {"eliminated", "pure"}}
     IN internal' = IF internal.unsat THEN internal
                    ELSE propagate(mark_garbage(internal, {c \in internal.red : VarsOf(c) \cap gone /= {}}))
  /\ phase' = "instantiate"
  /\ UNCHANGED <<original, backward>>

InstantiateUntested(c, l) ==
  /\ phase = "instantiate" /\ ~internal.unsat
  /\ c \in internal.irr /\ l \in c /\ active(internal, l) /\ VarOf(l) \notin Frozen
  /\ c \cap internal.val = {} /\ Cardinality(Unassigned(internal, c)) >= 3
  /\ internal' = replace(internal, c, c \ {l})
  /\ UNCHANGED <<original, phase, backward>>

(* instantiate_candidate: if l and the negation of the other literals of c *)
(* lead to a conflict, l is removed from c.                                *)
instantiate_candidate(c, l) ==
  /\ phase = "instantiate" /\ ~internal.unsat
  /\ c \in internal.irr /\ l \in c /\ active(internal, l) /\ VarOf(l) \notin Frozen
  /\ c \cap internal.val = {} /\ Cardinality(Unassigned(internal, c)) >= 3
  /\ Conflicts(UnitClosure(Clauses(internal), internal.val \cup {l} \cup Negated(c \ {l})))
  /\ internal' = replace(internal, c, c \ {l})
  /\ UNCHANGED <<original, phase, backward>>

EndElim ==
  /\ phase = "instantiate"
  /\ phase' = "idle"
  /\ internal' = IF internal.unsat THEN internal ELSE propagate(internal)
  /\ UNCHANGED <<original, backward>>

NextElim ==
  \/ StartRound
  \/ \E v \in Var : try_to_eliminate_variable(v)
  \/ elim_backward_clause \/ BackwardDone \/ EndRound
  \/ \E c \in internal.irr : \E l \in c : instantiate_candidate(c, l)
  \/ EndElim

SpecElim == InitElim /\ [][NextElim]_elimVars

=============================================================================
