------------------------------ MODULE Compact ------------------------------
(***************************************************************************)
(* External and internal variables of CaDiCaL: external.cpp maps the       *)
(* variables of the user to indices that compact renumbers, so that fixed  *)
(* and eliminated variables leave no holes (compacting waits for enough of *)
(* them, a limit that is left out).  The first fixed variable stays for    *)
(* all fixed ones.  Clauses, phases, the decision queue, freeze counters,  *)
(* assumptions and the constraint are renumbered with it.                  *)
(* Clauses are learned, simplified and eliminated elsewhere: here a        *)
(* variable is fixed or eliminated at any time the code allows it to be.   *)
(***************************************************************************)
EXTENDS Integers, FiniteSets, Sequences, SequencesExt

CONSTANTS
  MaxExternal,   \* external variables
  UserClauses,   \* clauses the user may add, of two or more literals
  UserConstraints,   \* constraints the user may add
  MaxFreeze,     \* bound on the freezes of a variable
  MaxCompacts    \* bound on compactions

UINT_MAX == 15   \* the width of a counter, in proportion to MaxFreeze

VARIABLES
  e2i,          \* internal literal of an external variable, 0 if none
  i2e, status, frozentab, saved,   \* per internal variable
  vals,         \* internal literals that are fixed to true
  clauses,      \* over internal literals
  queue,        \* internal variables in decision order
  efrozen,      \* frozentab of External
  eassumptions, assumptions,
  econstraint, constraint, unsat_constraint,
  compacts

mapping == <<e2i, i2e>>
tables == <<status, frozentab, saved>>
constraintVars == <<econstraint, constraint, unsat_constraint>>
requestVars == <<eassumptions, assumptions, constraintVars>>
vars == <<mapping, tables, vals, clauses, queue, efrozen, requestVars, compacts>>

External == 1 .. MaxExternal
Index == 1 .. Len(i2e)
VarOf(l) == IF l < 0 THEN -l ELSE l
Active(i) == status[i] = "active"
Internal(l) == IF l < 0 THEN -e2i[-l] ELSE e2i[l]
Holds(l) == l \in vals
Value(l) == IF Holds(l) THEN 1 ELSE IF Holds(-l) THEN -1 ELSE 0

Init ==
  /\ e2i = [e \in External |-> e] /\ i2e = [i \in External |-> i]
  /\ status = [i \in External |-> "unused"]
  /\ frozentab = [i \in External |-> 0] /\ saved = [i \in External |-> 1]
  /\ vals = {} /\ clauses = {} /\ queue = [i \in External |-> i]
  /\ efrozen = [e \in External |-> 0]
  /\ eassumptions = {} /\ assumptions = {}
  /\ econstraint = {} /\ constraint = {} /\ unsat_constraint = FALSE /\ compacts = 0

-----------------------------------------------------------------------------
(* internalize: an external variable without internal one gets a new one,  *)
(* an unused or eliminated one becomes active.                             *)
Mapped(e) ==
  LET new == e2i[e] = 0
      i == IF new THEN Len(i2e) + 1 ELSE VarOf(e2i[e])
      ext(s, x) == IF new THEN Append(s, x) ELSE s
  IN [e2i |-> IF new THEN [e2i EXCEPT ![e] = i] ELSE e2i,
      i2e |-> ext(i2e, e),
      status |-> [ext(status, "unused") EXCEPT ![i] = IF @ = "fixed" THEN @ ELSE "active"],
      frozentab |-> ext(frozentab, 0), saved |-> ext(saved, 1), queue |-> ext(queue, i)]

Internalize(e) ==
  LET m == Mapped(e) IN
  /\ e2i' = m.e2i /\ i2e' = m.i2e /\ status' = m.status /\ saved' = m.saved /\ queue' = m.queue

Known(e) == e2i[e] /= 0 /\ status[VarOf(e2i[e])] \in {"active", "fixed"}

Use ==
  /\ \E e \in External : ~Known(e) /\ Internalize(e) /\ frozentab' = Mapped(e).frozentab
  /\ UNCHANGED <<vals, clauses, efrozen, requestVars, compacts>>

(* A clause is added once its variables are internal: not if a literal is  *)
(* fixed to true, and without the false ones.                              *)
AddClause ==
  /\ \E c \in UserClauses :
       LET d == {Internal(l) : l \in c} IN
       /\ \A l \in c : Known(VarOf(l))
       /\ \A l \in d : ~Holds(l)
       /\ Cardinality({l \in d : ~Holds(-l)}) >= 2
       /\ clauses' = clauses \cup {{l \in d : ~Holds(-l)}}
  /\ UNCHANGED <<mapping, tables, vals, queue, efrozen, requestVars, compacts>>

(* freeze and melt of Internal: a counter at UINT_MAX stays there.         *)
Up(n) == IF n < UINT_MAX THEN n + 1 ELSE n
Down(n) == IF n < UINT_MAX THEN (n - 1) % (UINT_MAX + 1) ELSE n
Touched(i, lits) == {i, -i} \cap lits /= {}
Frozen(f, lits) == [i \in DOMAIN f |-> IF Touched(i, lits) THEN Up(f[i]) ELSE f[i]]
Melted(f, lits) == [i \in DOMAIN f |-> IF Touched(i, lits) THEN Down(f[i]) ELSE f[i]]

(* freeze and melt of External count too.                                  *)
Freeze ==
  /\ \E e \in External :
       /\ efrozen[e] < MaxFreeze
       /\ Internalize(e)
       /\ efrozen' = [efrozen EXCEPT ![e] = @ + 1]
       /\ frozentab' = [Mapped(e).frozentab EXCEPT
                          ![VarOf(e2i'[e])] = Up(@)]
  /\ UNCHANGED <<vals, clauses, requestVars, compacts>>

Melt ==
  /\ \E e \in External :
       /\ efrozen[e] > 0
       /\ Internalize(e)
       /\ efrozen' = [efrozen EXCEPT ![e] = @ - 1]
       /\ frozentab' = [Mapped(e).frozentab EXCEPT
                          ![VarOf(e2i'[e])] = Down(@)]
  /\ UNCHANGED <<vals, clauses, requestVars, compacts>>

(* assume freezes the literal until the assumptions are reset.             *)
Assume ==
  /\ \E e \in External : \E s \in {-1, 1} :
       /\ eassumptions = {} /\ Known(e) /\ eassumptions' = {s * e}
       /\ assumptions' = {Internal(s * e)}
       /\ frozentab' = Frozen(frozentab, assumptions')
  /\ UNCHANGED <<mapping, status, saved, vals, clauses, queue, efrozen, constraintVars, compacts>>

ResetAssumptions ==
  /\ eassumptions /= {} /\ eassumptions' = {} /\ assumptions' = {}
  /\ frozentab' = Melted(frozentab, assumptions)
  /\ UNCHANGED <<mapping, status, saved, vals, clauses, queue, efrozen, constraintVars, compacts>>

(* constrain: false literals are dropped, a satisfied constraint is empty, *)
(* and so is one that cannot be satisfied; the literals left are frozen.   *)
Satisfied(d, v) == \E l \in d : l \in v \/ -l \in d
Shrunk(d, v) == IF Satisfied(d, v) THEN {} ELSE {l \in d : -l \notin v}
Unsat(d, v) == ~Satisfied(d, v) /\ Shrunk(d, v) = {}

Constrain ==
  /\ \E c \in UserConstraints :
       LET d == {Internal(l) : l \in c} IN
       /\ econstraint = {} /\ \A l \in c : Known(VarOf(l))
       /\ econstraint' = c /\ constraint' = Shrunk(d, vals) /\ unsat_constraint' = Unsat(d, vals)
       /\ frozentab' = Frozen(frozentab, constraint')
  /\ UNCHANGED <<mapping, status, saved, vals, clauses, queue, efrozen, eassumptions, assumptions, compacts>>

ResetConstraint ==
  /\ econstraint /= {} /\ econstraint' = {} /\ constraint' = {} /\ unsat_constraint' = FALSE
  /\ frozentab' = Melted(frozentab, constraint)
  /\ UNCHANGED <<mapping, status, saved, vals, clauses, queue, efrozen, eassumptions, assumptions, compacts>>

-----------------------------------------------------------------------------
(* A unit is learned; another step fixes the units it leads to.            *)
Fix ==
  /\ \E i \in Index : \E l \in {i, -i} :
       /\ Active(i) /\ status' = [status EXCEPT ![i] = "fixed"] /\ vals' = vals \cup {l}
       /\ clauses' = {c \ {-l} : c \in {d \in clauses : l \notin d}}
       /\ \A c \in clauses' : Cardinality(c) >= 2
  /\ UNCHANGED <<mapping, frozentab, saved, queue, efrozen, requestVars, compacts>>

(* Elimination, substitution and pure literals: not of frozen variables.   *)
Eliminate ==
  /\ \E i \in Index :
       /\ Active(i) /\ frozentab[i] = 0 /\ status' = [status EXCEPT ![i] = "eliminated"]
       /\ clauses' = {c \in clauses : {i, -i} \cap c = {}}
  /\ UNCHANGED <<mapping, frozentab, saved, vals, queue, efrozen, requestVars, compacts>>

(* Search saves phases.                                                    *)
SavePhase ==
  /\ \E i \in Index : Active(i) /\ saved' = [saved EXCEPT ![i] = -@]
  /\ UNCHANGED <<mapping, status, frozentab, vals, clauses, queue, efrozen, requestVars, compacts>>

-----------------------------------------------------------------------------
(* Mapper: active variables and the first fixed one, in order.             *)
first_fixed ==
  LET F == {i \in Index : status[i] = "fixed"}
  IN IF F = {} THEN 0 ELSE CHOOSE i \in F : \A j \in F : i <= j

Keep(i) == Active(i) \/ i = first_fixed
map_idx(i) == IF Keep(i) THEN Cardinality({j \in 1 .. i : Keep(j)}) ELSE 0

(* map_lit: another fixed literal is the first fixed one, or its negation. *)
map_lit_unsigned(l) ==
  IF map_idx(VarOf(l)) /= 0 THEN (IF l < 0 THEN -1 ELSE 1) * map_idx(VarOf(l))
  ELSE IF Value(l) = 0 THEN 0 ELSE map_idx(first_fixed)

map_lit(l) ==
  IF map_idx(VarOf(l)) /= 0 THEN (IF l < 0 THEN -1 ELSE 1) * map_idx(VarOf(l))
  ELSE IF Value(l) = 0 THEN 0
  ELSE IF Value(l) = Value(first_fixed) THEN map_idx(first_fixed) ELSE -map_idx(first_fixed)

(* map_vector, and the literals of a vector.                               *)
Kept == SelectSeq([i \in Index |-> i], Keep)
map_vector(v) == [j \in 1 .. Len(Kept) |-> v[Kept[j]]]

(* The literals of the user, in the new numbering.                         *)
Renumbered(lits, map) == {IF l < 0 THEN -map[-l] ELSE map[l] : l \in lits}

(* The queue loses inactive variables, the first fixed one too.            *)
MappedQueue == [j \in 1 .. Len(SelectSeq(queue, Active)) |-> map_idx(SelectSeq(queue, Active)[j])]

(* The counter of a variable that moves is added to what is in its new    *)
(* place, which is not 0 if a frozen variable was fixed there and dropped. *)
(* Assumptions and constraint are melted before.                           *)
MappedFrozen ==
  LET f == Melted(Melted(frozentab, assumptions), constraint)
      moved(j) == Kept[j] /= j
  IN [j \in 1 .. Len(Kept) |->
        (f[Kept[j]] + (IF moved(j) /\ ~Keep(j) THEN f[j] ELSE 0)) % (UINT_MAX + 1)]

(* Of the fixed values only the first one is left.                         *)
MappedVals == IF first_fixed = 0 THEN {} ELSE {Value(first_fixed) * map_idx(first_fixed)}

compact ==
  /\ compacts < MaxCompacts /\ \E i \in Index : ~Active(i)
  /\ e2i' = [e \in External |-> IF e2i[e] = 0 THEN 0 ELSE map_lit(e2i[e])]
  /\ i2e' = map_vector(i2e) /\ status' = map_vector(status) /\ saved' = map_vector(saved)
  /\ vals' = MappedVals
  /\ clauses' = {{map_lit(l) : l \in c} : c \in clauses}
  /\ queue' = MappedQueue
  /\ assumptions' = Renumbered(eassumptions, e2i')
  /\ LET d == Renumbered(econstraint, e2i')
     IN IF constraint = {} THEN UNCHANGED <<constraint, unsat_constraint>>
        ELSE constraint' = Shrunk(d, vals') /\ unsat_constraint' = Unsat(d, vals')
  /\ frozentab' = Frozen(Frozen(MappedFrozen, assumptions'), constraint')
  /\ compacts' = compacts + 1
  /\ UNCHANGED <<efrozen, eassumptions, econstraint>>

Next ==
  \/ Use \/ AddClause \/ Freeze \/ Melt \/ Assume \/ ResetAssumptions
  \/ Constrain \/ ResetConstraint
  \/ Fix \/ Eliminate \/ SavePhase \/ compact

Spec == Init /\ [][Next]_vars

-----------------------------------------------------------------------------
(***************************************************************************)
(* The two maps agree on active variables, no two external variables share *)
(* one, the tables have one length, and every clause, assumption and       *)
(* constraint is over variables that exist.                                *)
(***************************************************************************)
MapsAgree ==
  /\ \A i \in Index : Active(i) => VarOf(e2i[i2e[i]]) = i /\ e2i[i2e[i]] > 0
  /\ \A e, f \in External :
       e /= f /\ e2i[e] /= 0 /\ VarOf(e2i[e]) = VarOf(e2i[f]) => status[VarOf(e2i[e])] = "fixed"
  /\ Len(status) = Len(i2e) /\ Len(frozentab) = Len(i2e) /\ Len(saved) = Len(i2e)
  /\ \A c \in clauses : \A l \in c : Active(VarOf(l))
  /\ assumptions = Renumbered(eassumptions, e2i) /\ constraint \subseteq Renumbered(econstraint, e2i)
  /\ {queue[j] : j \in 1 .. Len(queue)} \subseteq Index

(* What the user and the search see: values, clauses, what is left of the  *)
(* constraint, the order of decisions and phases, in external variables.   *)
Ext(l) == IF l < 0 THEN -i2e[-l] ELSE i2e[l]
Order == SelectSeq(queue, Active)
View ==
  [values |-> [e \in External |-> IF e2i[e] = 0 THEN 0 ELSE Value(e2i[e])],
   clauses |-> {{Ext(l) : l \in c} : c \in clauses},
   constrained |-> unsat_constraint \/ (constraint /= {} /\ ~Satisfied(constraint, vals)),
   constraint |-> {Ext(l) : l \in Shrunk(constraint, vals)},
   order |-> [j \in 1 .. Len(Order) |-> Ext(Order[j])],
   phases |-> {Ext(saved[i] * i) : i \in {j \in Index : Active(j)}}]

(* After every step the maps agree, and a compaction changes nothing of    *)
(* what is seen.                                                           *)
KeepsView == MapsAgree' /\ (compacts' /= compacts => View' = View)

(***************************************************************************)
(* cadical.hpp, of freeze: "you can freeze a variable multiple times, but  *)
(* then have to melt it the same number of times again in order to enable  *)
(* variable eliminating on it"; compact.cpp, of assumptions: "Because we   *)
(* froze all!!!".  A variable the user froze and did not melt as often, an *)
(* assumed and a constrained one are not offered to elimination.           *)
(***************************************************************************)
Held(i) == efrozen[i2e[i]] > 0 \/ Touched(i, assumptions) \/ Touched(i, constraint)
FrozenProtected == \A i \in Index : Active(i) /\ Held(i) => frozentab[i] > 0

=============================================================================
