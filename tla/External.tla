------------------------------ MODULE External ------------------------------
(***************************************************************************)
(* Incremental use of CaDiCaL (external.cpp, restore.cpp, flags.cpp).      *)
(* Between calls of solve the user adds clauses, assumes literals, sets a  *)
(* constraint, freezes and melts variables.  A variable that was removed   *)
(* by an earlier call is then active again, its literal is tainted if the  *)
(* extension stack may flip it, and the next call first restores the       *)
(* clauses that a tainted literal makes unsafe to leave out.  The          *)
(* techniques of modules Elim, Blocked, Probe and Vivify run during a call.*)
(***************************************************************************)
EXTENDS Elim, Blocked, Probe, Vivify

CONSTANTS
  Addable,       \* clauses the user may add later
  Assumable,     \* literals the user may assume or constrain
  RestoreAll,    \* opts.restoreall
  Cover,         \* opts.cover
  MaxCalls,      \* bound on calls of solve
  MaxOps,        \* bound on the user's calls between them
  MaxTechniques  \* bound on techniques started in a call

VARIABLES
  restoreflush,  \* opts.restoreflush, either way
  tainted,       \* literals whose negation is a witness and which came back
  assumptions, constraint,
  api,           \* "user" or "solving"
  calls, ops, techniques

userVars == <<restoreflush, tainted, assumptions, constraint, api, calls, ops>>
externalVars == <<original, internal, phase, backward, schedule, pured, round, techniques, userVars>>

Witness(S) == UNION {p.witness : p \in Range(S.extension)}

(***************************************************************************)
(* internalize: literals become active again and are tainted if their      *)
(* negation is a witness (W, the bits of the stack).                       *)
(***************************************************************************)
reactivate(S, L) ==
  [S EXCEPT !.status = [v \in Var |-> IF v \in VarsOf(L) /\ @[v] /= "fixed" THEN "active" ELSE @[v]]]

TaintedNever(W, L) == {}

TaintedBy(W, L) == {l \in L : -l \in W}

(* add_new_original_clause.                                                *)
add_new_original_clause(S, c) ==
  LET d == c \ False(S)
  IN IF S.unsat \/ Tautology(c) \/ c \cap S.val /= {} THEN S
     ELSE IF d = {} THEN learn_empty_clause(S)
     ELSE IF Cardinality(d) = 1 THEN assign_unit(S, CHOOSE l \in d : TRUE)
     ELSE new_irredundant(S, d)

(***************************************************************************)
(* restore_clauses: over the stack from its bottom to its top; restoring   *)
(* a clause may taint more literals, which matters for the clauses above.  *)
(***************************************************************************)
RestoreStep(W, R, p) ==
  LET tlit == \E w \in p.witness : -w \in R.tainted
      satisfied == restoreflush /\ p.clause \cap R.S.val /= {}
  IN IF satisfied THEN R
     ELSE IF tlit \/ RestoreAll > 0 THEN
       [R EXCEPT !.S = add_new_original_clause(reactivate(@, p.clause), p.clause),
                 !.tainted = @ \cup TaintedBy(W, p.clause)]
     ELSE [R EXCEPT !.kept = Append(@, p)]

restore_clauses(S, T) ==
  LET R == FoldLeft(LAMBDA A, p : RestoreStep(Witness(S), A, p),
                    [S |-> S, tainted |-> T, kept |-> <<>>], S.extension)
  IN IF T = {} /\ RestoreAll < 2 THEN S ELSE [R.S EXCEPT !.extension = R.kept]

-----------------------------------------------------------------------------
UserCall ==
  /\ api = "user" /\ ops < MaxOps /\ ops' = ops + 1
  /\ UNCHANGED <<restoreflush, phase, backward, schedule, pured, round, api, calls, techniques>>

add(c) ==
  /\ UserCall
  /\ original' = original \cup {c}
  /\ tainted' = tainted \cup TaintedBy(Witness(internal), c)
  /\ internal' = add_new_original_clause(reactivate(internal, c), c)
  /\ UNCHANGED <<assumptions, constraint>>

(* freeze and melt count; assumptions and the constraint freeze too.       *)
freezeAll(S, L) ==
  [S EXCEPT !.frozentab = [v \in Var |-> @[v] + Cardinality({l \in L : VarOf(l) = v})]]

meltAll(S, L) ==
  [S EXCEPT !.frozentab = [v \in Var |-> @[v] - Cardinality({l \in L : VarOf(l) = v})]]

assume(l) ==
  /\ UserCall
  /\ l \notin assumptions
  /\ assumptions' = assumptions \cup {l}
  /\ tainted' = tainted \cup TaintedBy(Witness(internal), {l})
  /\ internal' = freezeAll(reactivate(internal, {l}), {l})
  /\ UNCHANGED <<original, constraint>>

(* constrain: a new constraint replaces the old one; false literals are    *)
(* dropped, a true one or both signs of a variable satisfy it.             *)
(* NoConstraint if there is none, Unsatisfiable if all literals are false  *)
(* (unsat_constraint): 0 is no literal and is never true.                  *)
NoConstraint == {}
Unsatisfiable == {0}

constrain(c) ==
  LET S == reactivate(meltAll(internal, constraint), c)
      kept == IF Tautology(c) \/ c \cap S.val /= {} THEN NoConstraint
              ELSE IF c \subseteq False(S) THEN Unsatisfiable ELSE c \ False(S)
  IN /\ UserCall
     /\ constraint' = kept
     /\ tainted' = tainted \cup TaintedBy(Witness(internal), c)
     /\ internal' = freezeAll(S, kept)
     /\ UNCHANGED <<original, assumptions>>

(* The user may melt what the user froze.                                  *)
UserCount(v) ==
  internal.frozentab[v] - Cardinality({l \in assumptions : VarOf(l) = v})
                        - Cardinality({l \in constraint : VarOf(l) = v})

freeze(v) ==
  /\ UserCall
  /\ UserCount(v) = 0
  /\ tainted' = tainted \cup TaintedBy(Witness(internal), {v})
  /\ internal' = freezeAll(reactivate(internal, {v}), {v})
  /\ UNCHANGED <<original, assumptions, constraint>>

melt(v) ==
  /\ UserCall
  /\ UserCount(v) > 0
  /\ tainted' = tainted \cup TaintedBy(Witness(internal), {v})
  /\ internal' = meltAll(reactivate(internal, {v}), {v})
  /\ UNCHANGED <<original, assumptions, constraint>>

(* write_dimacs restores clauses before it writes the irredundant ones.    *)
write_dimacs ==
  /\ api = "user" /\ tainted /= {} /\ ~internal.unsat
  /\ LET R == restore_clauses(internal, tainted) IN internal' = IF R.unsat THEN R ELSE propagate(R)
  /\ tainted' = {}
  /\ UNCHANGED <<original, phase, backward, schedule, pured, round, techniques>>
  /\ UNCHANGED <<restoreflush, assumptions, constraint, api, calls, ops>>

(***************************************************************************)
(* Solver::copy into a fresh solver: irredundant clauses and units of      *)
(* frozen variables are added there, then the stack is copied, with the    *)
(* units of other variables on top of it.                                  *)
(***************************************************************************)
traverse_clauses(S) ==
  {c \ False(S) : c \in {d \in S.irr : d \cap S.val = {}}}
    \cup {{l} : l \in {k \in S.val : VarOf(k) \in Frozen}}

traverse_witnesses_forward(S) ==
  S.extension \o [i \in 1 .. Cardinality({k \in S.val : VarOf(k) \notin Frozen}) |->
                    LET l == SetToSeq({k \in S.val : VarOf(k) \notin Frozen})[i]
                    IN [witness |-> {l}, clause |-> {l}]]

copy(S) == [clauses |-> traverse_clauses(S), extension |-> traverse_witnesses_forward(S)]

(* Internal::solve up to search: already_solved, then restore_clauses.     *)
solve ==
  /\ api = "user" /\ calls < MaxCalls
  /\ LET S == propagate(internal)
         R == restore_clauses(S, tainted)
     IN IF constraint = Unsatisfiable THEN UNCHANGED <<internal, tainted>>
        ELSE IF internal.unsat \/ S.unsat
        THEN internal' = learn_empty_clause(internal) /\ UNCHANGED tainted
        ELSE /\ internal' = IF R.unsat THEN R ELSE propagate(R)
             /\ tainted' = {}
  /\ api' = "solving" /\ calls' = calls + 1 /\ ops' = 0 /\ techniques' = 0
  /\ UNCHANGED <<restoreflush, original, phase, backward, schedule, pured, round, assumptions>>
  /\ UNCHANGED constraint

(* A technique starts in phase "idle"; cover does not run with             *)
(* restoreflush.                                                           *)
technique ==
  /\ api = "solving" /\ constraint /= Unsatisfiable
  /\ phase = "idle" => techniques < MaxTechniques
  /\ techniques' = IF phase = "idle" THEN techniques + 1 ELSE techniques
  /\ \/ NextElim /\ UNCHANGED <<schedule, pured, round>>
     \/ NextBlocked /\ UNCHANGED backward
        /\ (phase' = "cover" => Cover /\ ~restoreflush)
     \/ (NextProbe \/ NextSubsume) /\ UNCHANGED <<backward, schedule, pured, round>>
  /\ UNCHANGED userVars

(* The call returns; assumptions and, unless it was interrupted, the       *)
(* constraint are reset with the user's next call.                         *)
return(interrupted) ==
  /\ api = "solving" /\ phase = "idle" /\ (interrupted => constraint /= Unsatisfiable)
  /\ api' = "user"
  /\ assumptions' = {}
  /\ constraint' = IF interrupted THEN constraint ELSE NoConstraint
  /\ internal' = meltAll(meltAll(internal, assumptions), constraint \ constraint')
  /\ techniques' = 0
  /\ UNCHANGED <<restoreflush, original, phase, backward, schedule, pured, round, tainted, calls, ops>>

InitExternal ==
  /\ InitInternal /\ backward = <<>> /\ schedule = {} /\ pured = FALSE /\ round = NoRound
  /\ restoreflush \in BOOLEAN /\ tainted = {} /\ assumptions = {} /\ constraint = NoConstraint
  /\ api = "user" /\ calls \in 0 .. MaxCalls - 1 /\ ops = MaxOps /\ techniques = 0

NextExternal ==
  \/ \E c \in Addable : add(c)
  \/ \E l \in Assumable : assume(l)
  \/ \E c \in SUBSET Assumable : Cardinality(c) = 2 /\ constrain(c)
  \/ \E v \in Var : freeze(v) \/ melt(v)
  \/ solve \/ technique \/ write_dimacs
  \/ \E interrupted \in BOOLEAN : return(interrupted)

SpecExternal == InitExternal /\ [][NextExternal]_externalVars

-----------------------------------------------------------------------------
(***************************************************************************)
(* During a call the clauses that are left and the stack together stand    *)
(* for all clauses added so far: every model of the former that search may *)
(* find under the assumptions and the constraint is extended to a model of *)
(* the user's formula under the same assumptions and constraint.           *)
(***************************************************************************)
Required == {{l} : l \in assumptions} \cup ({constraint} \ {NoConstraint})

CallReconstructs ==
  api = "solving" /\ ~internal.unsat =>
    \A a \in Models(internal.irr \cup Fixed(internal) \cup Required) :
      Satisfies(extend(a, internal.extension), original \cup Required)

(* No variable of the user's pending assumptions or constraint is removed, *)
(* however long they are pending: search can decide them.                  *)
PendingActive ==
  \A l \in assumptions \cup constraint : VarOf(l) \notin Removed

(***************************************************************************)
(* A copy taken when nothing waits to be restored has the models of the    *)
(* original: a model of the copied clauses is extended to a model of the   *)
(* user's formula.                                                         *)
(***************************************************************************)
CopyHasSameModels ==
  LET C == copy(internal)
  IN phase = "idle" /\ ~internal.unsat /\ tainted = {} =>
       \A a \in Models(C.clauses) : Satisfies(extend(a, C.extension), original)

(* Nothing the user may rely on is lost by what techniques forget.         *)
ModelsKept == CallReconstructs /\ PendingActive /\ CopyHasSameModels

=============================================================================
