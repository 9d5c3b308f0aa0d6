-------------------------------- MODULE Cdcl --------------------------------
(***************************************************************************)
(* CaDiCaL's search (cdcl_loop_with_inprocessing) without inprocessing:    *)
(* propagation over two watched literals, conflict analysis with shrinking *)
(* and minimization, chronological backtracking, eager subsumption,        *)
(* restarts that reuse the trail, reduction of the redundant clauses,      *)
(* assumptions, the constraint, and the failed assumptions.                *)
(* Chronological backtracking keeps literals of lower levels that were     *)
(* assigned later ("out of order"), so levels are not monotone along the   *)
(* trail.  A clause is a sequence whose first two literals are watched;    *)
(* the blocking literal of a long clause is some literal of it.  Order of  *)
(* watches, decision variables, phases, and every limit are arbitrary.     *)
(***************************************************************************)
EXTENDS Cnf, Sequences, SequencesExt

CONSTANTS
  Queries,        \* records [cnf, assume, constrain, chrono, chronoalways]: what a run may
                  \* solve, and the options: chrono is 1 or 2, chronoalways a Boolean
  MaxRestarts,    \* bound on the restarts of a call
  MaxReduce       \* bound on the reductions of a call

VARIABLES
  query,
  db,             \* id -> literals
  redundant,      \* ids of redundant clauses
  garbage,        \* ids marked as garbage and not collected yet
  trail, propagated,
  control,        \* level -> its decision (0 for a pseudo level), trail height
  vtab,           \* variable -> level and reason (0 for none)
  visit,          \* ids of the watches of the literal being propagated
  conflict,       \* id of the conflicting clause, 0 for none
  clause,         \* the literals analyze has collected
  unsat, unsat_constraint,
  status, failed, \* the answer, and the literals flagged as failed
  pc,             \* "search", "reduce", "analyze", "done"
  restarts, reductions

clauses == <<db, redundant, garbage>>
assigned == <<trail, control, vtab>>
queue == <<propagated, visit, conflict>>
result == <<unsat, unsat_constraint, status, failed>>
bounds == <<restarts, reductions>>
vars == <<query, clauses, assigned, queue, clause, result, pc, bounds>>

ToClause(s) == {s[i] : i \in DOMAIN s}
True == ToClause(trail)
False == Negated(True)
Live == DOMAIN db
level == Len(control)
lev(l) == vtab[VarOf(l)].level
reason(l) == vtab[VarOf(l)].reason
Reasons == {reason(l) : l \in True}
Fixed == {l \in True : lev(l) = 0}
Literals(i) == ToClause(db[i])
Formula == {ToClause(query.cnf[i]) : i \in DOMAIN query.cnf}
LevelsOf(c) == {lev(q) : q \in c}
MaxLevel(c) == Max(LevelsOf(c) \cup {0})
NoData == [level |-> 0, reason |-> 0]

Init ==
  /\ query \in Queries
  /\ db = query.cnf /\ redundant = {} /\ garbage = {}
  /\ trail = <<>> /\ propagated = 0 /\ control = <<>>
  /\ vtab = [v \in Var |-> NoData]
  /\ visit = {} /\ conflict = 0 /\ clause = {}
  /\ unsat = FALSE /\ unsat_constraint = FALSE /\ status = 0 /\ failed = {}
  /\ pc = "search" /\ restarts = 0 /\ reductions = 0

Fresh == Max(Live \cup {0}) + 1
With(f, i, x) == [j \in DOMAIN f \cup {i} |-> IF j = i THEN x ELSE f[j]]
DataOf(t) == [v \in Var |-> IF v \in VarsOf(ToClause(t)) THEN vtab[v] ELSE NoData]

(* search_assign after the trail t; a literal of level 0 has no reason.    *)
search_assign(t, l, d, r) ==
  /\ trail' = Append(t, l)
  /\ vtab' = [DataOf(t) EXCEPT ![VarOf(l)] = [level |-> d, reason |-> IF d = 0 THEN 0 ELSE r]]

(* The level of a literal implied by a clause, not the current one.        *)
assignment_level(l, i) == MaxLevel(Literals(i) \ {l})

-----------------------------------------------------------------------------
(* propagate: the next literal, then its watches.                          *)
Propagating == pc \in {"search", "reduce"} /\ ~unsat

Watching(p) == {i \in Live : -p \in {db[i][1], db[i][2]}}

PropagateLit ==
  /\ Propagating /\ conflict = 0 /\ visit = {} /\ propagated < Len(trail)
  /\ propagated' = propagated + 1
  /\ visit' = Watching(trail[propagated + 1])
  /\ UNCHANGED <<query, clauses, assigned, conflict, clause, result, pc, bounds>>

(* A binary clause: its other literal is the blocking literal.  After a    *)
(* conflict the remaining binary watches are still visited.                *)
VisitBinary(i, other) ==
  /\ visit' = visit \ {i}
  /\ \/ other \in True /\ UNCHANGED <<trail, vtab, conflict>>
     \/ other \in False /\ conflict' = i /\ UNCHANGED <<trail, vtab>>
     \/ /\ other \notin True \cup False
        /\ search_assign(trail, other, assignment_level(other, i), i)
        /\ UNCHANGED conflict
  /\ UNCHANGED db

(* The watched literals other and w first, the literal at k where w was.   *)
Rewatch(c, other, w, k) == [[c EXCEPT ![k] = IF c[1] = other THEN c[2] ELSE c[1]] EXCEPT ![1] = other, ![2] = w]

(* The literal that replaces lit when other is implied at a higher level.  *)
HighestAt(c, d) == Min({k \in 3 .. Len(c) : lev(c[k]) = d})

(* A long clause.  The search for a replacement starts at the saved        *)
(* position, so it is any literal that is not false.                       *)
Replacement(c) == {k \in 3 .. Len(c) : c[k] \notin False}

VisitLong(i, lit, other) ==
  LET c == db[i]
      d == assignment_level(other, i)
  IN /\ visit' = visit \ {i}
     /\ \/ Literals(i) \cap True /= {} /\ UNCHANGED <<db, trail, vtab, conflict>>
        \/ /\ other \notin True
           /\ \E k \in Replacement(c) :
                /\ c[k] \notin True
                /\ db' = [db EXCEPT ![i] = Rewatch(c, other, c[k], k)]
           /\ UNCHANGED <<trail, vtab, conflict>>
        \/ /\ Replacement(c) = {} /\ other \notin True \cup False
           /\ search_assign(trail, other, d, i)
           /\ db' = IF query.chrono > 1 /\ d > lev(lit)
                    THEN [db EXCEPT ![i] = Rewatch(c, other, c[HighestAt(c, d)], HighestAt(c, d))]
                    ELSE db
           /\ UNCHANGED conflict
        \/ /\ Replacement(c) = {} /\ other \in False
           /\ conflict' = i /\ UNCHANGED <<db, trail, vtab>>

Visit ==
  /\ Propagating
  /\ \E i \in visit :
       LET lit == -trail[propagated]
           other == IF db[i][1] = lit THEN db[i][2] ELSE db[i][1]
       IN \/ Len(db[i]) = 2 /\ VisitBinary(i, other)
          \/ /\ Len(db[i]) > 2 /\ conflict /= 0        \* break
             /\ visit' = {} /\ UNCHANGED <<db, trail, vtab, conflict>>
          \/ /\ Len(db[i]) > 2 /\ conflict = 0 /\ i \in garbage
             /\ visit' = visit \ {i} /\ UNCHANGED <<db, trail, vtab, conflict>>
          \/ /\ Len(db[i]) > 2 /\ conflict = 0 /\ i \notin garbage
             /\ VisitLong(i, lit, other)
  /\ UNCHANGED <<query, redundant, garbage, control, propagated, clause, result, pc, bounds>>

(* propagate returned without and with a conflict.                         *)
Quiet == Propagating /\ conflict = 0 /\ visit = {} /\ propagated = Len(trail)
Clash == Propagating /\ conflict /= 0 /\ (visit = {} \/ \A i \in visit : Len(db[i]) > 2)

-----------------------------------------------------------------------------
(* backtrack: literals above level d are unassigned; the others stay, in   *)
(* their order, and those after the trail height are propagated again.     *)
Height(d) == control[d + 1].trail

KeptAll(d) ==
  SubSeq(trail, 1, Height(d))
    \o SelectSeq(SubSeq(trail, Height(d) + 1, Len(trail)), LAMBDA l : lev(l) <= d)

Kept(d) == IF d >= level THEN trail ELSE KeptAll(d)

RepropagatedNothing(d) == IF d >= level THEN propagated ELSE Min({propagated, Len(KeptAll(d))})

Repropagated(d) == IF d >= level THEN propagated ELSE Min({propagated, Height(d)})

BacktrackControl(d) ==
  /\ control' = SubSeq(control, 1, Min({d, level}))
  /\ propagated' = Repropagated(d)

backtrack(d) ==
  /\ BacktrackControl(d)
  /\ trail' = Kept(d) /\ vtab' = DataOf(Kept(d))

(***************************************************************************)
(* find_conflict_level: the two literals of highest level are watched; a   *)
(* single literal of the highest level is forced by the conflict.          *)
(***************************************************************************)
SwapHighest(c, i) ==
  LET m == Max({lev(c[j]) : j \in i .. Len(c)})
      k == Min({j \in i .. Len(c) : lev(c[j]) = m})
  IN [c EXCEPT ![i] = c[k], ![k] = c[i]]

Top(c) == {q \in c : lev(q) = MaxLevel(c)}
Raised(c) == {q \in c : lev(q) > 0}
Current(c) == {q \in c : lev(q) = level}

Conflicting ==
  /\ Clash /\ pc = "search" /\ visit' = {}
  /\ LET c == Literals(conflict)
         conflict_level == MaxLevel(c)
     IN /\ db' = [db EXCEPT ![conflict] = SwapHighest(SwapHighest(@, 1), 2)]
        /\ \/ /\ conflict_level > 0 /\ Cardinality(Top(c)) = 1
              /\ BacktrackControl(conflict_level - 1)
              /\ \E forced \in Top(c) :
                   search_assign(Kept(conflict_level - 1), forced,
                                 assignment_level(forced, conflict), conflict)
              /\ conflict' = 0 /\ UNCHANGED <<clause, unsat, pc>>
           \/ /\ conflict_level = 0
              /\ backtrack(0) /\ unsat' = TRUE /\ conflict' = 0
              /\ UNCHANGED <<clause, pc>>
           \/ /\ conflict_level > 0 /\ Cardinality(Top(c)) > 1
              /\ backtrack(conflict_level)
              /\ clause' = Raised(c) /\ pc' = "analyze"
              /\ UNCHANGED <<conflict, unsat>>
  /\ UNCHANGED <<query, redundant, garbage, unsat_constraint, status, failed, bounds>>

(* The literal of c that was falsified last.                               *)
Latest(c) ==
  CHOOSE q \in c : \E i \in DOMAIN trail : trail[i] = -q /\
                     \A j \in i + 1 .. Len(trail) : -trail[j] \notin c

analyze_reason ==
  /\ pc = "analyze" /\ Cardinality(Current(clause)) > 1
  /\ LET q == Latest(Current(clause))
     IN clause' = (clause \ {q}) \cup Raised(Literals(reason(q)) \ {-q})
  /\ UNCHANGED <<query, clauses, assigned, queue, result, pc, bounds>>

(***************************************************************************)
(* shrink_and_minimize_clause.  Minimizable(K): the false literals below   *)
(* the current level whose reasons lead back to literals of K and level 0. *)
(***************************************************************************)
Minimizable(K) ==
  LET Covered(R, p) ==
        IF reason(p) /= 0 /\ lev(p) < level
             /\ Raised(Literals(reason(p)) \ {p}) \subseteq K \cup R
        THEN R \cup {-p} ELSE R
  IN FoldLeft(Covered, {}, trail)

(* shrink_block: the block B of one level is replaced by the single        *)
(* literal of that level its literals rest on, found by going back along   *)
(* the trail; 0 when a reason needs a literal of a lower level that K does *)
(* not cover.                                                              *)
shrink_block(B, K) ==
  LET below == K \cup Minimizable(K)
      blevel == MaxLevel(B)
      Step(p, s) ==
        IF s.done \/ -p \notin s.open THEN s
        ELSE IF s.open = {-p} THEN [s EXCEPT !.done = TRUE, !.uip = -p]
        ELSE LET others == Raised(Literals(reason(p)) \ {p})
                 same == {q \in others : lev(q) = blevel}
             IN IF others \ same \subseteq below
                THEN [s EXCEPT !.open = (@ \ {-p}) \cup same]
                ELSE [s EXCEPT !.done = TRUE]
  IN FoldRight(Step, trail, [open |-> B, done |-> FALSE, uip |-> 0]).uip

(* minimize_and_shrink_block, given the literals K kept of lower levels.   *)
minimize_block(B, K) ==
  LET Keep(K2, q) == IF q \in Minimizable(K2) THEN K2 ELSE K2 \cup {q}
      Position(q) == CHOOSE i \in DOMAIN trail : trail[i] = -q
  IN FoldLeft(Keep, K, SetToSortSeq(B, LAMBDA q, r : Position(q) < Position(r)))

shrink_clause_blocks(c) ==
  LET Block(d) == {q \in c : lev(q) = d}
      Shrunken(K, d) ==
        LET uip == IF Cardinality(Block(d)) < 2 THEN 0 ELSE shrink_block(Block(d), K)
        IN IF Cardinality(Block(d)) < 2 THEN K \cup Block(d)
           ELSE IF uip /= 0 THEN K \cup {uip}
           ELSE minimize_block(Block(d), K)
  IN FoldLeft(Shrunken, {}, [d \in 1 .. level - 1 |-> d])

(* determine_actual_backtrack_level: the jump level, or any level up to    *)
(* the previous one when the trail is worth keeping.                       *)
BackLevels(jump) ==
  IF query.chronoalways THEN {level - 1}
  ELSE IF jump >= level - 1 \/ jump < Len(query.assume) THEN {jump}
  ELSE jump .. level - 1

(* eagerly_subsume_recently_learned_clauses: any of the redundant clauses  *)
(* the new one subsumes, as far back as the limit reaches.                 *)
EagerlySubsumed(c) ==
  {i \in redundant \ garbage : Fresh - i <= 2 /\ c \subseteq Literals(i)}

(* The conflict is forgotten without a clause that drives the search.      *)
LearnNothing ==
  /\ pc = "analyze" /\ Cardinality(Current(clause)) = 1
  /\ \E back \in BackLevels(MaxLevel(shrink_clause_blocks(clause))) : backtrack(back)
  /\ clause' = {} /\ conflict' = 0 /\ pc' = "search"
  /\ UNCHANGED <<query, clauses, visit, result, bounds>>

(* new_driving_clause and the rest of analyze.                             *)
Learn ==
  /\ pc = "analyze" /\ Cardinality(Current(clause)) = 1
  /\ \E uip \in Current(clause) :
       LET rest == shrink_clause_blocks(clause)
           h == Latest(Top(rest))
           jump == MaxLevel(rest)
       IN \E back \in BackLevels(jump) :
            /\ BacktrackControl(back)
            /\ search_assign(Kept(back), uip, jump, Fresh)
            /\ IF rest = {} THEN UNCHANGED clauses
               ELSE /\ db' = With(db, Fresh, <<uip, h>> \o SetToSeq(rest \ {h}))
                    /\ redundant' = redundant \cup {Fresh}
                    /\ garbage' = garbage \cup EagerlySubsumed({uip} \cup rest)
  /\ clause' = {} /\ conflict' = 0 /\ pc' = "search"
  /\ UNCHANGED <<query, visit, result, bounds>>

-----------------------------------------------------------------------------
(* The branches of the loop when propagate found no conflict.              *)
Searching == Quiet /\ pc = "search"
Pseudo == Len(query.assume) + (IF query.constrain = <<>> THEN 0 ELSE 1)
satisfied == level >= Pseudo /\ Len(trail) = N

Answer(s) ==
  /\ status' = s /\ pc' = "done"
  /\ UNCHANGED <<query, clauses, assigned, queue, clause, bounds>>

Satisfied == Searching /\ satisfied /\ Answer(10) /\ UNCHANGED <<unsat, unsat_constraint, failed>>

Unsat == pc = "search" /\ unsat /\ Answer(20) /\ UNCHANGED <<unsat, unsat_constraint, failed>>

(* search_limits_hit or terminated_asynchronously.                         *)
Break == Searching /\ ~satisfied /\ Answer(0) /\ UNCHANGED <<unsat, unsat_constraint, failed>>

(* restart: never below the assumptions, nor below a pseudo level of the   *)
(* constraint; reuse_trail keeps the levels of better decisions.           *)
restart ==
  /\ Searching /\ ~satisfied /\ restarts < MaxRestarts /\ level >= Len(query.assume) + 2
  /\ restarts' = restarts + 1
  /\ LET trivial == Len(query.assume)
                      + (IF control[Len(query.assume) + 1].decision = 0 THEN 1 ELSE 0)
     IN \E d \in trivial .. level - 1 : backtrack(d)
  /\ UNCHANGED <<query, clauses, visit, conflict, clause, result, pc, reductions>>

(***************************************************************************)
(* reduce: root-level units assigned out of order are propagated at level  *)
(* 0 first (which finds no conflict, see WatchInvariant, so the branch     *)
(* that learns the empty clause is left out); then satisfied clauses are   *)
(* garbage, false root literals go, some redundant clauses become garbage, *)
(* and all garbage except reasons is collected.                            *)
(***************************************************************************)
OutOfOrderUnits == level > 0 /\ \E i \in DOMAIN trail : i > Height(0) /\ lev(trail[i]) = 0

ReduceStart ==
  /\ Searching /\ ~satisfied /\ reductions < MaxReduce /\ redundant /= {}
  /\ reductions' = reductions + 1 /\ pc' = "reduce"
  /\ IF OutOfOrderUnits THEN backtrack(0) ELSE UNCHANGED <<assigned, propagated>>
  /\ UNCHANGED <<query, clauses, visit, conflict, clause, result, restarts>>

RemoveFalsified(c) ==
  LET kept == SelectSeq(c, LAMBDA l : -l \notin Fixed) IN IF Len(kept) < 2 THEN c ELSE kept

protect_reasons == Reasons

Reduce ==
  /\ Quiet /\ pc = "reduce" /\ pc' = "search"
  /\ LET satisfiedIds == {i \in Live : Literals(i) \cap Fixed /= {}}
         useless == redundant \ protect_reasons
     IN \E S \in SUBSET useless :
          LET gone == (garbage \cup satisfiedIds \cup S) \ protect_reasons
          IN /\ db' = [i \in Live \ gone |-> IF i \in garbage THEN db[i] ELSE RemoveFalsified(db[i])]
             /\ redundant' = redundant \ gone
             /\ garbage' = (garbage \cup satisfiedIds) \ gone
  /\ UNCHANGED <<query, assigned, queue, clause, result, bounds>>

(***************************************************************************)
(* failing: the failed assumptions.  A false assumption of level 0 fails   *)
(* alone, one that clashes with its negation together with it; otherwise   *)
(* the one of lowest level fails with the assumptions it rests on.  A      *)
(* false constraint rests on assumptions in the same way.                  *)
(***************************************************************************)
(* A version that goes one reason back only.                               *)
RestsOnDirectly(Start) ==
  LET seen == Start \cup UNION {Negated(Literals(reason(p)) \ {p}) : p \in {q \in Start : reason(q) /= 0}}
  IN {q \in seen : lev(q) > 0 /\ reason(q) = 0}

RestsOn(Start) ==
  LET Because(p, S) ==
        IF p \notin S \/ lev(p) = 0 \/ reason(p) = 0 THEN S
        ELSE S \cup Negated(Literals(reason(p)) \ {p})
      seen == FoldRight(Because, trail, Start)
  IN {q \in seen : lev(q) > 0 /\ reason(q) = 0}

FalseAssumptions == {i \in DOMAIN query.assume : query.assume[i] \in False}

failing ==
  LET lit(i) == query.assume[i]
      units == {i \in FalseAssumptions : lev(lit(i)) = 0}
      clashing == {i \in FalseAssumptions : lev(lit(i)) > 0 /\ reason(lit(i)) = 0}
      lowest == {i \in FalseAssumptions :
                   \A j \in FalseAssumptions : lev(lit(i)) <= lev(lit(j))}
  IN IF units /= {} THEN {lit(Min(units))}
     ELSE IF clashing /= {} THEN {lit(Min(clashing)), -lit(Min(clashing))}
     ELSE {lit(Min(lowest))} \cup RestsOn({-lit(Min(lowest))})

failing_constraint == RestsOn(Negated(ToClause(query.constrain)))

(* decide: the next assumption, the constraint, or any variable.           *)
Decide(l) ==
  /\ control' = Append(control, [decision |-> l, trail |-> Len(trail)])
  /\ IF l = 0 THEN UNCHANGED <<trail, vtab>>
     ELSE /\ trail' = Append(trail, l)
          /\ vtab' = [vtab EXCEPT ![VarOf(l)] = [level |-> level + 1, reason |-> 0]]
  /\ UNCHANGED <<query, clauses, queue, clause, result, pc, bounds>>

DecideAssumption ==
  /\ Searching /\ ~satisfied /\ level < Len(query.assume)
  /\ LET l == query.assume[level + 1]
     IN \/ l \in False /\ failed' = failing /\ Answer(20) /\ UNCHANGED <<unsat, unsat_constraint>>
        \/ l \in True /\ Decide(0)
        \/ l \notin True \cup False /\ Decide(l)

DecideConstraint ==
  /\ Searching /\ ~satisfied /\ level = Len(query.assume) /\ query.constrain /= <<>>
  /\ LET c == query.constrain
         free == {i \in DOMAIN c : c[i] \notin True \cup False}
     IN \/ ToClause(c) \cap True /= {} /\ Decide(0)
        \/ ToClause(c) \cap True = {} /\ free /= {} /\ Decide(c[Min(free)])
        \/ /\ ToClause(c) \subseteq False
           /\ unsat_constraint' = TRUE /\ failed' = failing_constraint
           /\ Answer(20) /\ UNCHANGED unsat

DecideVariable ==
  /\ Searching /\ ~satisfied /\ level >= Pseudo
  /\ \E l \in Lit \ (True \cup False) : Decide(l)

Done == pc = "done" /\ UNCHANGED vars

Next ==
  \/ PropagateLit \/ Visit \/ Conflicting \/ analyze_reason \/ Learn
  \/ Satisfied \/ Unsat \/ Break \/ restart \/ ReduceStart \/ Reduce
  \/ DecideAssumption \/ DecideConstraint \/ DecideVariable \/ Done

Spec == Init /\ [][Next]_vars /\ WF_vars(Next)

-----------------------------------------------------------------------------
Position(l) == CHOOSE i \in DOMAIN trail : trail[i] = l

(* Types; a clause is the reason of one literal only and is not collected  *)
(* while it is one (the assertions of protect_reasons).                    *)
TypeOK ==
  /\ pc \in {"search", "reduce", "analyze", "done"} /\ status \in {0, 10, 20}
  /\ ~Conflicts(True) /\ propagated \in 0 .. Len(trail)
  /\ \A i \in Live : Len(db[i]) >= 2
  /\ \A l \in True : reason(l) /= 0 => reason(l) \in Live
  /\ \A l, m \in True : reason(l) /= 0 /\ reason(l) = reason(m) => l = m

(***************************************************************************)
(* Levels under out-of-order assignment: an implied literal has the        *)
(* highest level of the literals that imply it, all of them false and      *)
(* before it on the trail; a decision opens its level.  Analysis, which    *)
(* looks for the literals of the current level along the trail, and        *)
(* shrinking, which assumes that a literal above another one of its block  *)
(* has a reason, rest on this.                                             *)
(***************************************************************************)
ImplicationLevels ==
  \A l \in True :
    /\ reason(l) /= 0 =>
         /\ l \in Literals(reason(l)) /\ lev(l) = MaxLevel(Literals(reason(l)) \ {l})
         /\ \A q \in Literals(reason(l)) \ {l} : -q \in True /\ Position(-q) < Position(l)
    /\ reason(l) = 0 /\ lev(l) > 0 =>
         control[lev(l)] = [decision |-> l, trail |-> Position(l) - 1]

(***************************************************************************)
(* The watches under chronological backtracking: after propagation a       *)
(* clause with a false watch has a true literal that, whenever             *)
(* backtracking removes it and not the watch, leaves the watch to be       *)
(* propagated again.  So no clause is ever false unnoticed, the literals   *)
(* that reduce removes are never watched, and propagating the out-of-order *)
(* units before it cannot fail.                                            *)
(***************************************************************************)
WatchInvariant ==
  /\ ~(Clash /\ pc = "reduce")
  /\ Quiet =>
    \A i \in Live \ garbage : \A w \in {db[i][1], db[i][2]} \cap False :
      \E l \in Literals(i) \cap True :
        lev(l) <= lev(w) \/ Position(-w) > control[lev(l)].trail

(***************************************************************************)
(* What analysis, shrinking and minimization promise: every clause derived *)
(* follows from the formula; the clause being analyzed is false with at    *)
(* least one literal of the conflict level, and after shrinking every      *)
(* other literal is of a lower level and false.                            *)
(***************************************************************************)
Learning ==
  /\ \A i \in redundant : Implies(Formula, Literals(i))
  /\ pc = "analyze" =>
       /\ clause \subseteq False /\ Current(clause) /= {} /\ Implies(Formula, clause)
       /\ Cardinality(Current(clause)) = 1 =>
            LET rest == shrink_clause_blocks(clause)
            IN rest \subseteq False /\ Implies(Formula, Current(clause) \cup rest)

(***************************************************************************)
(* The answer is right.  The trail of an answer 10 satisfies formula,      *)
(* assumptions and constraint; after 20 the failed literals are            *)
(* assumptions, and with the constraint if that is what failed they        *)
(* contradict the formula.                                                 *)
(***************************************************************************)
AnswerSound ==
  LET constrained == IF unsat_constraint THEN {ToClause(query.constrain)} ELSE {}
  IN /\ status = 10 =>
          /\ True \in Total /\ Satisfies(True, Formula)
          /\ ToClause(query.assume) \subseteq True
          /\ query.constrain /= <<>> => ToClause(query.constrain) \cap True /= {}
     /\ status = 20 =>
          /\ failed \subseteq ToClause(query.assume)
          /\ ~Satisfiable(Formula \cup {{a} : a \in failed} \cup constrained)

(* The loop ends, with any choice of backtrack levels, restarts and        *)
(* reductions up to the bounds.                                            *)
Returns == <>(pc = "done")

=============================================================================
