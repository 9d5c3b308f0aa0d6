------------------------------ MODULE Minisat ------------------------------
(***************************************************************************)
(* MiniSat's solver (minisat/minisat/core/Solver.cc): adding clauses,      *)
(* propagation over two watched literals, first-UIP learning with          *)
(* minimization, backjumping, restarts, reduction of the learnt clauses,   *)
(* solving under assumptions and the final conflict.                       *)
(* A clause of the database is a sequence whose first two literals are     *)
(* watched.  The blocker of a watcher is some literal of the clause, so a  *)
(* visit may be cut short whenever the clause has a true literal.  Order   *)
(* of watchers, decision order and phases are arbitrary: activities, the   *)
(* order heap, phase saving and random decisions choose among them.        *)
(* Released variables and memory relocation are left out.                  *)
(***************************************************************************)
EXTENDS Cnf, Sequences, SequencesExt

CONSTANTS
  Inputs,        \* the sequences of clauses a run may add, one after another
  Assumptions,   \* the sequences of assumptions a run may solve under
  MaxSolves,     \* bound on calls of solve
  MaxLater,      \* bound on the clauses still to be added when solve is called
  MaxRestarts    \* bound on restarts per call; luby(..) grows without bound

VARIABLES
  todo,          \* clauses that will still be added
  formula,       \* the clauses added so far (for the properties)
  db,            \* id -> clause: clauses and learnts
  learnts,       \* ids of the learnt clauses
  ok,            \* FALSE once the clauses are known to be contradictory
  trail,         \* assigned literals in order
  trail_lim,     \* length of the trail below each decision
  vardata,       \* variable -> level and reason (id of a clause, 0 for none)
  qhead,         \* literals of the trail that have been propagated
  visit,         \* ids of the watchers of trail[qhead] not visited yet
  confl,         \* id of the conflicting clause, 0 for CRef_Undef
  out_learnt,    \* the clause analyze derives
  assumptions, conflict, model, status,   \* the query and its answer
  pc,            \* "idle", "adding", "search", "analyze"
  solves, restarts

input == <<todo, formula>>
clauses == <<db, learnts>>
queue == <<qhead, visit, confl>>
answer == <<assumptions, conflict, model, status>>
bounds == <<solves, restarts>>
vars == <<input, clauses, ok, trail, trail_lim, vardata, queue, out_learnt, answer, pc, bounds>>

ToClause(s) == {s[i] : i \in DOMAIN s}
True == ToClause(trail)
False == Negated(True)
Live == DOMAIN db
decisionLevel == Len(trail_lim)
level(l) == vardata[VarOf(l)].level
reason(l) == vardata[VarOf(l)].reason

NoData == [level |-> 0, reason |-> 0]

Init ==
  /\ todo \in Inputs /\ formula = {}
  /\ db = <<>> /\ learnts = {} /\ ok = TRUE
  /\ trail = <<>> /\ trail_lim = <<>> /\ vardata = [v \in Var |-> NoData]
  /\ qhead = 0 /\ visit = {} /\ confl = 0 /\ out_learnt = {}
  /\ assumptions = <<>> /\ conflict = {} /\ model = {} /\ status = "none"
  /\ pc = "idle" /\ solves = 0 /\ restarts = 0

Fresh == IF Live = {} THEN 1 ELSE Max(Live) + 1
With(f, i, x) == [j \in DOMAIN f \cup {i} |-> IF j = i THEN x ELSE f[j]]
Without(f, S) == [j \in DOMAIN f \ S |-> f[j]]

(* The data of a variable that leaves the trail is not read any more.      *)
DataOf(t) == [v \in Var |-> IF v \in VarsOf(ToClause(t)) THEN vardata[v] ELSE NoData]

(* uncheckedEnqueue after the trail t, at level d.                         *)
Enqueue(t, l, d, r) ==
  /\ trail' = Append(t, l)
  /\ vardata' = [DataOf(t) EXCEPT ![VarOf(l)] = [level |-> d, reason |-> r]]

(***************************************************************************)
(* addClause_: satisfied and tautological clauses are dropped, false       *)
(* literals removed, a unit is propagated.                                 *)
(***************************************************************************)
Strip(c) == c \ False

(* sort(ps): in the order of Lit, a variable before its negation.          *)
Index(l) == 2 * VarOf(l) + (IF l < 0 THEN 1 ELSE 0)
Sorted(S) ==
  CHOOSE s \in [1 .. Cardinality(S) -> S] :
    \A i, j \in 1 .. Cardinality(S) : i < j => Index(s[i]) < Index(s[j])

addClause ==
  /\ pc = "idle" /\ todo /= <<>>
  /\ LET c == Head(todo)
         ps == Strip(c)
     IN /\ todo' = Tail(todo) /\ formula' = formula \cup {c}
        /\ \/ /\ ~ok \/ Tautology(c) \/ c \cap True /= {}
              /\ UNCHANGED <<db, ok, trail, vardata, pc>>
           \/ /\ ok /\ ~Tautology(c) /\ c \cap True = {}
              /\ ok' = (ps /= {})
              /\ \/ ps = {} /\ UNCHANGED <<db, trail, vardata, pc>>
                 \/ /\ Cardinality(ps) = 1 /\ pc' = "adding"
                    /\ \E l \in ps : Enqueue(trail, l, 0, 0)
                    /\ UNCHANGED db
                 \/ /\ Cardinality(ps) > 1
                    /\ db' = With(db, Fresh, Sorted(ps))
                    /\ UNCHANGED <<trail, vardata, pc>>
  /\ status' = "none"       \* the last answer is not about this clause
  /\ UNCHANGED <<learnts, trail_lim, queue, out_learnt, assumptions, conflict, model, bounds>>

(* addClause_ after propagating the unit.                                  *)
AddedUnit ==
  /\ pc = "adding" /\ (confl /= 0 \/ qhead = Len(trail)) /\ visit = {}
  /\ ok' = (confl = 0) /\ pc' = "idle" /\ confl' = 0
  /\ UNCHANGED <<input, clauses, trail, trail_lim, vardata, qhead, visit, out_learnt, answer, bounds>>

(***************************************************************************)
(* propagate: the next literal of the trail, then one watcher at a time.   *)
(***************************************************************************)
Watching(p) == {i \in Live : -p \in {db[i][1], db[i][2]}}

PropagateLit ==
  /\ pc \in {"adding", "search"} /\ confl = 0 /\ visit = {} /\ qhead < Len(trail)
  /\ qhead' = qhead + 1
  /\ visit' = Watching(trail[qhead + 1])
  /\ UNCHANGED <<input, clauses, ok, trail, trail_lim, vardata, confl, out_learnt, answer, pc, bounds>>

(* The false watch becomes the second literal.                             *)
Ordered(c, l) == IF c[1] = l THEN [c EXCEPT ![1] = c[2], ![2] = l] ELSE c

NewWatch(c) == {k \in 3 .. Len(c) : c[k] \notin False}

VisitClause(i) ==
  LET l == -trail[qhead]
      c == Ordered(db[i], l)
  IN \/ /\ ToClause(c) \cap True /= {}             \* the blocker is true
        /\ visit' = visit \ {i} /\ UNCHANGED <<db, trail, vardata, qhead, confl>>
     \/ /\ c[1] \in True                            \* the other watch is true
        /\ db' = [db EXCEPT ![i] = c]
        /\ visit' = visit \ {i} /\ UNCHANGED <<trail, vardata, qhead, confl>>
     \/ /\ c[1] \notin True /\ NewWatch(c) /= {}    \* the first literal that is not false
        /\ LET k == Min(NewWatch(c)) IN db' = [db EXCEPT ![i] = [c EXCEPT ![2] = c[k], ![k] = l]]
        /\ visit' = visit \ {i} /\ UNCHANGED <<trail, vardata, qhead, confl>>
     \/ /\ NewWatch(c) = {} /\ c[1] \in False       \* conflict: the queue is emptied
        /\ db' = [db EXCEPT ![i] = c]
        /\ confl' = i /\ qhead' = Len(trail) /\ visit' = {}
        /\ UNCHANGED <<trail, vardata>>
     \/ /\ NewWatch(c) = {} /\ c[1] \notin True \cup False
        /\ db' = [db EXCEPT ![i] = c]
        /\ Enqueue(trail, c[1], decisionLevel, i)
        /\ visit' = visit \ {i} /\ UNCHANGED <<qhead, confl>>

Visit ==
  /\ pc \in {"adding", "search"} /\ confl = 0
  /\ \E i \in visit : VisitClause(i)
  /\ UNCHANGED <<input, learnts, ok, trail_lim, out_learnt, answer, pc, bounds>>

(***************************************************************************)
(* solve: search from level 0.                                             *)
(***************************************************************************)
Solve ==
  /\ pc = "idle" /\ solves < MaxSolves /\ Len(todo) <= MaxLater
  /\ solves' = solves + 1 /\ restarts' = 0
  /\ assumptions' \in Assumptions
  /\ conflict' = {} /\ model' = {}
  /\ pc' = IF ok THEN "search" ELSE "idle"
  /\ status' = IF ok THEN "none" ELSE "unsat"
  /\ UNCHANGED <<input, clauses, ok, trail, trail_lim, vardata, queue, out_learnt>>

cancelUntil(d) ==
  IF d >= decisionLevel THEN UNCHANGED <<trail, trail_lim, vardata, qhead>>
  ELSE /\ trail' = SubSeq(trail, 1, trail_lim[d + 1])
       /\ vardata' = DataOf(trail')
       /\ trail_lim' = SubSeq(trail_lim, 1, d)
       /\ qhead' = trail_lim[d + 1]

(* The end of solve: copy the model, or note the contradiction, and go     *)
(* back to level 0.                                                        *)
Finish(s) ==
  /\ status' = s
  /\ model' = IF s = "sat" THEN True ELSE {}
  /\ ok' = (ok /\ ~(s = "unsat" /\ conflict' = {}))
  /\ cancelUntil(0)
  /\ pc' = "idle" /\ confl' = 0
  /\ UNCHANGED <<input, clauses, visit, out_learnt, assumptions, bounds>>

RootConflict ==
  /\ pc = "search" /\ confl /= 0 /\ decisionLevel = 0
  /\ conflict' = conflict
  /\ Finish("unsat")

(***************************************************************************)
(* analyze: resolve the conflict along the trail, last literal first,      *)
(* until one literal of the current level is left (the first UIP).         *)
(* Literals of level 0 are dropped.                                        *)
(***************************************************************************)
Raised(c) == {q \in c : level(q) > 0}
Current(c) == {q \in c : level(q) = decisionLevel}

(* The literal of c that was falsified last.                               *)
Latest(c) ==
  CHOOSE q \in c : \E i \in DOMAIN trail : trail[i] = -q /\
                     \A j \in i + 1 .. Len(trail) : -trail[j] \notin c

AnalyzeStart ==
  /\ pc = "search" /\ confl /= 0 /\ decisionLevel > 0
  /\ out_learnt' = Raised(ToClause(db[confl])) /\ pc' = "analyze" /\ confl' = 0
  /\ UNCHANGED <<input, clauses, ok, trail, trail_lim, vardata, qhead, visit, answer, bounds>>

Resolve ==
  /\ pc = "analyze" /\ Cardinality(Current(out_learnt)) > 1
  /\ LET q == Latest(out_learnt)
     IN out_learnt' = (out_learnt \ {q}) \cup Raised(ToClause(db[reason(q)]) \ {-q})
  /\ UNCHANGED <<input, clauses, ok, trail, trail_lim, vardata, queue, answer, pc, bounds>>

(* litRedundant: a literal whose reason leads back to literals of the      *)
(* clause and of level 0 only.  One pass over the trail finds them all; a  *)
(* literal without a reason is kept.                                       *)
Redundant(c) ==
  LET R[k \in 0 .. Len(trail)] ==
        IF k = 0 THEN {}
        ELSE LET before == R[k - 1]
                 p == trail[k]
             IN IF reason(p) /= 0 /\ Raised(ToClause(db[reason(p)]) \ {p}) \subseteq c \cup before
                THEN before \cup {-p} ELSE before
  IN c \cap R[Len(trail)]

Highest(c) == CHOOSE l \in c : \A m \in c : level(l) >= level(m)

(* Minimize, backjump, attach the clause, enqueue its first literal.       *)
LearnClause ==
  /\ pc = "analyze"
  /\ \E uip \in Current(out_learnt) :
       LET rest == (out_learnt \ {uip}) \ Redundant(out_learnt)
           h == Highest(rest)
           back == IF rest = {} THEN 0 ELSE level(h)
       IN /\ Current(out_learnt) = {uip}
          /\ Enqueue(SubSeq(trail, 1, trail_lim[back + 1]), uip, back, IF rest = {} THEN 0 ELSE Fresh)
          /\ trail_lim' = SubSeq(trail_lim, 1, back)
          /\ qhead' = trail_lim[back + 1]
          /\ IF rest = {} THEN UNCHANGED clauses
             ELSE /\ db' = With(db, Fresh, <<uip, h>> \o SetToSeq(rest \ {h}))
                  /\ learnts' = learnts \cup {Fresh}
  /\ pc' = "search" /\ out_learnt' = {}
  /\ UNCHANGED <<input, ok, visit, confl, answer, bounds>>

-----------------------------------------------------------------------------
(* search when propagation found no conflict.                              *)
Quiet == pc = "search" /\ confl = 0 /\ visit = {} /\ qhead = Len(trail)

Restart ==
  /\ Quiet /\ restarts < MaxRestarts /\ decisionLevel > 0
  /\ restarts' = restarts + 1
  /\ cancelUntil(0)
  /\ UNCHANGED <<input, clauses, ok, visit, confl, out_learnt, answer, pc, solves>>

(* simplify at level 0: satisfied clauses go, false literals are trimmed,  *)
(* except the watched ones; removeClause forgets reasons that are removed. *)
Satisfied == {i \in Live : ToClause(db[i]) \cap True /= {}}

(* Each of the literals after the second in turn; the last literal takes   *)
(* the place of a false one.                                               *)
Popped(s, k) == [j \in 1 .. Len(s) - 1 |-> IF j = k THEN s[Len(s)] ELSE s[j]]

TrimAt(s, k) == IF s[k] \in False THEN Popped(s, k) ELSE s

Trim(c) ==
  LET T[n \in 0 .. Len(c) - 2] ==
        IF n = 0 THEN c ELSE TrimAt(T[n - 1], n + 2 - (Len(c) - Len(T[n - 1])))
  IN T[Len(c) - 2]

simplify ==
  /\ Quiet /\ decisionLevel = 0
  /\ Satisfied /= {} \/ \E i \in Live : Trim(db[i]) /= db[i]
  /\ db' = [i \in Live \ Satisfied |-> Trim(db[i])]
  /\ learnts' = learnts \ Satisfied
  /\ vardata' = [v \in Var |-> [vardata[v] EXCEPT !.reason = IF @ \in Satisfied THEN 0 ELSE @]]
  /\ UNCHANGED <<input, ok, trail, trail_lim, queue, out_learnt, answer, pc, bounds>>

(* reduceDB: learnt clauses of more than two literals that are no reason.  *)
locked(i) == db[i][1] \in True /\ reason(db[i][1]) = i

reduceDB ==
  /\ Quiet
  /\ \E S \in SUBSET {i \in learnts : Len(db[i]) > 2 /\ ~locked(i)} :
       /\ S /= {}
       /\ db' = Without(db, S) /\ learnts' = learnts \ S
  /\ UNCHANGED <<input, ok, trail, trail_lim, vardata, queue, out_learnt, answer, pc, bounds>>

(***************************************************************************)
(* The next assumption: a dummy level when it holds already, the final     *)
(* conflict when it is false, a decision otherwise.                        *)
(***************************************************************************)
Deciding(l) ==
  /\ trail_lim' = Append(trail_lim, Len(trail))
  /\ Enqueue(trail, l, decisionLevel + 1, 0)
  /\ UNCHANGED <<input, clauses, ok, queue, out_learnt, answer, pc, bounds>>

(* analyzeFinal: l and the negated decisions its truth rests on, collected *)
(* from the end of the trail.                                              *)
analyzeFinalOnlyAssumed(l) == {l}

analyzeFinal(l) ==
  LET seen[k \in 0 .. Len(trail)] ==
        IF k = 0 THEN {l}
        ELSE LET after == seen[k - 1]
                 p == trail[Len(trail) + 1 - k]
             IN IF p \notin after \/ level(p) = 0 \/ reason(p) = 0 THEN after
                ELSE after \cup Negated(Raised(ToClause(db[reason(p)]) \ {p}))
  IN {l} \cup {-p : p \in {q \in seen[Len(trail)] : level(q) > 0 /\ reason(q) = 0}}

Assume ==
  /\ Quiet /\ decisionLevel < Len(assumptions)
  /\ LET a == assumptions[decisionLevel + 1] IN
     \/ /\ a \in True
        /\ trail_lim' = Append(trail_lim, Len(trail))
        /\ UNCHANGED <<input, clauses, ok, trail, vardata, queue, out_learnt, answer, pc, bounds>>
     \/ a \in False /\ conflict' = analyzeFinal(-a) /\ Finish("unsat")
     \/ a \notin True \cup False /\ Deciding(a)

pickBranchLit ==
  /\ Quiet /\ decisionLevel >= Len(assumptions)
  /\ \E l \in Lit \ (True \cup False) : Deciding(l)

ModelFound ==
  /\ Quiet /\ decisionLevel >= Len(assumptions)
  /\ True \cup False = Lit
  /\ conflict' = conflict
  /\ Finish("sat")

Idle == pc = "idle" /\ todo = <<>> /\ solves = MaxSolves /\ UNCHANGED vars

Next ==
  \/ addClause \/ AddedUnit \/ PropagateLit \/ Visit \/ Solve \/ RootConflict
  \/ AnalyzeStart \/ Resolve \/ LearnClause
  \/ Restart \/ simplify \/ reduceDB \/ Assume \/ pickBranchLit \/ ModelFound \/ Idle

Spec == Init /\ [][Next]_vars /\ WF_vars(Next)

-----------------------------------------------------------------------------
(* Types: reasons are clauses of the database that contain what they       *)
(* imply, and the trail is consistent.                                     *)
TypeOK ==
  /\ pc \in {"idle", "adding", "search", "analyze"} /\ status \in {"none", "sat", "unsat"}
  /\ ~Conflicts(True) /\ qhead \in 0 .. Len(trail)
  /\ \A i \in Live : Len(db[i]) >= 2
  /\ \A l \in True : reason(l) /= 0 => reason(l) \in Live /\ l = db[reason(l)][1]

(***************************************************************************)
(* The two-watched-literal scheme misses nothing: when propagate is done   *)
(* without a conflict, a clause with a false watch has a true literal, set *)
(* no later than the watch was falsified, so that backtracking does not    *)
(* leave the watch false alone.  In particular propagate has found every   *)
(* unit, and the assertion of removeSatisfied holds.                       *)
(***************************************************************************)
WatchInvariant ==
  Quiet => \A i \in Live : \A w \in {db[i][1], db[i][2]} \cap False :
             \E l \in ToClause(db[i]) \cap True : level(l) <= level(w)

(***************************************************************************)
(* What analyze promises: every clause it derives follows from the formula *)
(* and is false, and the clause learnt is unit where the search jumps back *)
(* to.                                                                     *)
(***************************************************************************)
Learning ==
  /\ pc = "analyze" => /\ out_learnt \subseteq False /\ Current(out_learnt) /= {}
                       /\ Implies(formula, out_learnt)
  /\ \A i \in learnts : Implies(formula, ToClause(db[i]))

(***************************************************************************)
(* solve's answer is right: a model satisfies the clauses and assumptions; *)
(* after an unsatisfiable query conflict holds negated assumptions only    *)
(* (failed() of minisatCore looks them up so) and follows from the clauses;*)
(* it is empty only if the clauses alone are contradictory.                *)
(***************************************************************************)
AnswerSound ==
  pc = "idle" =>
    /\ status = "sat" => model \in Models(formula) /\ ToClause(assumptions) \subseteq model
    /\ status = "unsat" => /\ conflict \subseteq Negated(ToClause(assumptions))
                           /\ Implies(formula, conflict)
    /\ ~ok => ~Satisfiable(formula)

(* Every call of solve returns, whatever is learnt, forgotten and restarted. *)
Returns == (pc = "search") ~> (pc = "idle")

=============================================================================
