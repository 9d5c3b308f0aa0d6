----------------------------- MODULE SimpSolver -----------------------------
(***************************************************************************)
(* PDR's transition relation as its solvers get it: encode_translation     *)
(* adds [constraints /\ -bad /\ T] to a minisatSimp with the variables the *)
(* engine will ask for frozen, and copies the simplified clauses to every  *)
(* solver; encode_lift does the same without the constraints.  The         *)
(* simplification is MiniSat's SimpSolver::eliminate: variable             *)
(* elimination, backward subsumption, and asymmetric branching.            *)
(* Watches of a strengthened clause may be false, so propagate may miss    *)
(* units: it finds any of them.  A removed clause stays in the vector that *)
(* the wrapper reads until a garbage collection, which may come after each *)
(* variable.  Orders of queues and of the trail are arbitrary.             *)
(* The option rcheck is off and interrupt is not used: both are left out.  *)
(***************************************************************************)
EXTENDS Cnf, Sequences, SequencesExt

CONSTANTS
  Encodings,  \* records [lift, use_asymm, bad, constraints, rest, frozen]: what PDR encodes,
              \* and the option
  Grow,       \* grow
  ClauseLim   \* clause_lim

(* What PDR hands over: literals and clauses over the variables, and the   *)
(* set of variables it freezes.                                            *)
ASSUME EncodingsAssumption ==
  \A e \in Encodings :
    /\ e.lift \in BOOLEAN /\ e.use_asymm \in BOOLEAN /\ e.bad \in Lit
    /\ e.constraints \in Seq(Lit) /\ e.rest \in Seq(SUBSET Lit)
    /\ e.frozen \subseteq Var

VARIABLES
  enc,
  todo,            \* clauses still to be added
  clauses,         \* clauses that are not removed
  removed,         \* clauses removed and not collected
  trail, ok,
  touched,
  queue,           \* subsumption_queue
  seen,            \* literals of the trail below bwdsub_assigns
  heap,            \* elim_heap
  eliminated, elimclauses,
  elim,            \* the variable taken from the heap
  current, candidates,   \* the clause backwardSubsumptionCheck works with, and those left
  pending,         \* clauses asymmVar, or pairs eliminateVar, still has to try
  pc, ret          \* ret: where backwardSubsumptionCheck returns to

database == <<clauses, removed, trail, ok>>
work == <<touched, queue, seen, heap>>
gone == <<eliminated, elimclauses>>
vars == <<enc, todo, database, work, gone, elim, current, candidates, pending, pc, ret>>

False == Negated(trail)
Occs(v) == {c \in clauses : v \in VarsOf(c)}

(***************************************************************************)
(* encode_translation.  Variable 1 is the constant.                        *)
(***************************************************************************)
Units(s) == [i \in 1 .. Len(s) |-> {s[i]}]

(* encode_lift freezes the constraints but does not add them.              *)
Asserted(e) == IF e.lift THEN <<>> ELSE e.constraints

Added(e) == Units(<<-1, -e.bad>> \o Asserted(e)) \o e.rest
Formula == Range(Added(enc))
satelite_unsat == enc.bad \in Range(Asserted(enc))

(* What the solver of a frame gets: the wrapper's simplified_cnf.          *)
simplified_cnf == clauses \cup removed \cup {{l} : l \in trail} \cup {{N, -N}}
Translation == simplified_cnf \cup (IF satelite_unsat THEN {{1}} ELSE {})

Init ==
  /\ enc \in Encodings /\ todo = Added(enc)
  /\ clauses = {} /\ removed = {} /\ trail = {} /\ ok = TRUE
  /\ touched = {} /\ queue = {} /\ seen = {} /\ heap = Var
  /\ eliminated = {} /\ elimclauses = <<>>
  /\ elim = 0 /\ current = {} /\ candidates = {} /\ pending = {}
  /\ pc = "add" /\ ret = "none"

(***************************************************************************)
(* enqueue and propagate over the clauses F: the assignments reached by    *)
(* any number of unit steps, and the conflicts on the way.                 *)
(***************************************************************************)
UnitsOver(F, a) ==
  {l \in Lit \ (a \cup Negated(a)) : \E c \in F : l \in c /\ c \ {l} \subseteq Negated(a)}

Step(F, R) == R \cup UNION {{b \cup {l} : l \in UnitsOver(F, b)} : b \in R}

Propagations(F, a) ==
  LET reach[k \in 0 .. N] == IF k = 0 THEN {a} ELSE Step(F, reach[k - 1])
  IN reach[N]

Enqueue(F, l) ==
  \/ -l \in trail /\ ok' = FALSE /\ UNCHANGED trail
  \/ l \in trail /\ UNCHANGED <<ok, trail>>
  \/ /\ {l, -l} \cap trail = {}
     /\ \E a \in Propagations(F, trail \cup {l}) :
          /\ trail' = a
          /\ \/ UNCHANGED ok
             \/ (\E c \in F : c \subseteq Negated(a)) /\ ok' = FALSE

(* addClause_, of Solver and SimpSolver.                                   *)
addClause_(c) ==
  LET ps == c \ False IN
  \/ /\ ~ok \/ Tautology(c) \/ c \cap trail /= {}
     /\ UNCHANGED <<clauses, trail, ok, touched, queue>>
  \/ /\ ok /\ ~Tautology(c) /\ c \cap trail = {}
     /\ \/ ps = {} /\ ok' = FALSE /\ UNCHANGED <<clauses, trail, touched, queue>>
        \/ /\ Cardinality(ps) = 1 /\ \E l \in ps : Enqueue(clauses, l)
           /\ UNCHANGED <<clauses, touched, queue>>
        \/ /\ Cardinality(ps) > 1
           /\ clauses' = clauses \cup {ps} /\ queue' = queue \cup {ps}
           /\ touched' = touched \cup VarsOf(ps)
           /\ UNCHANGED <<trail, ok>>

AddClause ==
  /\ pc = "add" /\ todo /= <<>>
  /\ todo' = Tail(todo) /\ addClause_(Head(todo))
  /\ UNCHANGED <<enc, removed, seen, heap, gone, elim, current, candidates, pending, pc, ret>>

(* minisatSimp::simplify.                                                  *)
Simplify ==
  /\ pc = "add" /\ todo = <<>>
  /\ pc' = IF ok THEN "loop" ELSE "done"
  /\ UNCHANGED <<enc, todo, database, work, gone, elim, current, candidates, pending, ret>>

-----------------------------------------------------------------------------
(* updateElimHeap for the variables V.  The variable of asymmVar is frozen *)
(* until its backward subsumption is over.                                 *)
Frozen == enc.frozen \cup (IF pc = "asymm" \/ (pc = "backward" /\ ret = "try") THEN {elim} ELSE {})

Updated(V) == heap \cup {v \in V : v \notin Frozen \cup eliminated /\ {v, -v} \cap trail = {}}

(* gatherTouchedClauses: nothing is touched any more.                      *)
GatherKeeping ==
  /\ queue' = queue \cup UNION {Occs(v) : v \in touched}
  /\ UNCHANGED touched

gatherTouchedClauses ==
  /\ queue' = queue \cup UNION {Occs(v) : v \in touched}
  /\ touched' = {}

(* The main loop: the touched clauses, then backward subsumption.          *)
Loop ==
  /\ pc = "loop"
  /\ IF touched = {} /\ seen = trail /\ heap = {}
     THEN /\ pc' = "done"
          /\ removed' \in {removed, {}}
          /\ UNCHANGED <<queue, touched, ret>>
     ELSE /\ gatherTouchedClauses
          /\ pc' = "backward" /\ ret' = "heap"
          /\ UNCHANGED removed
  /\ UNCHANGED <<enc, todo, clauses, trail, ok, seen, heap, gone, elim, current, candidates, pending>>

(* backwardSubsumptionCheck: the next clause of the queue, or literal of   *)
(* the trail when there is none, with the clauses of its rarest variable.  *)
Rarest(c) == CHOOSE v \in VarsOf(c) : \A w \in VarsOf(c) : Cardinality(Occs(v)) <= Cardinality(Occs(w))

NextSubsumption ==
  /\ pc = "backward"
  /\ \/ \E c \in queue :
          /\ queue' = queue \ {c} /\ current' = c
          /\ candidates' = IF c \in clauses THEN Occs(Rarest(c)) \ {c} ELSE {}
          /\ UNCHANGED <<seen, pc>>
     \/ \E l \in trail \ seen :
          /\ queue = {} /\ seen' = seen \cup {l} /\ current' = {l}
          /\ candidates' = Occs(VarOf(l))
          /\ UNCHANGED <<queue, pc>>
     \/ /\ queue = {} /\ seen = trail
        /\ pc' = ret /\ current' = {} /\ candidates' = {}
        /\ UNCHANGED <<queue, seen>>
  /\ candidates = {}
  /\ UNCHANGED <<enc, todo, database, touched, heap, gone, elim, pending, ret>>

(* Clause::subsumes: the literals of c that d has negated, at most one.    *)
Subsumes(c, d) == Cardinality(c \ d) <= 1 /\ Negated(c \ d) \subseteq d

(* strengthenClause: a clause of two literals is removed and its other     *)
(* literal a unit.                                                         *)
strengthenClause(d, l) ==
  LET e == d \ {l} IN
  /\ clauses' = IF Cardinality(d) = 2 THEN clauses \ {d} ELSE (clauses \ {d}) \cup {e}
  /\ IF Cardinality(d) = 2
     THEN /\ removed' = removed \cup {e} /\ heap' = Updated(VarsOf(d)) /\ queue' = queue \ {d}
          /\ \E k \in e : Enqueue(clauses \ {d}, k)
     ELSE /\ queue' = (queue \ {d}) \cup {e} /\ heap' = Updated({VarOf(l)})
          /\ UNCHANGED <<removed, trail, ok>>

Backward ==
  /\ pc = "backward"
  /\ \E d \in candidates :
       /\ candidates' = candidates \ {d}
       /\ \/ /\ d \notin clauses \/ ~Subsumes(current, d)
             /\ UNCHANGED <<database, queue, heap>>
          \/ /\ d \in clauses /\ Subsumes(current, d)
             /\ \/ /\ current \subseteq d
                   /\ clauses' = clauses \ {d} /\ removed' = removed \cup {d}
                   /\ heap' = Updated(VarsOf(d)) /\ UNCHANGED <<trail, ok, queue>>
                \/ \E l \in current \ d : strengthenClause(d, -l)
  /\ pc' = IF ok' THEN pc ELSE "done"
  /\ UNCHANGED <<enc, todo, touched, seen, gone, elim, current, pending, ret>>

-----------------------------------------------------------------------------
(* The next variable of the heap.                                          *)
NextVar ==
  /\ pc = "heap"
  /\ \/ heap = {} /\ pc' = "loop" /\ UNCHANGED <<heap, elim, pending, removed>>
     \/ \E v \in heap :
          /\ heap' = heap \ {v} /\ elim' = v
          /\ removed' \in {removed, {}}          \* checkGarbage
          /\ IF v \in eliminated \/ {v, -v} \cap trail /= {} THEN UNCHANGED <<pc, pending>>
             ELSE /\ pc' = IF enc.use_asymm THEN "asymm" ELSE "try"
                  /\ pending' = IF enc.use_asymm THEN Occs(v) ELSE {}
  /\ UNCHANGED <<enc, todo, clauses, trail, ok, touched, queue, seen, gone, current, candidates, ret>>

(* asymm: if the negation of the other literals of c leads to a conflict,  *)
(* the literal of the variable goes.                                       *)
Asymmetric(c) ==
  LET others == {l \in c : VarOf(l) /= elim /\ -l \notin trail} IN
  \E a \in Propagations(clauses, trail \cup Negated(others)) : \E d \in clauses : d \subseteq Negated(a)

asymmVar ==
  /\ pc = "asymm"
  /\ \/ \E c \in pending :
          /\ pending' = pending \ {c}
          /\ \/ UNCHANGED <<database, queue, heap>>
             \/ /\ c \in clauses /\ c \cap trail = {} /\ Asymmetric(c)
                /\ \E l \in {k \in c : VarOf(k) = elim \/ -k \in trail} : strengthenClause(c, l)
          /\ pc' = IF ok' THEN pc ELSE "done"
          /\ UNCHANGED ret
     \/ /\ pending = {} /\ pc' = "backward" /\ ret' = "try"
        /\ UNCHANGED <<database, queue, heap, pending>>
  /\ UNCHANGED <<enc, todo, touched, seen, gone, elim, current, candidates>>

(* eliminateVar: not if there would be too many or too long resolvents.    *)
Pos(v) == {c \in clauses : v \in c}
Neg(v) == {c \in clauses : -v \in c}
Resolvents(v) == {x \in Pos(v) \X Neg(v) : ~Tautology(Resolvent(x[1], x[2], v))}

Bounded(v) ==
  /\ Cardinality(Resolvents(v)) <= Cardinality(Occs(v)) + Grow
  /\ \A x \in Resolvents(v) : Cardinality(Resolvent(x[1], x[2], v)) <= ClauseLim

(* mkElimClause: the clauses of the rarer sign, then the other sign alone, *)
(* first literal the one to set.                                           *)
StoredAlways(v) == <<[lit |-> v, clause |-> {v}]>>

Stored(v) ==
  LET sign == IF Cardinality(Pos(v)) > Cardinality(Neg(v)) THEN -1 ELSE 1
      rare == SetToSeq(IF sign = 1 THEN Pos(v) ELSE Neg(v))
  IN [i \in 1 .. Len(rare) |-> [lit |-> sign * v, clause |-> rare[i]]]
       \o <<[lit |-> -(sign * v), clause |-> {-(sign * v)}]>>

EliminableAll == Var

Eliminable == Var \ enc.frozen

(* The clauses of the variable are removed, of both signs.                 *)
RemovedFor(v) == Occs(v)

eliminateVar ==
  /\ pc = "try"
  /\ IF {elim, -elim} \cap trail /= {} \/ elim \notin Eliminable \/ ~Bounded(elim)
     THEN pc' = "heap" /\ UNCHANGED <<clauses, removed, heap, gone, pending>>
     ELSE /\ pc' = "resolvents" /\ pending' = Resolvents(elim)
          /\ eliminated' = eliminated \cup {elim}
          /\ elimclauses' = elimclauses \o Stored(elim)
          /\ clauses' = clauses \ RemovedFor(elim) /\ removed' = removed \cup RemovedFor(elim)
          /\ heap' = Updated(UNION {VarsOf(c) : c \in Occs(elim)} \ {elim})
  /\ UNCHANGED <<enc, todo, trail, ok, touched, queue, seen, elim, current, candidates, ret>>

AddResolvent ==
  /\ pc = "resolvents"
  /\ \/ \E x \in pending :
          /\ pending' = pending \ {x} /\ addClause_(Resolvent(x[1], x[2], elim))
          /\ pc' = IF ok' THEN pc ELSE "done"
          /\ UNCHANGED ret
     \/ /\ pending = {} /\ pc' = "backward" /\ ret' = "heap"
        /\ UNCHANGED <<clauses, trail, ok, touched, queue, pending>>
  /\ UNCHANGED <<enc, todo, removed, seen, heap, gone, elim, current, candidates>>

Done == pc = "done" /\ UNCHANGED vars

Next ==
  \/ AddClause \/ Simplify \/ Loop \/ NextSubsumption \/ Backward
  \/ NextVar \/ asymmVar \/ eliminateVar \/ AddResolvent \/ Done

Spec == Init /\ [][Next]_vars /\ WF_vars(Next)

(* extendModel: from the last stored clause to the first, one whose other  *)
(* literals are false has its first literal set.                           *)
Set(s, b) == IF (s.clause \ {s.lit}) \cap b /= {} THEN b ELSE (b \ {-s.lit}) \cup {s.lit}

Extended(s, a) ==
  LET m[k \in 0 .. Len(s)] == IF k = 0 THEN a ELSE Set(s[(Len(s) - k) + 1], m[k - 1])
  IN m[Len(s)]

extendModel(a) == Extended(elimclauses, a)

-----------------------------------------------------------------------------
(***************************************************************************)
(* What PDR relies on when it asks a frame's solver: with the formula      *)
(* satisfiable, the simplified clauses, removed ones among them or not,    *)
(* allow exactly the values of the frozen variables that                   *)
(* [constraints /\ -bad /\ T] allows.  A contradiction is never invented.  *)
(***************************************************************************)
TranslationExact ==
  pc = "done" /\ Satisfiable(Formula) => ok /\ SameOn(enc.frozen, Formula, Translation)

(* A model of the clauses that are left is extended to a model of all.     *)
ModelExtended ==
  pc = "done" /\ ok =>
    \A a \in Models(clauses \cup {{l} : l \in trail}) : Satisfies(extendModel(a), Formula)

(* simplify returns: the loop over touched clauses, new units and the heap *)
(* comes to an end, although each of them puts work back for the others.   *)
SimplifyReturns == pc = "add" ~> pc = "done"

=============================================================================
