----------------------------- MODULE PartsProofs -----------------------------
(***************************************************************************)
(* The parts a PDR engine is built on, for every formula, number of        *)
(* variables, threads and frames: MiniSat's preprocessing of the           *)
(* translation keeps its meaning on the frozen variables, its extendModel  *)
(* completes a model, and the race on state_count loses no obligation.     *)
(* The inductive invariant of the preprocessing says what happens to the   *)
(* models: none of the formula's is lost (Sound), and each one of what is  *)
(* left, the clauses still to be added among it, extends to one of the     *)
(* formula (Complete).                                                     *)
(***************************************************************************)
EXTENDS MCParts, Induction, FiniteSetTheorems, FunctionTheorems, SequenceTheorems

LEMMA Literals ==
  /\ \A l \in Lit : -l \in Lit /\ -l # l /\ -(-l) = l /\ VarOf(l) \in Var /\ VarOf(-l) = VarOf(l)
  /\ \A l \in Lit : l = VarOf(l) \/ l = -VarOf(l)
  /\ \A k, l \in Lit : VarOf(k) = VarOf(l) => k = l \/ k = -l
  /\ \A v \in Var : v \in Lit /\ -v \in Lit /\ VarOf(v) = v /\ VarOf(-v) = v
BY NAssumption DEF Lit, Var, VarOf

LEMMA LitFinite == IsFiniteSet(Lit) /\ \A c \in SUBSET Lit : IsFiniteSet(c)
<1>1. N \in Nat /\ -N \in Int
  BY NAssumption
<1>2. IsFiniteSet(-N .. N)
  BY <1>1, FS_Interval
<1>3. Lit \in SUBSET (-N .. N)
  BY DEF Lit
<1>4. IsFiniteSet(Lit)
  BY <1>2, <1>3, FS_Subset
<1> QED
  BY <1>4, FS_Subset

(* A total assignment has exactly one of a literal and its negation. *)
LEMMA TotalIs ==
  ASSUME NEW a
  PROVE  a \in Total <=> a \in SUBSET Lit /\ \A l \in Lit : l \in a <=> -l \notin a
<1>1. ASSUME a \in Total PROVE a \in SUBSET Lit /\ \A l \in Lit : l \in a <=> -l \notin a
  <2>1. PICK b \in [Var -> BOOLEAN] : a = {IF b[v] THEN v ELSE -v : v \in Var}
    BY <1>1 DEF Total
  <2>2. \A v \in Var : (v \in a <=> b[v]) /\ (-v \in a <=> ~b[v])
    <3> SUFFICES ASSUME NEW v \in Var PROVE (v \in a <=> b[v]) /\ (-v \in a <=> ~b[v])
      OBVIOUS
    <3>1. \A w \in Var : (IF b[w] THEN w ELSE -w) = v => w = v
      BY NAssumption DEF Var
    <3>2. \A w \in Var : (IF b[w] THEN w ELSE -w) = -v => w = v
      BY NAssumption DEF Var
    <3>3. v # -v
      BY NAssumption DEF Var
    <3> QED
      BY <2>1, <3>1, <3>2, <3>3
  <2>3. a \in SUBSET Lit
    BY <2>1, Literals
  <2>4. \A l \in Lit : \E v \in Var : (l = v /\ -l = -v) \/ (l = -v /\ -l = v)
    BY Literals
  <2> QED
    BY <2>2, <2>3, <2>4
<1>2. ASSUME a \in SUBSET Lit, \A l \in Lit : l \in a <=> -l \notin a PROVE a \in Total
  <2> DEFINE b == [v \in Var |-> v \in a]
  <2>1. b \in [Var -> BOOLEAN]
    OBVIOUS
  <2>2. \A v \in Var : (IF b[v] THEN v ELSE -v) \in a
    BY <1>2, Literals
  <2>3. \A l \in a : \E v \in Var : l = IF b[v] THEN v ELSE -v
    <3> SUFFICES ASSUME NEW l \in a PROVE \E v \in Var : l = IF b[v] THEN v ELSE -v
      OBVIOUS
    <3>1. l \in Lit /\ VarOf(l) \in Var /\ (l = VarOf(l) \/ l = -VarOf(l))
      BY <1>2, Literals
    <3>2. l = -VarOf(l) => -l = VarOf(l)
      BY <3>1, Literals
    <3> QED
      BY <1>2, <3>1, <3>2
  <2>4. a = {IF b[v] THEN v ELSE -v : v \in Var}
    BY <2>2, <2>3
  <2> QED
    BY <2>1, <2>4 DEF Total
<1> QED
  BY <1>1, <1>2
LEMMA TotalHas == \A a \in Total : a \in SUBSET Lit /\ \A l \in Lit : l \in a <=> -l \notin a
BY TotalIs

LEMMA TotalIf == \A a \in SUBSET Lit : (\A l \in Lit : l \in a <=> -l \notin a) => a \in Total
BY TotalIs

(* A total assignment satisfies a tautology. *)
LEMMA TautologyHolds ==
  ASSUME NEW a \in Total, NEW c \in SUBSET Lit, Tautology(c) PROVE a \cap c # {}
BY TotalHas DEF Tautology

LEMMA NegatedType == \A c \in SUBSET Lit : Negated(c) \in SUBSET Lit /\ \A l \in Lit : l \in Negated(c) <=> -l \in c
<1> SUFFICES ASSUME NEW c \in SUBSET Lit
             PROVE  Negated(c) \in SUBSET Lit /\ \A l \in Lit : l \in Negated(c) <=> -l \in c
  OBVIOUS
<1>1. Negated(c) \in SUBSET Lit
  BY Literals DEF Negated
<1>2. ASSUME NEW l \in Lit, l \in Negated(c) PROVE -l \in c
  BY <1>2, Literals DEF Negated
<1>3. ASSUME NEW l \in Lit, -l \in c PROVE l \in Negated(c)
  <2>1. l = -(-l)
    BY Literals
  <2> QED
    BY <1>3, <2>1 DEF Negated
<1> QED
  BY <1>1, <1>2, <1>3

-----------------------------------------------------------------------------
(* What unit propagation assigns, at any point, every model has that has   *)
(* what it started from.                                                   *)
Consequence(F, a) ==
  {b \in SUBSET Lit : a \subseteq b /\ \A m \in Total : Satisfies(m, F) /\ a \subseteq m => b \subseteq m}

LEMMA StepSound ==
  ASSUME NEW F \in SUBSET SUBSET Lit, NEW a \in SUBSET Lit, NEW R \in SUBSET Consequence(F, a)
  PROVE  Step(F, R) \in SUBSET Consequence(F, a)
<1> SUFFICES ASSUME NEW b \in R, NEW l \in UnitsOver(F, b) PROVE b \cup {l} \in Consequence(F, a)
  BY DEF Step
<1>1. PICK c \in F : l \in c /\ c \ {l} \subseteq Negated(b)
  BY DEF UnitsOver
<1>2. l \in Lit /\ b \in SUBSET Lit /\ c \in SUBSET Lit
  BY DEF UnitsOver, Consequence
<1> SUFFICES ASSUME NEW m \in Total, Satisfies(m, F), a \subseteq m PROVE l \in m
  BY <1>2 DEF Consequence
<1>3. b \subseteq m
  BY DEF Consequence
<1>4. PICK k \in m : k \in c
  BY DEF Satisfies
<1>5. k # l => -k \in b
  BY <1>1, <1>2, <1>4, NegatedType
<1> QED
  BY <1>2, <1>3, <1>4, <1>5, TotalHas

LEMMA PropagationsSound ==
  ASSUME NEW F \in SUBSET SUBSET Lit, NEW a \in SUBSET Lit
  PROVE  Propagations(F, a) \in SUBSET Consequence(F, a)
<1> DEFINE V == SUBSET Consequence(F, a)
<1> DEFINE s == [p \in (1 .. N) \X V |-> Step(F, p[2])]
<1>1. {a} \in V
  BY DEF Consequence
<1>2. s \in [(1 .. N) \X V -> V]
  BY StepSound
<1>3. \A k \in 1 .. N, R \in V : s[<<k, R>>] = Step(F, R)
  OBVIOUS
<1>4. N \in Nat /\ N \in 0 .. N
  BY NAssumption
<1>n. \A k \in 0 .. N : k # 0 => k - 1 \in 0 .. N /\ k \in 1 .. N
  BY <1>4
<1> HIDE DEF s, V
<1>5. PICK f : Recursive(N, V, {a}, s, f)
  BY <1>1, <1>2, <1>4, Recursion
<1>6. f = [k \in 0 .. N |-> IF k = 0 THEN {a} ELSE Step(F, f[k - 1])]
  BY <1>3, <1>5, <1>n DEF Recursive
<1> DEFINE Eq(g) == g = [k \in 0 .. N |-> IF k = 0 THEN {a} ELSE Step(F, g[k - 1])]
<1> DEFINE g == CHOOSE g : Eq(g)
<1>7. Propagations(F, a) = g[N]
  BY DEF Propagations
<1>8. Eq(g)
  BY <1>6
<1> HIDE DEF g
<1>9. /\ g[0] = {a}
      /\ \A k \in Nat : k + 1 \in 0 .. N => k \in 0 .. N /\ g[k + 1] = Step(F, g[k])
  <2>1. g[0] = {a}
    BY <1>4, <1>8
  <2>2. ASSUME NEW k \in Nat, k + 1 \in 0 .. N PROVE k \in 0 .. N /\ g[k + 1] = Step(F, g[k])
    <3>1. k \in 0 .. N /\ k + 1 # 0 /\ (k + 1) - 1 = k
      BY <1>4, <2>2
    <3> QED
      BY <1>8, <2>2, <3>1
  <2> QED
    BY <2>1, <2>2
<1> DEFINE T == {k \in Nat : k \in 0 .. N => g[k] \in V}
<1>10. 0 \in T
  BY <1>1, <1>9
<1>11. ASSUME NEW k \in Nat, k \in T PROVE k + 1 \in T
  BY <1>9, <1>11, StepSound DEF V
<1> HIDE DEF T
<1>12. \A k \in Nat : k \in T
  BY <1>10, <1>11, SetInduction
<1> QED
  BY <1>4, <1>7, <1>12 DEF T, V

(* enqueue: the literal is true, or there is a conflict.  Nothing is       *)
(* assigned, and no conflict found, that the clauses do not imply.         *)
LEMMA EnqueueSound ==
  ASSUME NEW F \in SUBSET SUBSET Lit, NEW l \in Lit, trail \in SUBSET Lit, Enqueue(F, l),
         ok \in BOOLEAN
  PROVE  /\ trail' \in SUBSET Lit /\ trail \subseteq trail' /\ ok' \in BOOLEAN
         /\ ok' => ok /\ l \in trail'
         /\ \A m \in Total : Satisfies(m, F) /\ trail \subseteq m /\ l \in m =>
              trail' \subseteq m /\ (ok => ok')
<1>1. CASE -l \in trail /\ ok' = FALSE /\ UNCHANGED trail
  BY <1>1, TotalHas
<1>2. CASE l \in trail /\ UNCHANGED <<ok, trail>>
  BY <1>2
<1>3. CASE /\ {l, -l} \cap trail = {}
           /\ \E a \in Propagations(F, trail \cup {l}) :
                /\ trail' = a
                /\ \/ UNCHANGED ok
                   \/ (\E c \in F : c \subseteq Negated(a)) /\ ok' = FALSE
  <2> DEFINE t == trail \cup {l}
  <2>1. t \in SUBSET Lit
    OBVIOUS
  <2>2. trail' \in Consequence(F, t)
    BY <1>3, <2>1, PropagationsSound
  <2>3. /\ trail' \in SUBSET Lit /\ trail \subseteq trail' /\ l \in trail'
        /\ \A m \in Total : Satisfies(m, F) /\ trail \subseteq m /\ l \in m => trail' \subseteq m
    BY <2>2 DEF Consequence
  <2>4. CASE UNCHANGED ok
    BY <2>3, <2>4
  <2>5. CASE (\E c \in F : c \subseteq Negated(trail')) /\ ok' = FALSE
    <3>1. PICK c \in F : c \subseteq Negated(trail')
      BY <2>5
    <3>2. c \in SUBSET Lit /\ \A k \in c : -k \in trail'
      BY <2>3, <3>1, NegatedType
    <3>3. ASSUME NEW m \in Total, Satisfies(m, F), trail' \subseteq m PROVE FALSE
      <4>1. PICK k \in c : k \in m
        BY <3>3 DEF Satisfies
      <4> QED
        BY <3>2, <3>3, <4>1, TotalHas
    <3> QED
      BY <2>3, <2>5, <3>3
  <2> QED
    BY <1>3, <2>4, <2>5
<1> QED
  BY <1>1, <1>2, <1>3 DEF Enqueue
-----------------------------------------------------------------------------
(* What holds of the clauses and the trail alone.                          *)
DatabaseOK ==
  /\ clauses \in SUBSET SUBSET Lit /\ removed \in SUBSET SUBSET Lit
  /\ trail \in SUBSET Lit /\ ok \in BOOLEAN
  /\ \A c \in clauses : ~Tautology(c)

Fits(m) == Satisfies(m, clauses) /\ trail \subseteq m

(* A step that loses no model and gains none: the models of the clauses    *)
(* and of the trail that satisfy c are those of the new ones.              *)
Keeps(c) ==
  /\ DatabaseOK' /\ (ok' => ok) /\ trail \subseteq trail'
  /\ \A m \in Total : ok /\ Fits(m) /\ m \cap c # {} /\ Satisfies(m, removed) =>
       ok' /\ Fits(m)' /\ Satisfies(m, removed)'
  /\ ok' => \A m \in Total : Fits(m)' => Fits(m) /\ m \cap c # {}

LEMMA AddClauseKeeps ==
  ASSUME DatabaseOK, NEW c \in SUBSET Lit, addClause_(c), UNCHANGED removed
  PROVE  Keeps(c) /\ clauses \subseteq clauses'
<1> DEFINE ps == c \ False
<1>1. CASE /\ ~ok \/ Tautology(c) \/ c \cap trail /= {}
           /\ UNCHANGED <<clauses, trail, ok, touched, queue>>
  <2>1. DatabaseOK' /\ (ok' => ok) /\ trail \subseteq trail' /\ clauses \subseteq clauses'
    BY <1>1 DEF DatabaseOK
  <2>2. \A m \in Total : (Fits(m)' <=> Fits(m)) /\ (Satisfies(m, removed)' <=> Satisfies(m, removed))
    BY <1>1 DEF Fits, Satisfies
  <2>3. \A m \in Total : ok /\ Fits(m) => m \cap c # {}
    BY <1>1, TautologyHolds DEF Fits
  <2> QED
    BY <1>1, <2>1, <2>2, <2>3 DEF Keeps
<1>2. CASE ok /\ ~Tautology(c) /\ c \cap trail = {}
  <2>1. ps \in SUBSET Lit /\ ~Tautology(ps)
    BY <1>2 DEF Tautology
  <2>2. \A l \in c : l \notin ps => -l \in trail
    BY NegatedType DEF False, DatabaseOK
  <2>3. \A m \in Total : Fits(m) => (m \cap c # {} <=> m \cap ps # {})
    BY <2>2, TotalHas DEF Fits
  <2> HIDE DEF ps
  <2>4. CASE ps = {} /\ ok' = FALSE /\ UNCHANGED <<clauses, trail, touched, queue>>
    <3>1. DatabaseOK' /\ (ok' => ok) /\ trail \subseteq trail' /\ clauses \subseteq clauses'
      BY <2>4 DEF DatabaseOK
    <3> QED
      BY <2>3, <2>4, <3>1 DEF Keeps
  <2>5. CASE /\ Cardinality(ps) = 1 /\ \E l \in ps : Enqueue(clauses, l)
             /\ UNCHANGED <<clauses, touched, queue>>
    <3>1. PICK l \in ps : Enqueue(clauses, l)
      BY <2>5
    <3>2. ps = {l}
      <4>1. IsFiniteSet(ps)
        BY <2>1, LitFinite
      <4> QED
        BY <2>5, <3>1, <4>1, FS_Singleton
    <3>3. /\ trail' \in SUBSET Lit /\ trail \subseteq trail' /\ ok' \in BOOLEAN
          /\ ok' => ok /\ l \in trail'
          /\ \A m \in Total : Satisfies(m, clauses) /\ trail \subseteq m /\ l \in m =>
               trail' \subseteq m /\ (ok => ok')
      BY <2>1, <3>1, EnqueueSound DEF DatabaseOK
    <3>4. DatabaseOK' /\ (ok' => ok) /\ trail \subseteq trail' /\ clauses \subseteq clauses'
      BY <2>5, <3>3 DEF DatabaseOK
    <3>5. \A m \in Total : /\ Fits(m)' <=> Satisfies(m, clauses) /\ trail' \subseteq m
                           /\ Satisfies(m, removed)' <=> Satisfies(m, removed)
      BY <2>5 DEF Fits, Satisfies
    <3>6. ASSUME NEW m \in Total, ok, Fits(m), m \cap c # {}, Satisfies(m, removed)
          PROVE  ok' /\ Fits(m)' /\ Satisfies(m, removed)'
      BY <2>3, <3>2, <3>3, <3>5, <3>6 DEF Fits
    <3>7. ASSUME ok', NEW m \in Total, Fits(m)' PROVE Fits(m) /\ m \cap c # {}
      <4>1. Fits(m) /\ l \in m
        BY <3>3, <3>5, <3>7 DEF Fits
      <4> QED
        BY <2>3, <3>2, <4>1
    <3> QED
      BY <3>4, <3>6, <3>7 DEF Keeps
  <2>6. CASE /\ clauses' = clauses \cup {ps} /\ queue' = queue \cup {ps}
             /\ UNCHANGED <<trail, ok>>
    <3>1. DatabaseOK' /\ (ok' => ok) /\ trail \subseteq trail' /\ clauses \subseteq clauses'
      BY <2>1, <2>6 DEF DatabaseOK
    <3>2. \A m \in Total : /\ Fits(m)' <=> Fits(m) /\ m \cap ps # {}
                           /\ Satisfies(m, removed)' <=> Satisfies(m, removed)
      BY <2>6 DEF Fits, Satisfies
    <3> QED
      BY <2>3, <2>6, <3>1, <3>2 DEF Keeps
  <2> QED
    BY <1>2, <2>4, <2>5, <2>6 DEF addClause_, ps
<1> QED
  BY <1>1, <1>2 DEF addClause_

LEMMA OtherLiteral ==
  ASSUME NEW d \in SUBSET Lit, NEW l \in d, Cardinality(d) = 2, NEW k \in d \ {l}
  PROVE  d \ {l} = {k}
<1>1. IsFiniteSet(d)
  BY LitFinite
<1>2. IsFiniteSet(d \ {l}) /\ Cardinality(d \ {l}) = 1
  BY <1>1, FS_RemoveElement
<1> QED
  BY <1>2, FS_Singleton

(* strengthenClause with a literal the clause can do without. *)
LEMMA StrengthenKeeps ==
  ASSUME DatabaseOK, NEW d \in clauses, NEW l \in d, strengthenClause(d, l),
         \A m \in Total : Fits(m) => m \cap (d \ {l}) # {}
  PROVE  Keeps(d) /\ clauses \ {d} \subseteq clauses'
<1> DEFINE e == d \ {l}
<1>1. d \in SUBSET Lit /\ e \in SUBSET Lit /\ ~Tautology(e) /\ clauses \ {d} \in SUBSET SUBSET Lit
  BY DEF DatabaseOK, Tautology
<1>2. \A m \in Total : Satisfies(m, clauses) => m \cap d # {} /\ Satisfies(m, clauses \ {d})
  BY DEF Satisfies
<1>3. \A m \in Total : Fits(m) => m \cap e # {}
  OBVIOUS
<1>4. \A m \in Total : m \cap e # {} => m \cap d # {}
  OBVIOUS
<1>5. \A m \in Total : Satisfies(m, clauses \ {d}) /\ m \cap d # {} => Satisfies(m, clauses)
  BY DEF Satisfies
<1>6. CASE Cardinality(d) = 2
  <2>1. PICK k \in e : Enqueue(clauses \ {d}, k)
    BY <1>6 DEF strengthenClause
  <2>2. clauses' = clauses \ {d} /\ removed' = removed \cup {e}
    BY <1>6 DEF strengthenClause
  <2>3. e = {k} /\ k \in Lit
    BY <1>1, <1>6, <2>1, OtherLiteral
  <2> HIDE DEF e
  <2>4. /\ trail' \in SUBSET Lit /\ trail \subseteq trail' /\ ok' \in BOOLEAN
        /\ ok' => ok /\ k \in trail'
        /\ \A m \in Total : Satisfies(m, clauses \ {d}) /\ trail \subseteq m /\ k \in m =>
             trail' \subseteq m /\ (ok => ok')
    BY <1>1, <2>1, <2>3, EnqueueSound DEF DatabaseOK
  <2>5. DatabaseOK' /\ (ok' => ok) /\ trail \subseteq trail' /\ clauses \ {d} \subseteq clauses'
    BY <1>1, <2>2, <2>4 DEF DatabaseOK
  <2>6. \A m \in Total : /\ Fits(m)' <=> Satisfies(m, clauses \ {d}) /\ trail' \subseteq m
                         /\ Satisfies(m, removed)' <=> Satisfies(m, removed) /\ m \cap e # {}
    BY <2>2 DEF Fits, Satisfies
  <2>7. ASSUME NEW m \in Total, ok, Fits(m), m \cap d # {}, Satisfies(m, removed)
        PROVE  ok' /\ Fits(m)' /\ Satisfies(m, removed)'
    <3>1. k \in m /\ Satisfies(m, clauses \ {d}) /\ trail \subseteq m
      BY <1>2, <1>3, <2>3, <2>7 DEF Fits
    <3> QED
      BY <1>3, <2>4, <2>6, <2>7, <3>1
  <2>8. ASSUME ok', NEW m \in Total, Fits(m)' PROVE Fits(m) /\ m \cap d # {}
    <3>1. k \in m /\ Satisfies(m, clauses \ {d}) /\ trail \subseteq m
      BY <2>4, <2>6, <2>8
    <3> QED
      BY <1>4, <1>5, <2>3, <3>1 DEF Fits
  <2> QED
    BY <2>5, <2>7, <2>8 DEF Keeps
<1>7. CASE Cardinality(d) # 2
  <2>1. clauses' = (clauses \ {d}) \cup {e} /\ UNCHANGED <<removed, trail, ok>>
    BY <1>7 DEF strengthenClause
  <2> HIDE DEF e
  <2>2. DatabaseOK' /\ (ok' => ok) /\ trail \subseteq trail' /\ clauses \ {d} \subseteq clauses'
    BY <1>1, <2>1 DEF DatabaseOK
  <2>3. \A m \in Total : /\ Fits(m)' <=> Satisfies(m, clauses \ {d}) /\ m \cap e # {} /\ trail \subseteq m
                         /\ Satisfies(m, removed)' <=> Satisfies(m, removed)
    BY <2>1 DEF Fits, Satisfies
  <2>4. \A m \in Total : Fits(m)' <=> Fits(m)
    BY <1>2, <1>3, <1>4, <1>5, <2>3 DEF Fits
  <2> QED
    BY <1>2, <2>1, <2>2, <2>3, <2>4 DEF Keeps, Fits
<1> QED
  BY <1>6, <1>7
-----------------------------------------------------------------------------
Record == [lit : Lit, clause : SUBSET Lit]

Typed ==
  /\ enc \in Encodings /\ todo \in Seq(SUBSET Lit) /\ DatabaseOK
  /\ eliminated \in SUBSET Var /\ eliminated \cap enc.frozen = {}
  /\ elimclauses \in Seq(Record)

(* Where the procedure is: everything is added before it simplifies; the   *)
(* clause that backwardSubsumptionCheck works with is still there while it *)
(* has candidates, and is none of them.                                    *)
Control ==
  /\ pc \in {"add", "loop", "backward", "heap", "asymm", "try", "resolvents", "done"}
  /\ ret \in {"none", "heap", "try"} /\ (pc = "backward" => ret # "none")
  /\ pc # "add" => todo = <<>>
  /\ pc \notin {"backward", "done"} => candidates = {}
  /\ pc = "backward" /\ candidates # {} =>
       current \in clauses \ candidates \/ \E l \in trail : current = {l}
  /\ pc = "resolvents" =>
       elim \in Var /\ \A x \in pending : x[1] \in SUBSET Lit /\ x[2] \in SUBSET Lit

(* The clauses that are left, those still to be added among them. *)
Waiting(m) ==
  /\ \A c \in Range(todo) : m \cap c # {}
  /\ pc = "resolvents" => \A x \in pending : m \cap Resolvent(x[1], x[2], elim) # {}

Left(m) == Fits(m) /\ Waiting(m)

(* No model is lost: a contradiction is never invented. *)
Sound == \A m \in Models(Formula) : ok /\ Left(m) /\ Satisfies(m, removed)

(* No model is gained: one of what is left extends to one of the formula,  *)
(* and only the eliminated variables change.                               *)
Agree(m, b) == \A l \in Lit : VarOf(l) \notin eliminated => (l \in m <=> l \in b)

Complete ==
  /\ \A m \in Total : extendModel(m) \in Total /\ Agree(m, extendModel(m))
  /\ ok => \A m \in Total : Left(m) => Satisfies(extendModel(m), Formula)

SimpInv == Typed /\ Control /\ Sound /\ Complete

(* A step that changes the clauses and nothing about eliminated variables. *)
LEMMA StepKeeps ==
  ASSUME Sound, Complete, ok' => ok, UNCHANGED <<enc, gone>>,
         \A m \in Total : ok /\ Left(m) /\ Satisfies(m, removed) => ok' /\ Left(m)' /\ Satisfies(m, removed)',
         ok' => \A m \in Total : Left(m)' => Left(m)
  PROVE  Sound' /\ Complete'
<1>1. Formula' = Formula
  BY DEF Formula
<1>2. \A m : Satisfies(m, Formula)' <=> Satisfies(m, Formula)
  BY <1>1 DEF Satisfies
<1>3. Models(Formula)' = Models(Formula) /\ Models(Formula) \in SUBSET Total
  BY <1>2 DEF Models
<1>4. Sound'
  BY <1>3 DEF Sound
<1>5. \A m : extendModel(m)' = extendModel(m)
  BY DEF extendModel, gone
<1>6. \A m \in Total : Agree(m, extendModel(m))' <=> Agree(m, extendModel(m))
  BY <1>5 DEF Agree, gone
<1>7. \A m \in Total : Satisfies(extendModel(m), Formula)' <=> Satisfies(extendModel(m), Formula)
  BY <1>1, <1>5 DEF Satisfies
<1>8. Complete'
  BY <1>5, <1>6, <1>7 DEF Complete
<1> QED
  BY <1>4, <1>8

LEMMA StepSame ==
  ASSUME Typed, Sound, Complete, UNCHANGED <<enc, todo, gone, clauses, trail, ok>>,
         removed' \in {removed, {}}, pc # "resolvents", pc' # "resolvents"
  PROVE  Typed' /\ Sound' /\ Complete'
<1>1. Typed'
  BY DEF Typed, DatabaseOK, gone
<1>2. \A m \in Total : Satisfies(m, removed) => Satisfies(m, removed)'
  BY DEF Satisfies
<1>3. \A m \in Total : Left(m)' <=> Left(m)
  BY DEF Left, Fits, Waiting, Satisfies
<1> QED
  BY <1>1, <1>2, <1>3, StepKeeps
LEMMA RangeTail ==
  ASSUME NEW S, NEW s \in Seq(S), s # <<>>
  PROVE  Head(s) \in S /\ Tail(s) \in Seq(S) /\ Range(s) = {Head(s)} \cup Range(Tail(s))
<1>1. Head(s) \in S /\ Tail(s) \in Seq(S) /\ Head(s) = s[1] /\ Len(s) \in Nat /\ Len(s) > 0
  OBVIOUS
<1>2. DOMAIN s = 1 .. Len(s) /\ DOMAIN Tail(s) = 1 .. Len(s) - 1
  OBVIOUS
<1>3. \A i \in 1 .. Len(s) - 1 : Tail(s)[i] = s[i + 1]
  OBVIOUS
<1> DEFINE n == Len(s)
<1> DEFINE t == Tail(s)
<1>4. n \in Nat /\ n > 0 /\ DOMAIN s = 1 .. n /\ DOMAIN t = 1 .. n - 1
      /\ (\A i \in 1 .. n - 1 : t[i] = s[i + 1]) /\ Head(s) = s[1]
  BY <1>1, <1>2, <1>3
<1> HIDE DEF n, t
<1>5. ASSUME NEW i \in 1 .. n PROVE i = 1 \/ (i - 1 \in 1 .. n - 1 /\ t[i - 1] = s[i])
  BY <1>4
<1>6. ASSUME NEW i \in 1 .. n - 1 PROVE i + 1 \in 1 .. n /\ t[i] = s[i + 1]
  BY <1>4
<1>7. 1 \in 1 .. n
  BY <1>4
<1>8. {s[i] : i \in 1 .. n} = {s[1]} \cup {t[i] : i \in 1 .. n - 1}
  BY <1>5, <1>6, <1>7
<1>9. Range(s) = {Head(s)} \cup Range(t)
  BY <1>4, <1>8 DEF Range
<1> QED
  BY <1>1, <1>9 DEF t

LEMMA AddClauseInv == ASSUME SimpInv, AddClause PROVE SimpInv'
<1>1. todo \in Seq(SUBSET Lit) /\ todo # <<>> /\ DatabaseOK
  BY DEF SimpInv, Typed, AddClause
<1> DEFINE c == Head(todo)
<1>2. c \in SUBSET Lit /\ todo' \in Seq(SUBSET Lit) /\ Range(todo) = {c} \cup Range(todo')
  BY <1>1, RangeTail DEF AddClause
<1>3. addClause_(c) /\ removed' = removed
  BY DEF AddClause
<1> HIDE DEF c
<1>4. Keeps(c)
  BY <1>1, <1>2, <1>3, AddClauseKeeps
<1>5. UNCHANGED <<enc, gone, elim, current, candidates, pending, pc, ret>> /\ pc = "add"
  BY DEF AddClause
<1>6. \A m \in Total : /\ Left(m) <=> Fits(m) /\ m \cap c # {} /\ \A d \in Range(todo') : m \cap d # {}
                       /\ Left(m)' <=> Fits(m)' /\ \A d \in Range(todo') : m \cap d # {}
  BY <1>2, <1>5 DEF Left, Waiting
<1>7. \A m \in Total : ok /\ Left(m) /\ Satisfies(m, removed) => ok' /\ Left(m)' /\ Satisfies(m, removed)'
  BY <1>4, <1>6 DEF Keeps
<1>8. ok' => \A m \in Total : Left(m)' => Left(m)
  BY <1>4, <1>6 DEF Keeps
<1>9. Sound' /\ Complete'
  BY <1>4, <1>5, <1>7, <1>8, StepKeeps DEF SimpInv, Keeps
<1>10. Typed'
  BY <1>2, <1>4, <1>5 DEF SimpInv, Typed, Keeps, gone
<1>11. Control'
  BY <1>5 DEF SimpInv, Control
<1> QED
  BY <1>9, <1>10, <1>11 DEF SimpInv

LEMMA QuietInv ==
  ASSUME SimpInv, Simplify \/ Loop \/ NextVar
  PROVE  SimpInv'
<1>1. /\ UNCHANGED <<enc, todo, gone, clauses, trail, ok, candidates, current>>
      /\ removed' \in {removed, {}} /\ pc # "resolvents" /\ pc' # "resolvents"
      /\ pc \in {"add", "loop", "heap"}
      /\ pc' \in {"loop", "done", "backward", "heap", "asymm", "try"}
      /\ pc # "add" => todo = <<>>
      /\ pc = "add" => todo = <<>>
      /\ ret' \in {ret, "heap"} /\ (pc' = "backward" => ret' = "heap")
  <2>1. CASE Simplify
    BY <2>1 DEF Simplify, database, work, SimpInv, Control
  <2>2. CASE Loop
    BY <2>2 DEF Loop, SimpInv, Control
  <2>3. CASE NextVar
    BY <2>3 DEF NextVar, SimpInv, Control
  <2> QED
    BY <2>1, <2>2, <2>3
<1>2. Typed' /\ Sound' /\ Complete'
  BY <1>1, StepSame DEF SimpInv
<1>3. Control'
  BY <1>1 DEF SimpInv, Control
<1> QED
  BY <1>2, <1>3 DEF SimpInv

LEMMA NextSubsumptionInv == ASSUME SimpInv, NextSubsumption PROVE SimpInv'
<1>1. /\ UNCHANGED <<enc, todo, gone, clauses, removed, trail, ok, elim, pending, ret>>
      /\ pc = "backward" /\ pc' \in {"backward", "heap", "try"}
      /\ pc' # "backward" => candidates' = {}
  BY DEF NextSubsumption, database, SimpInv, Control
<1>2. Typed' /\ Sound' /\ Complete'
  BY <1>1, StepSame DEF SimpInv
<1>3. candidates' # {} => current' \in clauses' \ candidates' \/ \E l \in trail' : current' = {l}
  BY <1>1 DEF NextSubsumption
<1>4. Control'
  BY <1>1, <1>3 DEF SimpInv, Control
<1> QED
  BY <1>2, <1>4 DEF SimpInv
(* A clause that c subsumes but for one literal can do without it. *)
LEMMA SubsumptionStrengthens ==
  ASSUME NEW c \in SUBSET Lit, NEW d \in SUBSET Lit, ~Tautology(c), Subsumes(c, d), NEW l \in c \ d
  PROVE  /\ -l \in d
         /\ \A m \in Total : m \cap c # {} /\ m \cap d # {} => m \cap (d \ {-l}) # {}
<1>1. IsFiniteSet(c \ d) /\ Cardinality(c \ d) \in Nat
  BY LitFinite, FS_CardinalityType
<1>2. c \ d = {l}
  <2>1. Cardinality(c \ d) <= 1
    BY DEF Subsumes
  <2>2. Cardinality(c \ d) # 0
    BY <1>1, FS_EmptySet
  <2>3. Cardinality(c \ d) = 1
    BY <1>1, <2>1, <2>2
  <2> QED
    BY <1>1, <2>3, FS_Singleton
<1>3. -l \in d
  BY DEF Subsumes, Negated
<1>4. -l \notin c
  BY Literals DEF Tautology
<1>5. ASSUME NEW m \in Total, m \cap c # {}, m \cap d # {} PROVE m \cap (d \ {-l}) # {}
  <2>1. l \in Lit /\ (l \in m <=> -l \notin m)
    BY TotalHas
  <2>2. CASE l \in m
    BY <1>5, <2>1, <2>2
  <2>3. CASE l \notin m
    BY <1>2, <1>4, <1>5, <2>3
  <2> QED
    BY <2>2, <2>3
<1> QED
  BY <1>3, <1>5

(* Backward subsumption and asymmetric branching: what is left keeps its   *)
(* models.                                                                 *)
SameModels ==
  /\ DatabaseOK' /\ (ok' => ok) /\ trail \subseteq trail'
  /\ \A m \in Total : ok /\ Fits(m) /\ Satisfies(m, removed) => ok' /\ Fits(m)' /\ Satisfies(m, removed)'
  /\ ok' => \A m \in Total : Fits(m)' => Fits(m)

LEMMA SameModelsUnchanged ==
  ASSUME DatabaseOK, UNCHANGED database
  PROVE  SameModels /\ clauses \subseteq clauses'
BY DEF database, DatabaseOK, Fits, Satisfies, SameModels

LEMMA SameModelsStrengthened ==
  ASSUME DatabaseOK, NEW d \in clauses, NEW l \in d, strengthenClause(d, l),
         \A m \in Total : Fits(m) => m \cap (d \ {l}) # {}
  PROVE  SameModels /\ clauses \ {d} \subseteq clauses'
<1>1. Keeps(d) /\ clauses \ {d} \subseteq clauses'
  BY StrengthenKeeps
<1>2. \A m \in Total : Fits(m) => m \cap d # {}
  OBVIOUS
<1> QED
  BY <1>1, <1>2 DEF Keeps, SameModels

LEMMA SameModelsSubsumed ==
  ASSUME DatabaseOK, NEW d \in clauses, NEW c \in SUBSET d,
         \A m \in Total : Satisfies(m, clauses \ {d}) /\ trail \subseteq m => m \cap c # {},
         clauses' = clauses \ {d}, removed' = removed \cup {d}, UNCHANGED <<trail, ok>>
  PROVE  SameModels /\ clauses \ {d} \subseteq clauses'
<1>1. DatabaseOK' /\ (ok' => ok) /\ trail \subseteq trail'
  BY DEF DatabaseOK
<1>2. \A m \in Total : Fits(m)' <=> Satisfies(m, clauses \ {d}) /\ trail \subseteq m
  BY DEF Fits, Satisfies
<1>3. \A m \in Total : Fits(m) <=> Satisfies(m, clauses \ {d}) /\ trail \subseteq m /\ m \cap d # {}
  BY DEF Fits, Satisfies
<1>c. \A m \in Total : m \cap c # {} => m \cap d # {}
  OBVIOUS
<1>4. \A m \in Total : Fits(m) <=> Fits(m)'
  BY <1>2, <1>3, <1>c
<1>5. \A m \in Total : Satisfies(m, removed)' <=> Satisfies(m, removed) /\ m \cap d # {}
  BY DEF Satisfies
<1> QED
  BY <1>1, <1>3, <1>4, <1>5 DEF SameModels

LEMMA SameModelsInv ==
  ASSUME SimpInv, SameModels, UNCHANGED <<enc, todo, gone>>, pc # "resolvents", pc' # "resolvents"
  PROVE  Typed' /\ Sound' /\ Complete'
<1>1. \A m \in Total : Left(m) <=> Fits(m) /\ Waiting(m)
  BY DEF Left
<1>2. \A m \in Total : Left(m)' <=> Fits(m)' /\ Waiting(m)
  BY DEF Left, Waiting
<1>3. Sound' /\ Complete'
  BY <1>1, <1>2, StepKeeps DEF SimpInv, SameModels
<1>4. Typed'
  BY DEF SimpInv, Typed, SameModels, gone
<1> QED
  BY <1>3, <1>4

LEMMA BackwardInv == ASSUME SimpInv, Backward PROVE SimpInv'
<1>0. DatabaseOK /\ pc = "backward"
  BY DEF SimpInv, Typed, Backward
<1>1. PICK d \in candidates :
        /\ candidates' = candidates \ {d}
        /\ \/ /\ d \notin clauses \/ ~Subsumes(current, d)
              /\ UNCHANGED <<database, queue, heap>>
           \/ /\ d \in clauses /\ Subsumes(current, d)
              /\ \/ /\ current \subseteq d
                    /\ clauses' = clauses \ {d} /\ removed' = removed \cup {d}
                    /\ heap' = Updated(VarsOf(d)) /\ UNCHANGED <<trail, ok, queue>>
                 \/ \E l \in current \ d : strengthenClause(d, -l)
  BY DEF Backward
<1>2. current \in clauses \ candidates \/ \E l \in trail : current = {l}
  BY <1>0, <1>1 DEF SimpInv, Control
<1>3. /\ current \in SUBSET Lit /\ ~Tautology(current)
      /\ \A m \in Total : Satisfies(m, clauses \ {d}) /\ trail \subseteq m => m \cap current # {}
  <2>1. CASE current \in clauses \ candidates
    BY <1>0, <1>1, <2>1 DEF DatabaseOK, Satisfies
  <2>2. CASE \E l \in trail : current = {l}
    BY <1>0, <2>2, Literals DEF DatabaseOK, Tautology
  <2> QED
    BY <1>2, <2>1, <2>2
<1>4. SameModels /\ clauses \ {d} \subseteq clauses'
  <2>1. CASE UNCHANGED database
    BY <1>0, <2>1, SameModelsUnchanged
  <2>2. CASE /\ d \in clauses /\ current \subseteq d
             /\ clauses' = clauses \ {d} /\ removed' = removed \cup {d} /\ UNCHANGED <<trail, ok>>
    BY <1>0, <1>3, <2>2, SameModelsSubsumed
  <2>3. CASE d \in clauses /\ Subsumes(current, d) /\ \E l \in current \ d : strengthenClause(d, -l)
    <3>1. PICK l \in current \ d : strengthenClause(d, -l)
      BY <2>3
    <3>2. d \in SUBSET Lit
      BY <1>0, <2>3 DEF DatabaseOK
    <3>3. /\ -l \in d
          /\ \A m \in Total : m \cap current # {} /\ m \cap d # {} => m \cap (d \ {-l}) # {}
      BY <1>3, <2>3, <3>2, SubsumptionStrengthens
    <3>4. \A m \in Total : Fits(m) => m \cap current # {} /\ m \cap d # {}
      BY <1>3, <2>3 DEF Fits, Satisfies
    <3>5. \A m \in Total : Fits(m) => m \cap (d \ {-l}) # {}
      BY <3>3, <3>4
    <3> QED
      BY <1>0, <2>3, <3>1, <3>3, <3>5, SameModelsStrengthened
  <2> QED
    BY <1>1, <2>1, <2>2, <2>3 DEF database
<1>5. /\ UNCHANGED <<enc, todo, gone, elim, current, pending, ret>>
      /\ pc' \in {"backward", "done"}
  BY <1>0 DEF Backward
<1>6. Typed' /\ Sound' /\ Complete'
  BY <1>0, <1>4, <1>5, SameModelsInv
<1>7. current' \in clauses' \ candidates' \/ \E l \in trail' : current' = {l}
  <2>1. trail \subseteq trail'
    BY <1>4 DEF SameModels
  <2> QED
    BY <1>1, <1>2, <1>4, <1>5, <2>1
<1>8. Control'
  BY <1>0, <1>5, <1>7 DEF SimpInv, Control
<1> QED
  BY <1>6, <1>8 DEF SimpInv

(* asymm: a conflict under the negation of the other literals.  One of     *)
(* them is true in every model, so the literal of the variable is not      *)
(* needed.                                                                 *)
LEMMA AsymmetricHolds ==
  ASSUME DatabaseOK, NEW c \in clauses, Asymmetric(c)
  PROVE  \A m \in Total : Fits(m) => \E l \in c : l \in m /\ VarOf(l) # elim /\ -l \notin trail
<1> DEFINE others == {l \in c : VarOf(l) /= elim /\ -l \notin trail}
<1> DEFINE t == trail \cup Negated(others)
<1>1. c \in SUBSET Lit /\ others \in SUBSET Lit
  BY DEF DatabaseOK
<1>2. t \in SUBSET Lit
  BY <1>1, NegatedType DEF DatabaseOK
<1>3. PICK a \in Propagations(clauses, t) : \E d \in clauses : d \subseteq Negated(a)
  BY DEF Asymmetric
<1>4. PICK d \in clauses : d \subseteq Negated(a)
  BY <1>3
<1>5. a \in Consequence(clauses, t)
  BY <1>2, <1>3, PropagationsSound DEF DatabaseOK
<1>6. a \in SUBSET Lit /\ d \in SUBSET Lit
  BY <1>4, <1>5 DEF Consequence, DatabaseOK
<1> SUFFICES ASSUME NEW m \in Total, Fits(m), m \cap others = {} PROVE FALSE
  OBVIOUS
<1>7. Negated(others) \subseteq m
  <2> SUFFICES ASSUME NEW l \in Negated(others) PROVE l \in m
    OBVIOUS
  <2>1. l \in Lit /\ -l \in others
    BY <1>1, NegatedType
  <2> QED
    BY <2>1, TotalHas
<1>8. t \subseteq m /\ Satisfies(m, clauses)
  BY <1>7 DEF Fits
<1> HIDE DEF t
<1>9. a \subseteq m
  BY <1>5, <1>8 DEF Consequence
<1>10. PICK k \in d : k \in m
  BY <1>4, <1>8 DEF Satisfies
<1>11. -k \in m /\ k \in Lit
  BY <1>4, <1>6, <1>9, <1>10, NegatedType
<1> QED
  BY <1>10, <1>11, TotalHas

LEMMA AsymmVarInv == ASSUME SimpInv, asymmVar PROVE SimpInv'
<1>0. DatabaseOK /\ pc = "asymm" /\ candidates = {}
  BY DEF SimpInv, Typed, asymmVar, Control
<1>1. SameModels
  <2>1. CASE UNCHANGED database
    BY <1>0, <2>1, SameModelsUnchanged
  <2>2. CASE \E c \in pending :
               /\ c \in clauses /\ c \cap trail = {} /\ Asymmetric(c)
               /\ \E l \in {k \in c : VarOf(k) = elim \/ -k \in trail} : strengthenClause(c, l)
    <3>1. PICK c \in clauses :
               /\ Asymmetric(c)
               /\ \E l \in {k \in c : VarOf(k) = elim \/ -k \in trail} : strengthenClause(c, l)
      BY <2>2
    <3>2. PICK l \in c : (VarOf(l) = elim \/ -l \in trail) /\ strengthenClause(c, l)
      BY <3>1
    <3>3. \A m \in Total : Fits(m) => \E k \in c : k \in m /\ VarOf(k) # elim /\ -k \notin trail
      BY <1>0, <3>1, AsymmetricHolds
    <3>4. \A m \in Total : Fits(m) => m \cap (c \ {l}) # {}
      BY <3>2, <3>3
    <3> QED
      BY <1>0, <3>2, <3>4, SameModelsStrengthened
  <2> QED
    BY <2>1, <2>2 DEF asymmVar, database
<1>2. /\ UNCHANGED <<enc, todo, gone, elim, current, candidates>>
      /\ pc' \in {"asymm", "backward", "done"}
      /\ ret' \in {ret, "try"} /\ (pc' = "backward" => ret' = "try")
  BY <1>0 DEF asymmVar
<1>3. Typed' /\ Sound' /\ Complete'
  BY <1>0, <1>1, <1>2, SameModelsInv
<1>4. Control'
  BY <1>0, <1>2 DEF SimpInv, Control
<1> QED
  BY <1>3, <1>4 DEF SimpInv

LEMMA AddResolventInv == ASSUME SimpInv, AddResolvent PROVE SimpInv'
<1>0. /\ DatabaseOK /\ pc = "resolvents" /\ candidates = {} /\ todo = <<>>
      /\ elim \in Var /\ \A x \in pending : x[1] \in SUBSET Lit /\ x[2] \in SUBSET Lit
      /\ UNCHANGED <<enc, todo, removed, gone, elim, current, candidates>>
  BY DEF SimpInv, Typed, AddResolvent, Control
<1>1. CASE pending = {} /\ pc' = "backward" /\ ret' = "heap" /\ UNCHANGED <<clauses, trail, ok, pending>>
  <2>1. SameModels
    BY <1>0, <1>1, SameModelsUnchanged DEF database
  <2>2. \A m \in Total : (Left(m) <=> Fits(m) /\ Waiting(m)) /\ (Left(m)' <=> Fits(m)' /\ Waiting(m))
    BY <1>0, <1>1 DEF Left, Waiting
  <2>3. Sound' /\ Complete'
    BY <1>0, <2>1, <2>2, StepKeeps DEF SimpInv, SameModels
  <2>4. Typed'
    BY <1>0, <2>1 DEF SimpInv, Typed, SameModels, gone
  <2>5. Control'
    BY <1>0, <1>1 DEF SimpInv, Control
  <2> QED
    BY <2>3, <2>4, <2>5 DEF SimpInv
<1>2. CASE \E x \in pending :
             /\ pending' = pending \ {x} /\ addClause_(Resolvent(x[1], x[2], elim))
             /\ pc' = IF ok' THEN pc ELSE "done"
             /\ UNCHANGED ret
  <2>1. PICK x \in pending : /\ pending' = pending \ {x} /\ addClause_(Resolvent(x[1], x[2], elim))
                             /\ pc' = (IF ok' THEN pc ELSE "done") /\ UNCHANGED ret
    BY <1>2
  <2> DEFINE c == Resolvent(x[1], x[2], elim)
  <2>2. c \in SUBSET Lit
    BY <1>0 DEF Resolvent
  <2>3. \A m : Waiting(m) => m \cap c # {}
    BY <1>0 DEF Waiting
  <2>4. \A m : ok' /\ Waiting(m)' /\ m \cap c # {} => Waiting(m)
    BY <1>0, <2>1 DEF Waiting
  <2>5. \A m : Waiting(m) => Waiting(m)'
    BY <1>0, <2>1 DEF Waiting
  <2>6. Keeps(c)
    BY <1>0, <2>1, <2>2, AddClauseKeeps
  <2> HIDE DEF c
  <2>7. \A m \in Total : ok /\ Left(m) /\ Satisfies(m, removed) => ok' /\ Left(m)' /\ Satisfies(m, removed)'
    BY <2>3, <2>5, <2>6 DEF Left, Keeps
  <2>8. ok' => \A m \in Total : Left(m)' => Left(m)
    BY <2>4, <2>6 DEF Left, Keeps
  <2>9. Sound' /\ Complete'
    BY <1>0, <2>6, <2>7, <2>8, StepKeeps DEF SimpInv, Keeps
  <2>10. Typed'
    BY <1>0, <2>6 DEF SimpInv, Typed, Keeps, gone
  <2>11. Control'
    BY <1>0, <2>1 DEF SimpInv, Control
  <2> QED
    BY <2>9, <2>10, <2>11 DEF SimpInv
<1> QED
  BY <1>1, <1>2 DEF AddResolvent
-----------------------------------------------------------------------------
(* The assignments extendModel goes through, from the last clause on. *)
Run(s, f, a) ==
  /\ f \in [0 .. Len(s) -> SUBSET Lit] /\ f[0] = a
  /\ \A k \in 1 .. Len(s) : f[k] = Set(s[(Len(s) - k) + 1], f[k - 1])

LEMMA SetType == ASSUME NEW r \in Record, NEW b \in SUBSET Lit PROVE Set(r, b) \in SUBSET Lit
BY DEF Set, Record

LEMMA ExtendedHasRun ==
  ASSUME NEW s \in Seq(Record), NEW a \in SUBSET Lit
  PROVE  \E f : Run(s, f, a) /\ Extended(s, a) = f[Len(s)]
<1> DEFINE n == Len(s)
<1> DEFINE V == SUBSET Lit
<1> DEFINE st == [p \in (1 .. n) \X V |-> Set(s[(n - p[1]) + 1], p[2])]
<1>1. n \in Nat /\ \A i \in 1 .. n : s[i] \in Record
  OBVIOUS
<1>e. Extended(s, a) = (CHOOSE m : m = [k \in 0 .. n |-> IF k = 0 THEN a ELSE Set(s[(n - k) + 1], m[k - 1])])[n]
  BY DEF Extended
<1>r. \A f : Run(s, f, a) <=> /\ f \in [0 .. n -> SUBSET Lit] /\ f[0] = a
                              /\ \A k \in 1 .. n : f[k] = Set(s[(n - k) + 1], f[k - 1])
  BY DEF Run
<1> HIDE DEF n
<1>2. \A k \in 1 .. n : (n - k) + 1 \in 1 .. n
  BY <1>1
<1>3. st \in [(1 .. n) \X V -> V]
  <2>1. \A k \in 1 .. n, b \in V : Set(s[(n - k) + 1], b) \in V
    BY <1>1, <1>2, SetType
  <2> QED
    BY <2>1
<1>4. \A k \in 1 .. n, b \in V : st[<<k, b>>] = Set(s[(n - k) + 1], b)
  OBVIOUS
<1>5. \A k \in 0 .. n : k # 0 => k - 1 \in 0 .. n /\ k \in 1 .. n
  BY <1>1
<1> HIDE DEF st, V
<1>6. PICK f : Recursive(n, V, a, st, f)
  <2>1. a \in V
    BY DEF V
  <2> QED
    BY <1>1, <1>3, <2>1, Recursion
<1> DEFINE Eq(g) == g = [k \in 0 .. n |-> IF k = 0 THEN a ELSE Set(s[(n - k) + 1], g[k - 1])]
<1>7. f \in [0 .. n -> V] /\ \A k \in 0 .. n : f[k] = IF k = 0 THEN a ELSE Set(s[(n - k) + 1], f[k - 1])
  BY <1>4, <1>5, <1>6 DEF Recursive
<1>8. Eq(f)
  BY <1>7
<1> DEFINE g == CHOOSE g : Eq(g)
<1>9. Extended(s, a) = g[n]
  BY <1>e
<1>10. Eq(g)
  BY <1>8
<1> HIDE DEF g
<1>11. g[0] = a /\ \A k \in 1 .. n : g[k] = Set(s[(n - k) + 1], g[k - 1])
  <2>1. 0 \in 0 .. n
    BY <1>1
  <2>2. \A k \in 1 .. n : k \in 0 .. n /\ k # 0
    BY <1>1
  <2> QED
    BY <1>10, <2>1, <2>2
<1> DEFINE T == {k \in Nat : k \in 0 .. n => g[k] \in SUBSET Lit}
<1>12. 0 \in T
  BY <1>11
<1>13. ASSUME NEW k \in Nat, k \in T PROVE k + 1 \in T
  <2> SUFFICES ASSUME k + 1 \in 0 .. n PROVE g[k + 1] \in SUBSET Lit
    OBVIOUS
  <2>1. k \in 0 .. n /\ k + 1 \in 1 .. n /\ (k + 1) - 1 = k
    BY <1>1
  <2>2. g[k] \in SUBSET Lit /\ g[k + 1] = Set(s[(n - (k + 1)) + 1], g[k])
    BY <1>11, <1>13, <2>1
  <2> QED
    BY <1>1, <1>2, <2>1, <2>2, SetType
<1> HIDE DEF T
<1>14. \A k \in Nat : k \in T
  BY <1>12, <1>13, SetInduction
<1>15. \A k \in 0 .. n : g[k] \in SUBSET Lit
  BY <1>14 DEF T
<1>16. g \in [0 .. n -> SUBSET Lit]
  BY <1>10, <1>15
<1>17. Run(s, g, a)
  BY <1>r, <1>11, <1>16
<1> QED
  BY <1>9, <1>17 DEF n

LEMMA RunUnique ==
  ASSUME NEW s \in Seq(Record), NEW a, NEW f, NEW g, Run(s, f, a), Run(s, g, a)
  PROVE  f[Len(s)] = g[Len(s)]
<1> DEFINE n == Len(s)
<1>1. n \in Nat
  OBVIOUS
<1>2. /\ f[0] = a /\ g[0] = a
      /\ \A k \in 1 .. n : f[k] = Set(s[(n - k) + 1], f[k - 1]) /\ g[k] = Set(s[(n - k) + 1], g[k - 1])
  BY DEF Run
<1> HIDE DEF n
<1> DEFINE T == {k \in Nat : k \in 0 .. n => f[k] = g[k]}
<1>3. 0 \in T
  BY <1>2
<1>4. ASSUME NEW k \in Nat, k \in T PROVE k + 1 \in T
  <2> SUFFICES ASSUME k + 1 \in 0 .. n PROVE f[k + 1] = g[k + 1]
    OBVIOUS
  <2>1. k \in 0 .. n /\ k + 1 \in 1 .. n /\ (k + 1) - 1 = k
    BY <1>1
  <2> QED
    BY <1>2, <1>4, <2>1
<1> HIDE DEF T
<1>5. \A k \in Nat : k \in T
  BY <1>3, <1>4, SetInduction
<1>6. n \in 0 .. n
  BY <1>1
<1>7. f[n] = g[n]
  BY <1>1, <1>5, <1>6 DEF T
<1> QED
  BY <1>7 DEF n

LEMMA ExtendedByRun ==
  ASSUME NEW s \in Seq(Record), NEW a \in SUBSET Lit, NEW f, Run(s, f, a)
  PROVE  Extended(s, a) = f[Len(s)]
BY ExtendedHasRun, RunUnique

LEMMA ExtendedType ==
  ASSUME NEW s \in Seq(Record), NEW a \in SUBSET Lit PROVE Extended(s, a) \in SUBSET Lit
<1>1. PICK f : Run(s, f, a) /\ Extended(s, a) = f[Len(s)]
  BY ExtendedHasRun
<1>2. Len(s) \in 0 .. Len(s)
  OBVIOUS
<1> QED
  BY <1>1, <1>2 DEF Run

(* What was stored later is applied first. *)
LEMMA ExtendedConcat ==
  ASSUME NEW s \in Seq(Record), NEW t \in Seq(Record), NEW a \in SUBSET Lit
  PROVE  Extended(s \o t, a) = Extended(s, Extended(t, a))
<1> DEFINE p == Len(s)
<1> DEFINE q == Len(t)
<1> DEFINE u == s \o t
<1>1. p \in Nat /\ q \in Nat /\ u \in Seq(Record) /\ Len(u) = p + q
  OBVIOUS
<1>2. /\ \A i \in 1 .. p : u[i] = s[i]
      /\ \A i \in 1 .. q : u[p + i] = t[i]
  OBVIOUS
<1> HIDE DEF u
<1>3. PICK f : Run(u, f, a) /\ Extended(u, a) = f[Len(u)]
  BY <1>1, ExtendedHasRun
<1>4. /\ f \in [0 .. p + q -> SUBSET Lit] /\ f[0] = a
      /\ \A k \in 1 .. p + q : f[k] = Set(u[((p + q) - k) + 1], f[k - 1])
  BY <1>1, <1>3 DEF Run
<1> DEFINE g == [k \in 0 .. q |-> f[k]]
<1> DEFINE h == [k \in 0 .. p |-> f[q + k]]
<1>5. /\ g \in [0 .. q -> SUBSET Lit] /\ g[0] = a
      /\ \A k \in 1 .. q : g[k] = Set(t[(q - k) + 1], g[k - 1])
  <2> HIDE DEF p, q
  <2>1. g \in [0 .. q -> SUBSET Lit] /\ g[0] = a
    BY <1>1, <1>4
  <2>2. ASSUME NEW k \in 1 .. q PROVE g[k] = Set(t[(q - k) + 1], g[k - 1])
    <3>1. /\ k \in 1 .. p + q /\ k \in 0 .. q /\ k - 1 \in 0 .. q /\ (q - k) + 1 \in 1 .. q
          /\ ((p + q) - k) + 1 = p + ((q - k) + 1)
      BY <1>1
    <3> QED
      BY <1>2, <1>4, <3>1
  <2> QED
    BY <2>1, <2>2
<1>6. /\ h \in [0 .. p -> SUBSET Lit] /\ h[0] = f[q]
      /\ \A k \in 1 .. p : h[k] = Set(s[(p - k) + 1], h[k - 1])
  <2> HIDE DEF p, q
  <2>1. h \in [0 .. p -> SUBSET Lit] /\ h[0] = f[q]
    BY <1>1, <1>4
  <2>2. ASSUME NEW k \in 1 .. p PROVE h[k] = Set(s[(p - k) + 1], h[k - 1])
    <3>1. /\ q + k \in 1 .. p + q /\ k \in 0 .. p /\ k - 1 \in 0 .. p /\ (p - k) + 1 \in 1 .. p
          /\ ((p + q) - (q + k)) + 1 = (p - k) + 1 /\ (q + k) - 1 = q + (k - 1)
      BY <1>1
    <3>2. f[q + k] = Set(u[(p - k) + 1], f[q + (k - 1)])
      BY <1>4, <3>1
    <3> QED
      BY <1>2, <3>1, <3>2
  <2> QED
    BY <2>1, <2>2
<1>7. Run(t, g, a) /\ Run(s, h, f[q])
  BY <1>5, <1>6 DEF Run
<1>8. f[q] \in SUBSET Lit /\ g[q] = f[q] /\ h[p] = f[q + p] /\ q + p = p + q
  <2> HIDE DEF p, q
  <2>1. q \in 0 .. p + q /\ q \in 0 .. q /\ p \in 0 .. p /\ q + p = p + q
    BY <1>1
  <2> QED
    BY <1>4, <2>1
<1> HIDE DEF g, h
<1>9. Extended(t, a) = f[q] /\ Extended(s, f[q]) = f[q + p]
  BY <1>7, <1>8, ExtendedByRun
<1> QED
  BY <1>1, <1>3, <1>8, <1>9 DEF u
LEMMA SetToSeqIs ==
  ASSUME NEW S, IsFiniteSet(S)
  PROVE  /\ SetToSeq(S) \in Seq(S)
         /\ \A c \in S : \E i \in 1 .. Len(SetToSeq(S)) : SetToSeq(S)[i] = c
<1> DEFINE n == Cardinality(S)
<1> DEFINE f == SetToSeq(S)
<1>1. n \in Nat /\ \E g : g \in Bijection(1 .. n, S)
  BY FS_CardinalityType DEF ExistsBijection
<1>2. \E g \in [1 .. n -> S] : IsInjective(g)
  BY <1>1 DEF Bijection, Injection
<1>3. f \in [1 .. n -> S] /\ IsInjective(f)
  BY <1>2 DEF SetToSeq
<1> HIDE DEF f
<1>4. f \in Injection(1 .. n, S)
  BY <1>3 DEF Injection
<1>5. IsFiniteSet(1 .. n) /\ Cardinality(1 .. n) = n
  BY <1>1, FS_Interval
<1>6. f \in Surjection(1 .. n, S)
  BY <1>4, <1>5, FS_Injection
<1>7. \A c \in S : \E i \in 1 .. n : f[i] = c
  BY <1>6 DEF Surjection
<1> HIDE DEF n
<1>8. f \in Seq(S) /\ Len(f) = n
  BY <1>1, <1>3
<1> QED
  BY <1>7, <1>8 DEF f

With(a, k) == (a \ {-k}) \cup {k}

LEMMA WithTotal ==
  ASSUME NEW a \in Total, NEW k \in Lit
  PROVE  /\ With(a, k) \in Total
         /\ \A l \in Lit : l # k /\ l # -k => (l \in With(a, k) <=> l \in a)
<1>1. a \in SUBSET Lit /\ \A l \in Lit : l \in a <=> -l \notin a
  BY TotalHas
<1>2. With(a, k) \in SUBSET Lit
  BY <1>1 DEF With
<1>3. \A l \in Lit : l # k /\ l # -k => (l \in With(a, k) <=> l \in a)
  BY DEF With
<1>4. k \in With(a, k) /\ -k \notin With(a, k)
  BY Literals DEF With
<1>5. ASSUME NEW l \in Lit PROVE l \in With(a, k) <=> -l \notin With(a, k)
  <2>1. -l \in Lit /\ -(-l) = l /\ -(-k) = k
    BY Literals
  <2>2. CASE l = k \/ l = -k
    BY <1>4, <2>1, <2>2
  <2>3. CASE l # k /\ l # -k
    <3>1. -l # k /\ -l # -k
      BY <2>1, <2>3
    <3> QED
      BY <1>1, <1>3, <2>1, <2>3, <3>1
  <2> QED
    BY <2>2, <2>3
<1> QED
  BY <1>2, <1>3, <1>5, TotalIf

(* The clauses of one sign: the variable gets this sign when one of them   *)
(* needs it, and the other sign otherwise.                                 *)
LEMMA StoredRun ==
  ASSUME NEW a \in Total, NEW k \in Lit, NEW cs \in Seq(SUBSET Lit),
         \A i \in 1 .. Len(cs) : k \in cs[i] /\ -k \notin cs[i],
         NEW st \in Seq(Record), Len(st) = Len(cs) + 1,
         \A i \in 1 .. Len(cs) : st[i] = [lit |-> k, clause |-> cs[i]],
         st[Len(cs) + 1] = [lit |-> -k, clause |-> {-k}]
  PROVE  Extended(st, a) = IF \E i \in 1 .. Len(cs) : (cs[i] \ {k}) \cap a = {} THEN With(a, k) ELSE With(a, -k)
<1> DEFINE n == Len(cs)
<1> DEFINE Needs(i) == (cs[i] \ {k}) \cap a = {}
<1> DEFINE Value(j) == IF \E i \in (n - j) + 1 .. n : Needs(i) THEN With(a, k) ELSE With(a, -k)
<1>0. a \in SUBSET Lit /\ -(-k) = k /\ -k \in Lit /\ -k # k
  BY TotalHas, Literals
<1>1. PICK f : Run(st, f, a) /\ Extended(st, a) = f[Len(st)]
  BY <1>0, ExtendedHasRun
<1>2. /\ n \in Nat /\ Extended(st, a) = f[n + 1] /\ f[0] = a
      /\ \A j \in 1 .. n + 1 : f[j] = Set(st[((n + 1) - j) + 1], f[j - 1])
  BY <1>1 DEF Run
<1>3. /\ \A i \in 1 .. n : k \in cs[i] /\ -k \notin cs[i] /\ cs[i] \in SUBSET Lit
      /\ \A i \in 1 .. n : st[i] = [lit |-> k, clause |-> cs[i]]
      /\ st[n + 1] = [lit |-> -k, clause |-> {-k}]
  OBVIOUS
<1> HIDE DEF n
<1>4. f[1] = With(a, -k)
  <2>1. 1 \in 1 .. n + 1 /\ ((n + 1) - 1) + 1 = n + 1 /\ 1 - 1 = 0
    BY <1>2
  <2>2. f[1] = Set([lit |-> -k, clause |-> {-k}], a)
    BY <1>2, <1>3, <2>1
  <2> QED
    BY <1>0, <2>2 DEF Set, With
<1>5. ASSUME NEW i \in 1 .. n, NEW b \in {With(a, k), With(a, -k)}
      PROVE  Set(st[i], b) = IF Needs(i) THEN With(a, k) ELSE b
  <2>1. \A l \in Lit : l # k /\ l # -k => (l \in b <=> l \in a)
    BY <1>0, WithTotal
  <2>2. (cs[i] \ {k}) \cap b = (cs[i] \ {k}) \cap a
    BY <1>3, <2>1
  <2>3. (b \ {-k}) \cup {k} = With(a, k)
    BY <1>0 DEF With
  <2>4. Set(st[i], b) = IF (cs[i] \ {k}) \cap b # {} THEN b ELSE (b \ {-k}) \cup {k}
    <3>1. st[i] = [lit |-> k, clause |-> cs[i]]
      BY <1>3
    <3>2. st[i].lit = k /\ st[i].clause = cs[i]
      BY <3>1
    <3> QED
      BY <3>2 DEF Set
  <2> QED
    BY <2>2, <2>3, <2>4
<1> DEFINE T == {j \in Nat : j <= n => f[j + 1] = Value(j)}
<1>6. 0 \in T
  BY <1>2, <1>4
<1>7. ASSUME NEW j \in Nat, j \in T PROVE j + 1 \in T
  <2> SUFFICES ASSUME j + 1 <= n PROVE f[(j + 1) + 1] = Value(j + 1)
    OBVIOUS
  <2> DEFINE i == n - j
  <2>1. /\ i \in 1 .. n /\ (j + 1) + 1 \in 1 .. n + 1 /\ ((n + 1) - ((j + 1) + 1)) + 1 = i
        /\ ((j + 1) + 1) - 1 = j + 1
        /\ \A x \in Int : x \in (n - (j + 1)) + 1 .. n <=> x = i \/ x \in (n - j) + 1 .. n
    BY <1>2
  <2>2. f[j + 1] = Value(j)
    BY <1>2, <1>7
  <2>3. Value(j) \in {With(a, k), With(a, -k)}
    OBVIOUS
  <2>4. f[(j + 1) + 1] = Set(st[i], Value(j))
    BY <1>2, <2>1, <2>2
  <2>5. (\E x \in (n - (j + 1)) + 1 .. n : Needs(x)) <=> Needs(i) \/ \E x \in (n - j) + 1 .. n : Needs(x)
    <3> HIDE DEF i, Needs
    <3> QED
      BY <2>1
  <2> HIDE DEF i, Needs
  <2>6. Set(st[i], Value(j)) = IF Needs(i) THEN With(a, k) ELSE Value(j)
    BY <1>5, <2>1, <2>3
  <2> QED
    BY <2>4, <2>5, <2>6
<1> HIDE DEF T
<1>8. n \in T
  BY <1>2, <1>6, <1>7, SetInduction
<1>9. f[n + 1] = Value(n) /\ (n - n) + 1 = 1
  BY <1>2, <1>8 DEF T
<1> QED
  BY <1>2, <1>9 DEF n
LEMMA AppendOne ==
  ASSUME NEW S, NEW s \in Seq(S), NEW x \in S
  PROVE  /\ s \o <<x>> \in Seq(S) /\ Len(s \o <<x>>) = Len(s) + 1
         /\ \A i \in 1 .. Len(s) : (s \o <<x>>)[i] = s[i]
         /\ (s \o <<x>>)[Len(s) + 1] = x
OBVIOUS

LEMMA ConcatSeq ==
  ASSUME NEW S, NEW s \in Seq(S), NEW t \in Seq(S)
  PROVE  /\ s \o t \in Seq(S) /\ Len(s \o t) = Len(s) + Len(t)
         /\ \A i \in 1 .. Len(s) : (s \o t)[i] = s[i]
         /\ \A i \in 1 .. Len(t) : (s \o t)[Len(s) + i] = t[i]
OBVIOUS

LEMMA StoredIs ==
  ASSUME DatabaseOK, NEW v \in Var
  PROVE  /\ Stored(v) \in Seq(Record)
         /\ \A a \in Total : \E k \in {v, -v} :
              Extended(Stored(v), a) = IF \E c \in clauses : k \in c /\ (c \ {k}) \cap a = {}
                                       THEN With(a, k) ELSE With(a, -k)
<1> DEFINE sign == IF Cardinality(Pos(v)) > Cardinality(Neg(v)) THEN -1 ELSE 1
<1> DEFINE k == sign * v
<1> DEFINE R == {c \in clauses : k \in c}
<1> DEFINE cs == SetToSeq(R)
<1> DEFINE st == [i \in 1 .. Len(cs) |-> [lit |-> k, clause |-> cs[i]]] \o <<[lit |-> -k, clause |-> {-k}]>>
<1>1. k \in {v, -v} /\ k \in Lit /\ -k \in Lit /\ -k # k
  <2>1. sign \in {1, -1} /\ v \in Int /\ v \in Lit /\ -v \in Lit
    BY Literals DEF Var
  <2>2. k \in {v, -v}
    BY <2>1
  <2> QED
    BY <2>1, <2>2, Literals
<1>2. (IF sign = 1 THEN Pos(v) ELSE Neg(v)) = R
  <2>1. v \in Int /\ sign \in {1, -1}
    BY DEF Var
  <2> HIDE DEF sign
  <2>2. (sign = 1 => k = v) /\ (sign # 1 => k = -v)
    BY <2>1
  <2> HIDE DEF k
  <2> QED
    BY <2>2 DEF Pos, Neg
<1>3. Stored(v) = st
  BY <1>2 DEF Stored
<1>4. R \in SUBSET SUBSET Lit /\ IsFiniteSet(R)
  <2>1. IsFiniteSet(SUBSET Lit)
    BY LitFinite, FS_SUBSET
  <2> QED
    BY <2>1, FS_Subset DEF DatabaseOK
<1> HIDE DEF sign, k
<1>5. cs \in Seq(R) /\ \A c \in R : \E i \in 1 .. Len(cs) : cs[i] = c
  BY <1>4, SetToSeqIs
<1>6. \A c \in R : k \in c /\ -k \notin c
  BY DEF DatabaseOK, Tautology
<1> HIDE DEF R
<1>7. cs \in Seq(SUBSET Lit) /\ \A i \in 1 .. Len(cs) : cs[i] \in R
  BY <1>4, <1>5
<1> HIDE DEF cs
<1> DEFINE n == Len(cs)
<1> DEFINE s1 == [i \in 1 .. n |-> [lit |-> k, clause |-> cs[i]]]
<1> DEFINE x == [lit |-> -k, clause |-> {-k}]
<1>8. n \in Nat /\ \A i \in 1 .. n : cs[i] \in SUBSET Lit
  BY <1>7
<1>9. st = s1 \o <<x>>
  OBVIOUS
<1> HIDE DEF st, n
<1>10. s1 \in Seq(Record) /\ Len(s1) = n /\ \A i \in 1 .. n : s1[i] = [lit |-> k, clause |-> cs[i]]
  <2>1. \A i \in 1 .. n : [lit |-> k, clause |-> cs[i]] \in Record
    BY <1>1, <1>8 DEF Record
  <2> QED
    BY <1>8, <2>1
<1>a. x \in Record
  BY <1>1 DEF Record
<1>11. /\ st \in Seq(Record) /\ Len(st) = n + 1
       /\ \A i \in 1 .. n : st[i] = [lit |-> k, clause |-> cs[i]]
       /\ st[n + 1] = [lit |-> -k, clause |-> {-k}]
  <2>0. x = [lit |-> -k, clause |-> {-k}]
    OBVIOUS
  <2> HIDE DEF s1, x
  <2>1. /\ s1 \o <<x>> \in Seq(Record) /\ Len(s1 \o <<x>>) = Len(s1) + 1
        /\ \A i \in 1 .. Len(s1) : (s1 \o <<x>>)[i] = s1[i]
        /\ (s1 \o <<x>>)[Len(s1) + 1] = x
    BY <1>10, <1>a, AppendOne
  <2>2. /\ s1 \o <<x>> \in Seq(Record) /\ Len(s1 \o <<x>>) = n + 1
        /\ \A i \in 1 .. n : (s1 \o <<x>>)[i] = [lit |-> k, clause |-> cs[i]]
        /\ (s1 \o <<x>>)[n + 1] = [lit |-> -k, clause |-> {-k}]
    BY <1>10, <2>0, <2>1
  <2> QED
    BY <1>9, <2>2, Zenon
<1>12. ASSUME NEW a \in Total
       PROVE  Extended(st, a) = IF \E c \in clauses : k \in c /\ (c \ {k}) \cap a = {} THEN With(a, k) ELSE With(a, -k)
  <2>1. Extended(st, a) = IF \E i \in 1 .. n : (cs[i] \ {k}) \cap a = {} THEN With(a, k) ELSE With(a, -k)
    BY <1>1, <1>6, <1>7, <1>11, StoredRun DEF n
  <2>2. (\E i \in 1 .. n : (cs[i] \ {k}) \cap a = {}) <=> \E c \in R : (c \ {k}) \cap a = {}
    BY <1>5, <1>7 DEF n
  <2>3. (\E c \in R : (c \ {k}) \cap a = {}) <=> \E c \in clauses : k \in c /\ (c \ {k}) \cap a = {}
    BY DEF R
  <2> QED
    BY <2>1, <2>2, <2>3
<1> QED
  BY <1>1, <1>3, <1>11, <1>12

ResolventsHold(a, v) == \A x \in Resolvents(v) : a \cap Resolvent(x[1], x[2], v) # {}

(* A model of the clauses without the variable and of the resolvents       *)
(* becomes one of the clauses that were removed with it.                   *)
LEMMA EliminatedModel ==
  ASSUME DatabaseOK, NEW v \in Var, {v, -v} \cap trail = {}, NEW a \in Total,
         Satisfies(a, clauses \ Occs(v)), trail \subseteq a,
         ResolventsHold(a, v), NEW b, b = Extended(Stored(v), a)
  PROVE  b \in Total /\ Fits(b) /\ \A l \in Lit : VarOf(l) # v => (l \in a <=> l \in b)
<1>1. PICK k \in {v, -v} : b = IF \E c \in clauses : k \in c /\ (c \ {k}) \cap a = {}
                                THEN With(a, k) ELSE With(a, -k)
  BY StoredIs
<1>2. /\ v \in Lit /\ -v \in Lit /\ VarOf(v) = v /\ VarOf(-v) = v /\ -(-v) = v
      /\ k \in Lit /\ -k \in Lit /\ -(-k) = k /\ -k \in {v, -v} /\ {k, -k} = {v, -v}
  BY Literals
<1>3. \A l \in Lit : VarOf(l) = v => l = k \/ l = -k
  BY <1>2, Literals
<1>4. \A c \in clauses : c \in SUBSET Lit /\ ~Tautology(c)
  BY DEF DatabaseOK
<1>5. b \in Total /\ \A l \in Lit : l # k /\ l # -k => (l \in a <=> l \in b)
  BY <1>1, <1>2, WithTotal
<1>6. \A l \in Lit : VarOf(l) # v => (l \in a <=> l \in b)
  BY <1>2, <1>5
<1>7. ASSUME NEW c \in clauses, NEW d \in clauses, v \in c, -v \in d
      PROVE  a \cap ((c \ {v}) \cup (d \ {-v})) # {}
  <2>1. Resolvent(c, d, v) = (c \ {v}) \cup (d \ {-v}) /\ Resolvent(c, d, v) \in SUBSET Lit
    BY <1>4 DEF Resolvent
  <2>2. CASE Tautology(Resolvent(c, d, v))
    BY <2>1, <2>2, TautologyHolds
  <2>3. CASE ~Tautology(Resolvent(c, d, v))
    <3>1. <<c, d>> \in Resolvents(v)
      BY <1>7, <2>3 DEF Resolvents, Pos, Neg
    <3> QED
      BY <2>1, <3>1 DEF ResolventsHold
  <2> QED
    BY <2>2, <2>3
<1>8. ASSUME NEW c \in clauses, NEW d \in clauses, k \in c, -k \in d
      PROVE  a \cap (c \ {k}) # {} \/ a \cap (d \ {-k}) # {}
  BY <1>2, <1>7, <1>8
<1>9. k \in With(a, k) /\ -k \in With(a, -k)
  BY DEF With
<1>10. ASSUME NEW d \in clauses, NEW j \in {k, -k}, j \in d, a \cap (d \ {j}) # {} PROVE b \cap d # {}
  <2>1. PICK l \in d : l \in a /\ l # j
    BY <1>10
  <2>2. l \in Lit /\ -j \notin d /\ -j \in {k, -k}
    BY <1>2, <1>4, <1>10 DEF Tautology
  <2>3. l # k /\ l # -k
    BY <1>2, <1>10, <2>1, <2>2
  <2> QED
    BY <1>5, <2>1, <2>2, <2>3
<1>11. ASSUME NEW d \in clauses PROVE b \cap d # {}
  <2>1. CASE d \notin Occs(v)
    <3>1. PICK l \in d : l \in a
      BY <2>1 DEF Satisfies
    <3>2. l \in Lit /\ VarOf(l) # v
      BY <1>4, <2>1, <3>1 DEF Occs, VarsOf
    <3> QED
      BY <1>6, <3>1, <3>2
  <2>2. CASE d \in Occs(v)
    <3>1. k \in d \/ -k \in d
      BY <1>3, <1>4, <2>2 DEF Occs, VarsOf
    <3>2. CASE \E c \in clauses : k \in c /\ (c \ {k}) \cap a = {}
      <4>1. PICK c \in clauses : k \in c /\ (c \ {k}) \cap a = {}
        BY <3>2
      <4>2. k \in b
        BY <1>1, <1>9, <3>2
      <4>3. CASE k \in d
        BY <4>2, <4>3
      <4>4. CASE -k \in d
        BY <1>8, <1>10, <4>1, <4>4
      <4> QED
        BY <3>1, <4>3, <4>4
    <3>3. CASE ~\E c \in clauses : k \in c /\ (c \ {k}) \cap a = {}
      <4>1. -k \in b
        BY <1>1, <1>9, <3>3
      <4>2. CASE k \in d
        BY <1>10, <3>3, <4>2
      <4>3. CASE -k \in d
        BY <4>1, <4>3
      <4> QED
        BY <3>1, <4>2, <4>3
    <3> QED
      BY <3>2, <3>3
  <2> QED
    BY <2>1, <2>2
<1>12. trail \subseteq b
  <2> SUFFICES ASSUME NEW l \in trail PROVE l \in b
    OBVIOUS
  <2>1. l \in Lit /\ l \in a /\ l # k /\ l # -k
    BY <1>2 DEF DatabaseOK
  <2> QED
    BY <1>5, <2>1
<1> QED
  BY <1>5, <1>6, <1>11, <1>12 DEF Fits, Satisfies
LEMMA StoredTotal ==
  ASSUME DatabaseOK, NEW v \in Var, NEW a \in Total
  PROVE  /\ Extended(Stored(v), a) \in Total
         /\ \A l \in Lit : VarOf(l) # v => (l \in a <=> l \in Extended(Stored(v), a))
<1>1. PICK k \in {v, -v} : Extended(Stored(v), a) \in {With(a, k), With(a, -k)}
  BY StoredIs
<1>2. k \in Lit /\ -k \in Lit /\ -(-k) = k /\ VarOf(k) = v /\ VarOf(-k) = v
  BY Literals
<1> QED
  BY <1>1, <1>2, WithTotal

LEMMA EliminateVarInv == ASSUME SimpInv, eliminateVar PROVE SimpInv'
<1>0. /\ DatabaseOK /\ enc \in Encodings /\ eliminated \in SUBSET Var /\ eliminated \cap enc.frozen = {}
      /\ elimclauses \in Seq(Record) /\ todo = <<>> /\ candidates = {} /\ pc = "try"
      /\ UNCHANGED <<enc, todo, trail, ok, elim, current, candidates, ret>>
  BY DEF SimpInv, Typed, Control, eliminateVar
<1>1. CASE pc' = "heap" /\ UNCHANGED <<clauses, removed, heap, gone, pending>>
  <2>1. Typed' /\ Sound' /\ Complete'
    BY <1>0, <1>1, StepSame DEF SimpInv
  <2>2. Control'
    BY <1>0, <1>1 DEF SimpInv, Control
  <2> QED
    BY <2>1, <2>2 DEF SimpInv
<1>2. CASE ~(pc' = "heap" /\ UNCHANGED <<clauses, removed, heap, gone, pending>>)
  <2> DEFINE v == elim
  <2>1. /\ {v, -v} \cap trail = {} /\ v \in Var \ enc.frozen /\ pc' = "resolvents"
        /\ pending' = Resolvents(v) /\ eliminated' = eliminated \cup {v}
        /\ elimclauses' = elimclauses \o Stored(v)
        /\ clauses' = clauses \ Occs(v) /\ removed' = removed \cup Occs(v)
    BY <1>2 DEF eliminateVar, Eliminable, RemovedFor
  <2>o. Occs(v) \in SUBSET clauses
    BY DEF Occs
  <2> HIDE DEF v
  <2>2. DatabaseOK'
    BY <1>0, <2>1, <2>o DEF DatabaseOK
  <2>3. Stored(v) \in Seq(Record)
    BY <1>0, <2>1, StoredIs
  <2>4. elimclauses' \in Seq(Record)
    BY <1>0, <2>1, <2>3
  <2>5. Typed'
    <3>1. enc' \in Encodings /\ todo' \in Seq(SUBSET Lit)
      BY <1>0 DEF SimpInv, Typed
    <3>2. eliminated' \in SUBSET Var /\ eliminated' \cap enc'.frozen = {}
      BY <1>0, <2>1
    <3> QED
      BY <2>2, <2>4, <3>1, <3>2 DEF Typed
  <2>6. \A x \in Resolvents(v) :
          /\ x[1] \in clauses /\ x[2] \in clauses /\ x[1] \in SUBSET Lit /\ x[2] \in SUBSET Lit
          /\ Resolvent(x[1], x[2], v) = (x[1] \ {v}) \cup (x[2] \ {-v})
    BY <1>0 DEF Resolvents, Pos, Neg, DatabaseOK, Resolvent
  <2>7. Control'
    BY <1>0, <2>1, <2>6 DEF SimpInv, Control, v
  <2>8. /\ v \in Lit /\ Formula' = Formula
        /\ \A m : Waiting(m)' <=> \A x \in Resolvents(v) : m \cap Resolvent(x[1], x[2], v) # {}
    BY <1>0, <2>1, Literals DEF Waiting, Formula, v, Range
  <2>9. Sound'
    <3> SUFFICES ASSUME NEW m \in Models(Formula) PROVE (ok /\ Left(m) /\ Satisfies(m, removed))'
      BY <2>8 DEF Sound, Models, Satisfies
    <3>1. m \in Total /\ ok /\ Fits(m) /\ Satisfies(m, removed)
      BY DEF SimpInv, Sound, Models, Left
    <3>2. Fits(m)' /\ Satisfies(m, removed)'
      BY <1>0, <2>1, <2>o, <3>1 DEF Fits, Satisfies
    <3>3. ASSUME NEW x \in Resolvents(v) PROVE m \cap Resolvent(x[1], x[2], v) # {}
      <4>1. m \cap x[1] # {} /\ m \cap x[2] # {}
        BY <2>6, <3>1 DEF Fits, Satisfies
      <4>2. v \in m <=> -v \notin m
        BY <2>8, <3>1, TotalHas
      <4> QED
        BY <2>6, <4>1, <4>2
    <3> QED
      BY <1>0, <2>8, <3>1, <3>2, <3>3 DEF Left
  <2>10. ASSUME NEW m \in Total
         PROVE  /\ extendModel(m)' = extendModel(Extended(Stored(v), m))
                /\ Extended(Stored(v), m) \in Total
                /\ \A l \in Lit : VarOf(l) # v => (l \in m <=> l \in Extended(Stored(v), m))
    <3>1. m \in SUBSET Lit
      BY TotalHas
    <3>2. Extended(elimclauses', m) = Extended(elimclauses, Extended(Stored(v), m))
      BY <1>0, <2>1, <2>3, <3>1, ExtendedConcat
    <3> QED
      BY <1>0, <2>1, <3>2, StoredTotal DEF extendModel
  <2>11. ASSUME NEW m \in Total PROVE extendModel(m)' \in Total /\ Agree(m, extendModel(m))'
    <3> DEFINE b == Extended(Stored(v), m)
    <3>1. /\ b \in Total /\ extendModel(m)' = extendModel(b)
          /\ \A l \in Lit : VarOf(l) # v => (l \in m <=> l \in b)
      BY <2>10
    <3> HIDE DEF b
    <3>2. extendModel(b) \in Total /\ Agree(b, extendModel(b))
      BY <3>1 DEF SimpInv, Complete
    <3>3. \A l \in Lit : VarOf(l) \notin eliminated' => (l \in m <=> l \in extendModel(b))
      BY <2>1, <3>1, <3>2 DEF Agree
    <3> QED
      BY <3>1, <3>2, <3>3 DEF Agree
  <2>12. ASSUME ok', NEW m \in Total, Left(m)' PROVE Satisfies(extendModel(m), Formula)'
    <3> DEFINE b == Extended(Stored(v), m)
    <3>1. b \in Total /\ extendModel(m)' = extendModel(b)
      BY <2>10
    <3>2. /\ Satisfies(m, clauses \ Occs(v)) /\ trail \subseteq m
          /\ ResolventsHold(m, v)
      <4>1. Fits(m)' /\ Waiting(m)'
        BY <2>12 DEF Left
      <4> QED
        BY <1>0, <2>1, <2>8, <4>1 DEF Fits, Satisfies, ResolventsHold
    <3>a. b = Extended(Stored(v), m) /\ v \in Var /\ DatabaseOK /\ {v, -v} \cap trail = {}
      BY <1>0, <2>1
    <3> HIDE DEF b
    <3>3. Fits(b)
      BY <3>2, <3>a, EliminatedModel
    <3>4. Waiting(b)
      BY <1>0 DEF Waiting, Range
    <3>5. Satisfies(extendModel(b), Formula)
      BY <1>0, <2>12, <3>1, <3>3, <3>4 DEF SimpInv, Complete, Left
    <3> QED
      BY <2>8, <3>1, <3>5 DEF Satisfies
  <2>13. Complete'
    BY <2>11, <2>12 DEF Complete
  <2> QED
    BY <2>5, <2>7, <2>9, <2>13 DEF SimpInv
<1> QED
  BY <1>1, <1>2
-----------------------------------------------------------------------------
LEMMA RangeConcat ==
  ASSUME NEW S, NEW s \in Seq(S), NEW t \in Seq(S)
  PROVE  \A i \in 1 .. Len(s) : s[i] \in Range(s \o t)
<1> DEFINE n == Len(s)
<1> DEFINE p == Len(t)
<1> DEFINE u == s \o t
<1>1. n \in Nat /\ p \in Nat /\ DOMAIN u = 1 .. n + p /\ \A i \in 1 .. n : u[i] = s[i]
  OBVIOUS
<1> HIDE DEF n, p, u
<1>2. \A i \in 1 .. n : i \in 1 .. n + p
  BY <1>1
<1>3. \A i \in 1 .. n : s[i] \in Range(u)
  BY <1>1, <1>2 DEF Range
<1> QED
  BY <1>3 DEF n, u

LEMMA UnitsType ==
  ASSUME NEW s \in Seq(Lit)
  PROVE  Units(s) \in Seq(SUBSET Lit) /\ Len(Units(s)) = Len(s) /\ \A i \in 1 .. Len(s) : Units(s)[i] = {s[i]}
<1> DEFINE n == Len(s)
<1>1. n \in Nat /\ (\A i \in 1 .. n : s[i] \in Lit) /\ Units(s) = [i \in 1 .. n |-> {s[i]}]
  BY DEF Units
<1> HIDE DEF n
<1>2. \A i \in 1 .. n : {s[i]} \in SUBSET Lit
  BY <1>1
<1>3. Units(s) \in Seq(SUBSET Lit) /\ Len(Units(s)) = n /\ \A i \in 1 .. n : Units(s)[i] = {s[i]}
  BY <1>1, <1>2
<1> QED
  BY <1>3 DEF n

LEMMA AddedType ==
  ASSUME NEW e \in Encodings
  PROVE  /\ Added(e) \in Seq(SUBSET Lit)
         /\ {-e.bad} \in Range(Added(e))
         /\ \A l \in Range(Asserted(e)) : {l} \in Range(Added(e))
<1>1. e.bad \in Lit /\ Asserted(e) \in Seq(Lit) /\ e.rest \in Seq(SUBSET Lit) /\ -1 \in Lit /\ -e.bad \in Lit
  <2>1. e.bad \in Lit /\ e.constraints \in Seq(Lit) /\ e.rest \in Seq(SUBSET Lit)
    BY EncodingsAssumption
  <2>2. 1 \in Var
    BY NAssumption DEF Var
  <2> QED
    BY <2>1, <2>2, Literals DEF Asserted
<1> DEFINE h == <<-1, -e.bad>>
<1> DEFINE c == Asserted(e)
<1> DEFINE s == h \o c
<1>2. h \in Seq(Lit) /\ Len(h) = 2 /\ h[2] = -e.bad /\ c \in Seq(Lit)
  BY <1>1
<1> HIDE DEF h, c
<1>3. s \in Seq(Lit) /\ Len(s) = 2 + Len(c) /\ s[2] = -e.bad /\ \A i \in 1 .. Len(c) : s[2 + i] = c[i]
  <2>1. /\ h \o c \in Seq(Lit) /\ Len(h \o c) = Len(h) + Len(c)
        /\ \A i \in 1 .. Len(h) : (h \o c)[i] = h[i]
        /\ \A i \in 1 .. Len(c) : (h \o c)[Len(h) + i] = c[i]
    BY <1>2, ConcatSeq
  <2>2. 2 \in 1 .. Len(h)
    BY <1>2
  <2> QED
    BY <1>2, <2>1, <2>2
<1> HIDE DEF s
<1>4. Units(s) \in Seq(SUBSET Lit) /\ Len(Units(s)) = Len(s) /\ \A i \in 1 .. Len(s) : Units(s)[i] = {s[i]}
  BY <1>3, UnitsType
<1>5. Added(e) = Units(s) \o e.rest
  BY DEF Added, s, h, c
<1>6. \A i \in 1 .. Len(s) : {s[i]} \in Range(Added(e))
  <2>1. \A i \in 1 .. Len(Units(s)) : Units(s)[i] \in Range(Units(s) \o e.rest)
    BY <1>1, <1>4, RangeConcat
  <2> QED
    BY <1>4, <1>5, <2>1
<1>7. Added(e) \in Seq(SUBSET Lit)
  BY <1>1, <1>4, <1>5
<1>8. {-e.bad} \in Range(Added(e))
  <2>1. 2 \in 1 .. Len(s)
    BY <1>2, <1>3
  <2> QED
    BY <1>3, <1>6, <2>1
<1>9. ASSUME NEW l \in Range(c) PROVE {l} \in Range(Added(e))
  <2> DEFINE n == Len(c)
  <2>1. PICK i \in 1 .. n : c[i] = l
    BY <1>2, <1>9 DEF Range
  <2>2. n \in Nat /\ Len(s) = 2 + n
    BY <1>2, <1>3
  <2> HIDE DEF n
  <2>3. 2 + i \in 1 .. Len(s) /\ i \in 1 .. n
    BY <2>1, <2>2
  <2> QED
    BY <1>3, <1>6, <2>1, <2>3 DEF n
<1> QED
  BY <1>7, <1>8, <1>9 DEF c

LEMMA SimpInit == Init => SimpInv
<1> SUFFICES ASSUME Init PROVE SimpInv
  OBVIOUS
<1>1. Typed
  <2>1. enc \in Encodings /\ todo = Added(enc)
    BY DEF Init
  <2>2. todo \in Seq(SUBSET Lit)
    BY <2>1, AddedType
  <2> QED
    BY <2>1, <2>2 DEF Init, Typed, DatabaseOK
<1>2. Control
  BY DEF Init, Control
<1>3. \A m \in Total : Left(m) <=> Satisfies(m, Formula)
  BY DEF Init, Left, Fits, Waiting, Satisfies, Formula
<1>4. Sound
  BY <1>3 DEF Init, Sound, Models, Satisfies
<1>5. ASSUME NEW m \in Total PROVE extendModel(m) = m
  <2>1. elimclauses = <<>> /\ <<>> \in Seq(Record) /\ Len(<<>>) = 0 /\ m \in SUBSET Lit
    BY TotalHas DEF Init
  <2>2. PICK f : Run(<<>>, f, m) /\ Extended(<<>>, m) = f[Len(<<>>)]
    BY <2>1, ExtendedHasRun
  <2> QED
    BY <2>1, <2>2 DEF Run, extendModel
<1>6. Complete
  BY <1>3, <1>5 DEF Complete, Agree
<1> QED
  BY <1>1, <1>2, <1>4, <1>6 DEF SimpInv

LEMMA SimpNext == SimpInv /\ [Next]_vars => SimpInv'
<1> SUFFICES ASSUME SimpInv, [Next]_vars PROVE SimpInv'
  OBVIOUS
<1>1. CASE UNCHANGED vars
  <2>1. UNCHANGED <<enc, todo, clauses, removed, trail, ok, elim, current, candidates, pending, pc, ret, gone>>
    BY <1>1 DEF vars, database
  <2>2. Typed' /\ Control'
    BY <2>1 DEF SimpInv, Typed, DatabaseOK, Control, gone
  <2>3. \A m \in Total : Left(m)' <=> Left(m)
    BY <2>1 DEF Left, Fits, Waiting, Satisfies
  <2>4. \A m \in Total : Satisfies(m, removed)' <=> Satisfies(m, removed)
    BY <2>1 DEF Satisfies
  <2>5. Sound' /\ Complete'
    BY <2>1, <2>3, <2>4, StepKeeps DEF SimpInv
  <2> QED
    BY <2>2, <2>5 DEF SimpInv
<1> QED
  BY <1>1, AddClauseInv, QuietInv, NextSubsumptionInv, BackwardInv, AsymmVarInv, EliminateVarInv,
     AddResolventInv DEF Next, Done

-----------------------------------------------------------------------------
LEMMA ExactFromInv == SimpInv => TranslationExact
<1> SUFFICES ASSUME SimpInv, pc = "done", Satisfiable(Formula)
             PROVE  ok /\ SameOn(enc.frozen, Formula, Translation)
  BY DEF TranslationExact
<1>1. enc \in Encodings /\ DatabaseOK /\ todo = <<>> /\ eliminated \cap enc.frozen = {}
  BY DEF SimpInv, Typed, Control
<1>2. PICK z \in Total : Satisfies(z, Formula)
  BY DEF Satisfiable
<1>3. ok
  BY <1>2 DEF SimpInv, Sound, Models
<1>4. ~satelite_unsat
  <2> SUFFICES ASSUME satelite_unsat PROVE FALSE
    OBVIOUS
  <2>1. {-enc.bad} \in Formula /\ {enc.bad} \in Formula /\ enc.bad \in Lit
    BY <1>1, AddedType, EncodingsAssumption DEF Formula, satelite_unsat
  <2>2. -enc.bad \in z /\ enc.bad \in z
    BY <1>2, <2>1 DEF Satisfies
  <2> QED
    BY <2>1, <2>2, TotalHas
<1>5. Translation = clauses \cup removed \cup {{l} : l \in trail} \cup {{N, -N}}
  BY <1>4 DEF Translation, simplified_cnf
<1>6. \A m \in Total : Satisfies(m, Translation) <=> Fits(m) /\ Satisfies(m, removed)
  <2> SUFFICES ASSUME NEW m \in Total PROVE Satisfies(m, Translation) <=> Fits(m) /\ Satisfies(m, removed)
    OBVIOUS
  <2>1. m \cap {N, -N} # {}
    <3>1. N \in Lit /\ -N \in Lit
      BY NAssumption DEF Lit
    <3> QED
      BY <3>1, TotalHas
  <2>2. trail \subseteq m <=> \A l \in trail : m \cap {l} # {}
    OBVIOUS
  <2> QED
    BY <1>5, <2>1, <2>2 DEF Satisfies, Fits
<1>7. \A m \in Total : Left(m) <=> Fits(m)
  BY <1>1 DEF Left, Waiting, Range
<1>8. Models(Formula) \in SUBSET Models(Translation)
  BY <1>6 DEF SimpInv, Sound, Left, Models
<1>9. ASSUME NEW m \in Models(Translation)
      PROVE  \E b \in Models(Formula) : {l \in b : VarOf(l) \in enc.frozen} = {l \in m : VarOf(l) \in enc.frozen}
  <2>1. m \in Total /\ Left(m)
    BY <1>6, <1>7 DEF Models
  <2> DEFINE b == extendModel(m)
  <2>2. b \in Total /\ Agree(m, b) /\ Satisfies(b, Formula)
    BY <1>3, <2>1 DEF SimpInv, Complete
  <2> HIDE DEF b
  <2>3. m \in SUBSET Lit /\ b \in SUBSET Lit
    BY <2>1, <2>2, TotalHas
  <2>4. {l \in b : VarOf(l) \in enc.frozen} = {l \in m : VarOf(l) \in enc.frozen}
    BY <1>1, <2>2, <2>3 DEF Agree
  <2> QED
    BY <2>2, <2>4 DEF Models
<1>10. Onto(enc.frozen, Models(Formula)) = Onto(enc.frozen, Models(Translation))
  BY <1>8, <1>9 DEF Onto
<1> QED
  BY <1>3, <1>10 DEF SameOn

LEMMA ExtendedFromInv == SimpInv => ModelExtended
<1> SUFFICES ASSUME SimpInv, pc = "done", ok, NEW a \in Models(clauses \cup {{l} : l \in trail})
             PROVE  Satisfies(extendModel(a), Formula)
  BY DEF ModelExtended
<1>1. a \in Total /\ Fits(a)
  <2>1. a \in Total /\ \A c \in clauses \cup {{l} : l \in trail} : a \cap c # {}
    BY DEF Models, Satisfies
  <2>2. \A l \in trail : a \cap {l} # {}
    BY <2>1
  <2> QED
    BY <2>1, <2>2 DEF Satisfies, Fits
<1>2. Waiting(a)
  BY DEF SimpInv, Control, Waiting, Range
<1> QED
  BY <1>1, <1>2 DEF SimpInv, Complete, Left
-----------------------------------------------------------------------------
(***************************************************************************)
(* The obligation queues: the race on state_count loses no obligation, for *)
(* any number of threads, of frames and of states.                         *)
(***************************************************************************)
Key == [frame : Int, depth : Int, index : Int, id : Nat]

QueuesTyped ==
  /\ state_count \in Int
  /\ at \in [Engines -> {"new", "write", "index", "block", "done"}]
  /\ reg \in [Engines -> Int]
  /\ made \in [Engines -> Nat]
  /\ pending \in [Engines -> Int \X Int]
  /\ queue \in [Engines -> SUBSET Key]

(* The place of the state being made comes before every queued obligation: *)
(* it is a frame below that of the first one.                              *)
PendingIsFirst ==
  \A e \in Engines : at[e] \in {"new", "write", "index"} =>
    \A o \in queue[e] : pending[e][1] < o.frame

QueuesInv == QueuesTyped /\ PendingIsFirst

-----------------------------------------------------------------------------
LEMMA InsertType ==
  ASSUME NEW q \in SUBSET Key, NEW o \in Key
  PROVE  Queues!insert(q, o) \in SUBSET Key
BY DEF Queues!insert

(* What comes before all others is inserted, and is the first. *)
LEMMA InsertFirst ==
  ASSUME NEW q \in SUBSET Key, NEW o \in Key, \A a \in q : o.frame < a.frame
  PROVE  o \in Queues!insert(q, o) /\ Queues!IsFirst(Queues!insert(q, o), o)
<1>1. \A a \in q : Queues!Less(o, a) /\ ~Queues!Less(a, o)
  <2> SUFFICES ASSUME NEW a \in q PROVE Queues!Less(o, a) /\ ~Queues!Less(a, o)
    OBVIOUS
  <2>1. o.frame \in Int /\ a.frame \in Int /\ o.frame < a.frame
    BY DEF Key
  <2> QED
    BY <2>1 DEF Queues!Less
<1>2. Queues!insert(q, o) = q \cup {o}
  BY <1>1 DEF Queues!insert, Queues!Equivalent
<1>3. ~Queues!Less(o, o)
  <2>1. o.frame \in Int /\ o.depth \in Int /\ o.index \in Int
    BY DEF Key
  <2> QED
    BY <2>1 DEF Queues!Less
<1> QED
  BY <1>1, <1>2, <1>3 DEF Queues!IsFirst

LEMMA FirstIsLowest ==
  ASSUME NEW q \in SUBSET Key, NEW o \in q, Queues!IsFirst(q, o)
  PROVE  \A a \in q : o.frame <= a.frame
<1> SUFFICES ASSUME NEW a \in q PROVE o.frame <= a.frame
  OBVIOUS
<1>1. o.frame \in Int /\ a.frame \in Int /\ ~Queues!Less(a, o)
  BY DEF Key, Queues!IsFirst
<1> QED
  BY <1>1 DEF Queues!Less

-----------------------------------------------------------------------------
LEMMA TakeIndexKey ==
  ASSUME QueuesInv, NEW e \in Engines, Queues!TakeIndex(e)
  PROVE  \E o \in Key : /\ o.id = made[e] + 1 /\ o.frame = pending[e][1]
                        /\ queue' = [queue EXCEPT ![e] = Queues!insert(@, o)]
<1>1. PICK i \in {reg[e] + 1, state_count} :
        queue' = [queue EXCEPT ![e] = Queues!insert(@, [frame |-> pending[e][1], depth |-> pending[e][2],
                                                 index |-> i, id |-> made[e] + 1])]
  BY DEF Queues!TakeIndex
<1>2. reg[e] \in Int /\ state_count \in Int /\ made[e] \in Nat /\ pending[e] \in Int \X Int
  BY DEF QueuesInv, QueuesTyped
<1>3. i \in Int
  BY <1>1, <1>2
<1> DEFINE o == [frame |-> pending[e][1], depth |-> pending[e][2], index |-> i, id |-> made[e] + 1]
<1>4. o \in Key /\ o.id = made[e] + 1 /\ o.frame = pending[e][1]
  BY <1>2, <1>3 DEF Key
<1> QED
  BY <1>1, <1>4

LEMMA InvTakeIndex == ASSUME QueuesInv, NEW e \in Engines, Queues!TakeIndex(e) PROVE QueuesInv'
<1>1. PICK o \in Key : queue' = [queue EXCEPT ![e] = Queues!insert(@, o)]
  BY TakeIndexKey
<1>2. queue[e] \in SUBSET Key /\ made[e] \in Nat
  BY DEF QueuesInv, QueuesTyped
<1>3. Queues!insert(queue[e], o) \in SUBSET Key
  BY <1>2, InsertType
<1>4. queue' \in [Engines -> SUBSET Key] /\ \A f \in Engines : f # e => queue'[f] = queue[f]
  BY <1>1, <1>3 DEF QueuesInv, QueuesTyped
<1>5. QueuesTyped'
  BY <1>2, <1>4 DEF Queues!TakeIndex, QueuesInv, QueuesTyped
<1>6. \A f \in Engines : at'[f] \in {"new", "write", "index"} =>
        f # e /\ at'[f] = at[f] /\ pending'[f] = pending[f]
  BY DEF Queues!TakeIndex, QueuesInv, QueuesTyped
<1> QED
  BY <1>4, <1>5, <1>6 DEF QueuesInv, PendingIsFirst

LEMMA InvBlocked == ASSUME QueuesInv, NEW e \in Engines, Queues!Blocked(e) PROVE QueuesInv'
<1>1. PICK q \in SUBSET Key : queue' = [queue EXCEPT ![e] = q]
  <2>1. queue[e] \in SUBSET Key
    BY DEF QueuesInv, QueuesTyped
  <2>2. PICK o \in queue[e] :
           \/ \E k \in o.frame + 1 .. Top :
                queue' = [queue EXCEPT ![e] = Queues!insert(@ \ {o}, [o EXCEPT !.frame = k])]
           \/ queue' = [queue EXCEPT ![e] = @ \ {o}]
    BY DEF Queues!Blocked
  <2>3. \A k \in o.frame + 1 .. Top : [o EXCEPT !.frame = k] \in Key
    BY <2>1 DEF Key
  <2>4. \A k \in o.frame + 1 .. Top : Queues!insert(queue[e] \ {o}, [o EXCEPT !.frame = k]) \in SUBSET Key
    BY <2>1, <2>3, InsertType
  <2> QED
    BY <2>1, <2>2, <2>4
<1>2. queue' \in [Engines -> SUBSET Key] /\ \A f \in Engines : f # e => queue'[f] = queue[f]
  BY <1>1 DEF QueuesInv, QueuesTyped
<1>3. QueuesTyped' /\ at[e] = "block" /\ UNCHANGED <<at, pending>>
  BY <1>2 DEF Queues!Blocked, QueuesInv, QueuesTyped
<1> QED
  BY <1>2, <1>3 DEF QueuesInv, PendingIsFirst

LEMMA InvGivenUp == ASSUME QueuesInv, NEW e \in Engines, Queues!GivenUp(e) PROVE QueuesInv'
<1>1. PICK q \in SUBSET Key : queue' = [queue EXCEPT ![e] = q]
  BY DEF Queues!GivenUp, QueuesInv, QueuesTyped
<1>2. queue' \in [Engines -> SUBSET Key] /\ \A f \in Engines : f # e => queue'[f] = queue[f]
  BY <1>1 DEF QueuesInv, QueuesTyped
<1>3. QueuesTyped' /\ at[e] = "block" /\ UNCHANGED <<at, pending>>
  BY <1>2 DEF Queues!GivenUp, QueuesInv, QueuesTyped
<1> QED
  BY <1>2, <1>3 DEF QueuesInv, PendingIsFirst

LEMMA InvPredecessor == ASSUME QueuesInv, NEW e \in Engines, Queues!Predecessor(e) PROVE QueuesInv'
<1>1. PICK o \in queue[e] : Queues!IsFirst(queue[e], o) /\ pending' = [pending EXCEPT ![e] = Queues!PredecessorOf(o)]
  BY DEF Queues!Predecessor
<1>2. queue[e] \in SUBSET Key /\ o \in Key
  BY DEF QueuesInv, QueuesTyped
<1>3. o.frame \in Int /\ o.depth \in Int /\ \A a \in queue[e] : a.frame \in Int
  BY <1>2 DEF Key
<1>4. Queues!PredecessorOf(o) \in Int \X Int /\ Queues!PredecessorOf(o)[1] = o.frame - 1
  BY <1>3 DEF Queues!PredecessorOf
<1>5. \A a \in queue[e] : Queues!PredecessorOf(o)[1] < a.frame
  BY <1>1, <1>2, <1>3, <1>4, FirstIsLowest
<1>6. QueuesTyped'
  BY <1>1, <1>4 DEF Queues!Predecessor, QueuesInv, QueuesTyped
<1>7. /\ pending'[e] = Queues!PredecessorOf(o) /\ queue' = queue
      /\ \A f \in Engines : f # e => pending'[f] = pending[f] /\ at'[f] = at[f]
  BY <1>1 DEF Queues!Predecessor, QueuesInv, QueuesTyped
<1> QED
  BY <1>5, <1>6, <1>7 DEF QueuesInv, PendingIsFirst

LEMMA InvCounter ==
  ASSUME QueuesInv, NEW e \in Engines, Queues!ReadCount(e) \/ Queues!WriteCount(e) \/ Queues!Return(e)
  PROVE  QueuesInv'
<1>1. QueuesTyped'
  <2>1. CASE Queues!ReadCount(e)
    BY <2>1 DEF Queues!ReadCount, QueuesInv, QueuesTyped
  <2>2. CASE Queues!WriteCount(e)
    <3>1. reg[e] + 1 \in Int
      BY DEF QueuesInv, QueuesTyped
    <3> QED
      BY <2>2, <3>1 DEF Queues!WriteCount, QueuesInv, QueuesTyped
  <2>3. CASE Queues!Return(e)
    BY <2>3 DEF Queues!Return, QueuesInv, QueuesTyped
  <2> QED
    BY <2>1, <2>2, <2>3
<1>2. UNCHANGED <<pending, queue>>
  BY DEF Queues!ReadCount, Queues!WriteCount, Queues!Return
<1>3. \A f \in Engines : at'[f] \in {"new", "write", "index"} => at[f] \in {"new", "write", "index"}
  <2>1. at \in [Engines -> {"new", "write", "index", "block", "done"}]
    BY DEF QueuesInv, QueuesTyped
  <2>2. CASE Queues!ReadCount(e)
    BY <2>1, <2>2 DEF Queues!ReadCount
  <2>3. CASE Queues!WriteCount(e)
    BY <2>1, <2>3 DEF Queues!WriteCount
  <2>4. CASE Queues!Return(e)
    BY <2>1, <2>4 DEF Queues!Return
  <2> QED
    BY <2>2, <2>3, <2>4
<1> QED
  BY <1>1, <1>2, <1>3 DEF QueuesInv, PendingIsFirst

LEMMA QueuesNext == QueuesInv /\ Queues!Next => QueuesInv'
<1> SUFFICES ASSUME QueuesInv, Queues!Next PROVE QueuesInv'
  OBVIOUS
<1>1. CASE UNCHANGED Queues!vars
  BY <1>1 DEF Queues!vars, QueuesInv, QueuesTyped, PendingIsFirst
<1>2. CASE \E e \in Engines : \/ Queues!ReadCount(e) \/ Queues!WriteCount(e) \/ Queues!TakeIndex(e) \/ Queues!Blocked(e)
                              \/ Queues!Predecessor(e) \/ Queues!GivenUp(e) \/ Queues!Return(e)
  BY <1>2, InvCounter, InvTakeIndex, InvBlocked, InvPredecessor, InvGivenUp
<1> QED
  BY <1>1, <1>2 DEF Queues!Next, Queues!Stop

LEMMA QueuesInit == Queues!Init => QueuesInv
BY TopAssumption DEF Queues!Init, QueuesInv, QueuesTyped, PendingIsFirst

(* A new state is made by TakeIndex alone. *)
LEMMA MadeByTakeIndex ==
  ASSUME QueuesInv, Queues!Next, NEW e \in Engines, made'[e] > made[e]
  PROVE  Queues!TakeIndex(e)
<1>1. CASE UNCHANGED made
  BY <1>1 DEF QueuesInv, QueuesTyped
<1>2. CASE \E f \in Engines : Queues!TakeIndex(f)
  <2>1. PICK f \in Engines : Queues!TakeIndex(f)
    BY <1>2
  <2>2. f # e => made'[e] = made[e] /\ made[e] \in Nat
    BY <2>1 DEF Queues!TakeIndex, QueuesInv, QueuesTyped
  <2> QED
    BY <2>1, <2>2
<1> QED
  BY <1>1, <1>2 DEF Queues!Next, Queues!vars, Queues!Stop, Queues!ReadCount, Queues!WriteCount, Queues!Blocked, Queues!Predecessor, Queues!GivenUp, Queues!Return

LEMMA NewStateFirst == QueuesInv /\ Queues!Next => Queues!QueuesNewState
<1> SUFFICES ASSUME QueuesInv, Queues!Next, NEW e \in Engines, made'[e] > made[e]
             PROVE  \E o \in queue'[e] : o.id = made'[e] /\ Queues!IsFirst(queue'[e], o)
  BY DEF Queues!QueuesNewState
<1>1. Queues!TakeIndex(e)
  BY MadeByTakeIndex
<1>2. PICK o \in Key : /\ o.id = made[e] + 1 /\ o.frame = pending[e][1]
                       /\ queue' = [queue EXCEPT ![e] = Queues!insert(@, o)]
  BY <1>1, TakeIndexKey
<1>3. queue[e] \in SUBSET Key /\ queue'[e] = Queues!insert(queue[e], o) /\ made'[e] = made[e] + 1
  BY <1>1, <1>2 DEF Queues!TakeIndex, QueuesInv, QueuesTyped
<1>4. \A a \in queue[e] : o.frame < a.frame
  BY <1>1, <1>2 DEF Queues!TakeIndex, QueuesInv, PendingIsFirst
<1>5. o \in Queues!insert(queue[e], o) /\ Queues!IsFirst(Queues!insert(queue[e], o), o)
  BY <1>3, <1>4, InsertFirst
<1> QED
  BY <1>2, <1>3, <1>5
-----------------------------------------------------------------------------
(* Both parts in one model: a behaviour is one of either. *)
PartsInv ==
  \/ part = "simplify" /\ SimpInv
  \/ part = "queues" /\ QueuesInv /\ pc = "none"

LEMMA PartsInit == MCInit => PartsInv
BY SimpInit, QueuesInit DEF MCInit, PartsInv

LEMMA PartsNext == PartsInv /\ [MCNext]_allvars => PartsInv'
<1> SUFFICES ASSUME PartsInv, [MCNext]_allvars PROVE PartsInv'
  OBVIOUS
<1>1. CASE part = "simplify" /\ SimpInv
  <2>1. [Next]_vars /\ part' = part
    BY <1>1 DEF MCNext, allvars
  <2> QED
    BY <1>1, <2>1, SimpNext DEF PartsInv
<1>2. CASE part = "queues" /\ QueuesInv /\ pc = "none"
  <2>1. CASE Queues!Next /\ UNCHANGED <<part, pc>>
    BY <1>2, <2>1, QueuesNext DEF PartsInv
  <2>2. CASE UNCHANGED allvars
    <3>1. UNCHANGED <<part, pc, state_count, at, reg, made, pending, queue>>
      BY <2>2 DEF allvars, vars, own, work
    <3> QED
      BY <1>2, <3>1 DEF PartsInv, QueuesInv, QueuesTyped, PendingIsFirst
  <2> QED
    BY <1>2, <2>1, <2>2 DEF MCNext
<1> QED
  BY <1>1, <1>2 DEF PartsInv

(* For every formula PDR may encode, every choice of frozen variables, all *)
(* bounds of eliminateVar and every order of the queues: what eliminate    *)
(* leaves of it, removed clauses among it or not, is satisfiable with      *)
(* exactly the values of the frozen variables the formula allows, and a    *)
(* contradiction is never invented.                                        *)
THEOREM TranslationIsExact == MCSpec => []TranslationExact
<1>1. PartsInv => TranslationExact
  BY ExactFromInv DEF PartsInv, TranslationExact
<1> QED
  BY <1>1, PartsInit, PartsNext, PTL DEF MCSpec

(* Whatever was eliminated in whatever order, extendModel turns a model of *)
(* the clauses that are left into one of everything that was added.        *)
THEOREM ModelIsExtended == MCSpec => []ModelExtended
<1>1. PartsInv => ModelExtended
  BY ExtendedFromInv DEF PartsInv, ModelExtended
<1> QED
  BY <1>1, PartsInit, PartsNext, PTL DEF MCSpec

(* However many threads race on state_count, whatever indices the states   *)
(* of an engine get, and however deep its queue: TakeIndex's insertion of  *)
(* the obligation of a new state into the std::set is never dropped as     *)
(* equivalent to one that is there, and the next iteration works on it.    *)
THEOREM NewStateIsQueued == MCSpec => NewStateQueued
<1>1. PartsInv /\ [MCNext]_allvars => [part = "queues" => Queues!QueuesNewState]_allvars
  <2> SUFFICES ASSUME PartsInv, MCNext, part = "queues" PROVE Queues!QueuesNewState
    OBVIOUS
  <2>1. QueuesInv /\ Queues!Next
    BY DEF PartsInv, MCNext
  <2> QED
    BY <2>1, NewStateFirst
<1> QED
  BY <1>1, PartsInit, PartsNext, PTL DEF MCSpec, NewStateQueued
=============================================================================
