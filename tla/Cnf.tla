-------------------------------- MODULE Cnf --------------------------------
(***************************************************************************)
(* Propositional clauses.  A literal is a variable or its negation as in   *)
(* DIMACS, a clause a set of literals, an assignment the set of the        *)
(* literals it makes true: total when it has one of l and -l for every     *)
(* variable.  These are the reference notions the solvers' models are      *)
(* checked against; UnitClosure is the effect of Boolean constraint        *)
(* propagation, whatever data structure performs it.                       *)
(***************************************************************************)
EXTENDS Integers, FiniteSets

CONSTANT N   \* number of variables

ASSUME NAssumption == N \in Nat \ {0}

Var == 1 .. N
Lit == (-N .. N) \ {0}
VarOf(l) == IF l < 0 THEN -l ELSE l
VarsOf(c) == {VarOf(l) : l \in c}
Negated(c) == {-l : l \in c}

Tautology(c) == \E l \in c : -l \in c

Total == {{IF b[v] THEN v ELSE -v : v \in Var} : b \in [Var -> BOOLEAN]}

Satisfies(a, F) == \A c \in F : a \cap c /= {}
Models(F) == {a \in Total : Satisfies(a, F)}
Satisfiable(F) == \E a \in Total : Satisfies(a, F)
Implies(F, c) == \A a \in Total : Satisfies(a, F) => a \cap c /= {}

(* Satisfiable with the same assignments of the variables in V.            *)
Onto(V, M) == {{l \in a : VarOf(l) \in V} : a \in M}
SameOn(V, F, G) == Onto(V, Models(F)) = Onto(V, Models(G))

Resolvent(c, d, l) == (c \ {l}) \cup (d \ {-l})

(* The literals unit propagation adds to the assignment a; Lit when it     *)
(* meets a falsified clause.                                               *)
UnitStep(F, a) ==
  IF \E c \in F : c \subseteq Negated(a) THEN Lit
  ELSE a \cup {l \in Lit : \E c \in F : l \in c /\ c \ {l} \subseteq Negated(a)}

UnitClosure(F, a) ==
  LET up[k \in 0 .. 2 * N] == IF k = 0 THEN a ELSE UnitStep(F, up[k - 1])
  IN up[2 * N]

Conflicts(a) == \E l \in a : -l \in a

(* Reverse unit propagation: the check a clausal proof checker makes.      *)
Rup(F, c) == Conflicts(UnitClosure(F, Negated(c)))

=============================================================================
