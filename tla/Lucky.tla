------------------------------- MODULE Lucky -------------------------------
(***************************************************************************)
(* lucky_phases: before CDCL starts, and only without assumptions and      *)
(* constraint, CaDiCaL tries eight ways to guess a model: all variables    *)
(* false or true, the same in the order of the variables with propagation, *)
(* forward and backward, and one literal per clause (the Horn cases).      *)
(* Clauses are scanned in any order and their literals too: the arena has  *)
(* them in the order of the last garbage collection.                       *)
(***************************************************************************)
EXTENDS Cnf, Sequences

CONSTANT Formulas   \* sets of irredundant clauses

VARIABLES
  irredundant, redundant,
  trail,       \* the literals that are true
  phase,       \* number of the way that is tried
  pc,          \* scanning clauses, assigning variables, done
  left,        \* clauses still to scan
  terminated,  \* termination_forced
  res

vars == <<irredundant, redundant, trail, phase, pc, left, terminated, res>>
formula == <<irredundant, redundant>>

(* The order of lucky_phases.                                              *)
Ways ==
  << [kind |-> "constant", sign |-> -1], [kind |-> "constant", sign |-> 1],
     [kind |-> "forward", sign |-> 1], [kind |-> "forward", sign |-> -1],
     [kind |-> "backward", sign |-> -1], [kind |-> "backward", sign |-> 1],
     [kind |-> "horn", sign |-> 1], [kind |-> "horn", sign |-> -1] >>
Way == Ways[phase]

Root == UnitClosure(irredundant \cup redundant, {})
Start(p) == IF p <= Len(Ways) /\ Ways[p].kind \in {"constant", "horn"} THEN "scan" ELSE "assign"

Init ==
  /\ irredundant \in Formulas
  /\ redundant \in {{}} \cup {{{k, l}} : k, l \in Lit}
  /\ \A c \in redundant : ~Tautology(c) /\ Implies(irredundant, c)
  /\ trail = Root /\ ~Conflicts(Root)
  /\ phase = 1 /\ pc = "scan" /\ left = irredundant
  /\ terminated = FALSE /\ res = 0

(* unlucky: back to the root level, the conflict is forgotten, and the     *)
(* next way is tried.                                                      *)
unlucky ==
  /\ trail' = Root /\ phase' = phase + 1 /\ left' = irredundant
  /\ pc' = IF phase = Len(Ways) THEN "done" ELSE Start(phase + 1)

(* search_assume_decision and propagate, over redundant clauses too.       *)
Decided(l) == UnitClosure(irredundant \cup redundant, trail \cup {l})

Try(l) ==
  IF Conflicts(Decided(l)) THEN unlucky
  ELSE trail' = Decided(l) /\ UNCHANGED <<phase, pc>>

(* The scans skip a clause that is satisfied.                              *)
Open(c) == c \cap trail = {}

Candidates(c) == {l \in c : -l \notin trail /\ l * Way.sign > 0}

(* The constant cases: every clause that is not satisfied needs a literal  *)
(* of the sign that is not false.                                          *)
ScanConstant ==
  /\ pc = "scan" /\ Way.kind = "constant"
  /\ IF \E c \in irredundant : Open(c) /\ Candidates(c) = {} THEN unlucky
     ELSE pc' = "assign" /\ UNCHANGED <<trail, phase, left>>
  /\ UNCHANGED <<formula, terminated, res>>

(* The Horn cases: such a literal of the clause is decided, even in a      *)
(* satisfied clause if it comes before the true literal.                   *)
ScanHorn ==
  /\ pc = "scan" /\ Way.kind = "horn"
  /\ \/ /\ left = {} /\ pc' = "assign" /\ UNCHANGED <<trail, phase, left>>
     \/ \E c \in left :
          \/ ~Open(c) /\ left' = left \ {c} /\ UNCHANGED <<trail, phase, pc>>
          \/ Open(c) /\ Candidates(c) = {} /\ unlucky
          \/ \E l \in Candidates(c) \ trail :
               /\ Try(l)
               /\ ~Conflicts(Decided(l)) => left' = left \ {c}
  /\ UNCHANGED <<formula, terminated, res>>

(* The other variables; the Horn cases give them the opposite sign.        *)
Unassigned == {v \in Var : {v, -v} \cap trail = {}}
NextVar ==
  IF Way.kind = "backward" THEN CHOOSE v \in Unassigned : \A w \in Unassigned : w <= v
  ELSE CHOOSE v \in Unassigned : \A w \in Unassigned : v <= w
Sign == IF Way.kind = "horn" THEN -Way.sign ELSE Way.sign

Assign ==
  /\ pc = "assign"
  /\ IF Unassigned = {}
     THEN res' = 10 /\ pc' = "done" /\ UNCHANGED <<trail, phase, left>>
     ELSE /\ Try(Sign * NextVar)
          /\ ~Conflicts(Decided(Sign * NextVar)) => UNCHANGED left
          /\ UNCHANGED res
  /\ UNCHANGED <<formula, terminated>>

(* terminated_asynchronously, polled in every loop.                        *)
Terminate ==
  /\ pc /= "done"
  /\ trail' = Root /\ pc' = "done" /\ terminated' = TRUE
  /\ UNCHANGED <<formula, phase, left, res>>

Done == pc = "done" /\ UNCHANGED vars

Next == ScanConstant \/ ScanHorn \/ Assign \/ Terminate \/ Done

Spec == Init /\ [][Next]_vars

-----------------------------------------------------------------------------
(***************************************************************************)
(* The answer 10 of lucky_phases is the answer of solve: the assignment    *)
(* left on the trail is a model.  Without it the trail is back at the root *)
(* level, where CDCL starts.                                               *)
(***************************************************************************)
LuckyIsModel ==
  pc = "done" => IF res = 10 THEN trail \in Models(irredundant) ELSE trail = Root

(***************************************************************************)
(* The comment on the Horn cases says they test for satisfiable Horn       *)
(* formulas.  None of them gets that far: the constant cases already find  *)
(* every satisfiable Horn formula, of either polarity, whatever redundant  *)
(* clauses are propagated and whatever the root level has fixed.           *)
(***************************************************************************)
Horn(sign) == \A c \in irredundant : Cardinality({l \in c : l * sign > 0}) <= 1
HornIsLucky ==
  pc = "done" /\ ~terminated /\ Satisfiable(irredundant) /\ (Horn(1) \/ Horn(-1))
    => res = 10 /\ phase <= 2

=============================================================================
