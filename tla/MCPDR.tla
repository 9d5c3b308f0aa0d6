------------------------------- MODULE MCPDR -------------------------------
(***************************************************************************)
(* Small circuits for PDR: three latches and one input bit.                *)
(***************************************************************************)
EXTENDS PDR

Latch == 1 .. 3
Bit == {0, 1}

MCLit == Latch \cup {-l : l \in Latch}
StateOf(on) == on \cup {-l : l \in Latch \ on}   \* the latches of on are set
MCState == {StateOf(on) : on \in SUBSET Latch}

MkCircuit(init, On(_, _), Bad(_, _), Cons(_, _)) ==
  [init |-> init,
   next |-> [p \in MCState \X Bit |-> StateOf(On(p[1], p[2]))],
   bad  |-> {p \in MCState \X Bit : Bad(p[1], p[2])},
   cons |-> {p \in MCState \X Bit : Cons(p[1], p[2])}]

Always(x, i) == TRUE
Zero == {-1, -2, -3}

(* A counter that wraps after 4; 7 is bad and never reached. *)
Value(x) == Cardinality(x \cap {1}) + 2 * Cardinality(x \cap {2}) + 4 * Cardinality(x \cap {3})
Bits(n) == {l \in Latch : (n \div 2^(l - 1)) % 2 = 1}
WrapCounter ==
  MkCircuit(Zero, LAMBDA x, i : Bits(IF Value(x) = 4 THEN 0 ELSE (Value(x) + i) % 8),
            LAMBDA x, i : Value(x) = 7, Always)

(* A shift register: three ones in a row are bad, reached in three steps. *)
Shift ==
  MkCircuit(Zero, LAMBDA x, i : (IF i = 1 THEN {1} ELSE {}) \cup (IF 1 \in x THEN {2} ELSE {})
                                 \cup (IF 2 \in x THEN {3} ELSE {}),
            LAMBDA x, i : {1, 2, 3} \subseteq x, Always)

(* The same register where the input may only be set when the first stage is not. *)
ConstrainedShift ==
  MkCircuit(Zero, LAMBDA x, i : (IF i = 1 THEN {1} ELSE {}) \cup (IF 1 \in x THEN {2} ELSE {})
                                 \cup (IF 2 \in x THEN {3} ELSE {}),
            LAMBDA x, i : {1, 2} \subseteq x /\ i = 0,
            LAMBDA x, i : ~(1 \in x /\ i = 1))

(* A counter of the steps in which the input is set: 6 is bad. *)
Counter ==
  MkCircuit(Zero, LAMBDA x, i : Bits((Value(x) + i) % 8), LAMBDA x, i : Value(x) = 6, Always)

(* Doubling: 6 is bad and has many predecessors. *)
Doubler ==
  MkCircuit(Zero, LAMBDA x, i : Bits((2 * Value(x) + 3 * i) % 8), LAMBDA x, i : Value(x) = 6, Always)

(* Bad in the initial state, and after one step. *)
BadAtOnce == MkCircuit(Zero, LAMBDA x, i : {1}, LAMBDA x, i : i = 1, Always)
BadNext   == MkCircuit(Zero, LAMBDA x, i : {1}, LAMBDA x, i : 1 \in x /\ i = 1, Always)

(* A latch without a reset value: mutual exclusion of latches 1 and 2 under arbiter 3. *)
Uninitialised ==
  MkCircuit({-1, -2},
            LAMBDA x, i : (IF i = 1 /\ 3 \in x /\ 2 \notin x THEN {1} ELSE {})
                     \cup (IF i = 1 /\ 3 \notin x /\ 1 \notin x THEN {2} ELSE {})
                     \cup (IF 3 \in x THEN {} ELSE {3}),
            LAMBDA x, i : {1, 2} \subseteq x, Always)

(* No initial state meets the constraint. *)
NoInitial ==
  MkCircuit(Zero, LAMBDA x, i : {1}, LAMBDA x, i : 1 \in x, LAMBDA x, i : 1 \in x)

(* Bad is asserted under an input the constraint forbids: the circuit is safe. *)
BadOutsideConstraint ==
  MkCircuit(Zero, LAMBDA x, i : {1} \cup (IF 1 \in x THEN {2} ELSE {})
                                 \cup (IF 2 \in x /\ i = 1 THEN {3} ELSE {}),
            LAMBDA x, i : 3 \in x \/ (1 \in x /\ i = 1),
            LAMBDA x, i : ~(1 \in x /\ i = 1))

(* The initial state is left for good, and 7 is never reached. *)
Ratchet ==
  MkCircuit(Zero, LAMBDA x, i : {1} \cup (IF 2 \in x THEN {3} ELSE {}) \cup (IF 2 \in x /\ i = 1 THEN {2} ELSE {}),
            LAMBDA x, i : {1, 2, 3} \subseteq x, Always)

(* From 1 the input that leads to 4 and then 7 is forbidden, from 3 it is not. *)
Detour ==
  MkCircuit(Zero, LAMBDA x, i : Bits(CASE Value(x) = 0 -> 1
                                       [] Value(x) \in {1, 3} /\ i = 1 -> 4
                                       [] Value(x) = 4 -> 7
                                       [] OTHER -> Value(x)),
            LAMBDA x, i : Value(x) = 7, LAMBDA x, i : ~(Value(x) = 1 /\ i = 1))

(* A counter without input: 4 is bad, after four steps. *)
CountToFour ==
  MkCircuit(Zero, LAMBDA x, i : Bits(IF Value(x) < 4 THEN Value(x) + 1 ELSE 0),
            LAMBDA x, i : Value(x) = 4, Always)

(* Even parity is kept: every lemma needs all three latches. *)
Parity ==
  MkCircuit(Zero, LAMBDA x, i : Bits(CASE Value(x) = 0 -> 3 [] Value(x) = 3 -> 5 [] Value(x) = 5 -> 6
                                       [] Value(x) = 6 -> 0 [] Value(x) = 1 -> 7 [] OTHER -> 1),
            LAMBDA x, i : Value(x) = 7, Always)

SmallCircuits ==
  {WrapCounter, Shift, ConstrainedShift, BadAtOnce, BadNext, Uninitialised, NoInitial, CountToFour}
SeqCircuits == SmallCircuits \cup {Counter, Doubler, Ratchet, Detour, Parity}
SpuriousCircuits == {BadOutsideConstraint}

(* Every circuit of two latches and no input on which bad is admissible.   *)
Lit2 == {1, -1, 2, -2}
State2 == {{1, 2}, {1, -2}, {-1, 2}, {-1, -2}}
Closed2 == {0}
Init2 == {{}, {-1}, {-1, -2}}
Circuits2 ==
  {c \in [init : Init2, next : [State2 \X Closed2 -> State2],
          bad : SUBSET (State2 \X Closed2), cons : SUBSET (State2 \X Closed2)] :
     BadIsAdmissible(c)}

MCPunish == <<0, 1, 2>>
=============================================================================
