------------------------------- MODULE Gates -------------------------------
(***************************************************************************)
(* The circuit as translate_to_dimacs leaves it: variable 1 is false, then *)
(* come the inputs, the latches and the AND gates, whose fan-ins precede   *)
(* them; a literal is a variable or its negation.  Settle and Frame are    *)
(* the meaning of such a circuit, the reference the unfolding is checked   *)
(* against.                                                                *)
(***************************************************************************)
EXTENDS Integers, Sequences

CONSTANT Circuits

LitOf(n) == (-n .. n) \ {0}

NumVars(c) == 1 + c.num_inputs + c.num_latches + Len(c.ands)

InputVar(c, i) == 1 + i
LatchVar(c, i) == 1 + c.num_inputs + i
AndVar(c, i)   == 1 + c.num_inputs + c.num_latches + i

IsCircuit(c) ==
  /\ c.num_inputs \in Nat /\ c.num_latches \in Nat
  /\ c.ands \in Seq([i1 : Int, i2 : Int]) /\ Len(c.ands) \in Nat
  /\ \A i \in 1 .. Len(c.ands) :
       c.ands[i].i1 \in LitOf(AndVar(c, i) - 1) /\ c.ands[i].i2 \in LitOf(AndVar(c, i) - 1)
  /\ c.nexts \in [1 .. c.num_latches -> LitOf(NumVars(c))]
  /\ c.init_state \subseteq                      \* the reset values, at most one of a latch
       {l \in LitOf(NumVars(c)) : \E j \in 1 .. c.num_latches : l = LatchVar(c, j) \/ l = -LatchVar(c, j)}
  /\ \A l \in c.init_state : -l \notin c.init_state
  /\ c.constraints \subseteq LitOf(NumVars(c))
  /\ c.bad \in LitOf(NumVars(c))

ASSUME CircuitsAssumption == \A c \in Circuits : IsCircuit(c)

Abs(l) == IF l < 0 THEN -l ELSE l

(* The value of a literal under the values v of the variables. *)
Holds(v, l) == IF l > 0 THEN v[l] ELSE ~v[-l]

(***************************************************************************)
(* The values of all variables under latch values x and input values i.    *)
(***************************************************************************)
Settle(c, x, i) ==
  LET v[n \in 1 .. NumVars(c)] ==
        IF n = 1 THEN FALSE
        ELSE IF n <= InputVar(c, c.num_inputs) THEN i[n - 1]
        ELSE IF n <= LatchVar(c, c.num_latches) THEN x[n - 1 - c.num_inputs]
        ELSE LET a == c.ands[n - AndVar(c, 0)] IN Holds(v, a.i1) /\ Holds(v, a.i2)
  IN v

(* The latch values of frame k when the first frame has x, the inputs ins. *)
Latches(c, x, ins, k) ==
  LET l[n \in 1 .. k] ==
        IF n = 1 THEN x
        ELSE LET v == Settle(c, l[n - 1], ins[n - 1])
             IN [j \in 1 .. c.num_latches |-> Holds(v, c.nexts[j])]
  IN l[k]

Frame(c, x, ins, k) == Settle(c, Latches(c, x, ins, k), ins[k])

=============================================================================
