-------------------------------- MODULE BMC --------------------------------
(***************************************************************************)
(* One BMC engine (BMC.cpp): the circuit is unfolded frame by frame into   *)
(* AND gates over the first latches and the inputs of all frames,          *)
(* simplified on the way; the gates a frame needs go to an incremental     *)
(* solver, which is asked for bad in the frames this thread is in charge   *)
(* of.  The verdict's publication is in module Portfolio.                  *)
(***************************************************************************)
EXTENDS Gates

CONSTANTS
  nframes,        \* the last frame (option -findbug plus one)
  ThreadCounts    \* the numbers of BMC threads considered

ASSUME OptionsAssumption == nframes \in Nat /\ ThreadCounts \subseteq Nat \ {0}

VARIABLES
  ckt,            \* the circuit (the base class Aiger)
  thread_index,
  max_thread_index,  \* the number of BMC threads
  pc,             \* where check() is
  bmc_frame_k,
  values,         \* variable of the circuit -> literal of the unfolding
  uaiger,         \* the unfolding: nodes.size(), ands, inputs, last constraints, last output
  lit_has_insert, \* the gates the solver holds
  units,          \* the literals the solver holds
  witness         \* node -> value, for the leaves the solver assigned

vars ==
  <<ckt, thread_index, max_thread_index, pc, bmc_frame_k, values, uaiger, lit_has_insert, units,
    witness>>

value(vs, l) == IF l > 0 THEN vs[l] ELSE -vs[-l]

first_ands_index == AndVar(ckt, 1)
Fanins(p) ==   \* pfana, pfanb
  IF Abs(p) >= first_ands_index
  THEN LET a == ckt.ands[Abs(p) - first_ands_index + 1] IN <<a.i1, a.i2>>
  ELSE <<Abs(p), -1>>

Child(vs, p, w) == \E f \in {Fanins(p)[1], Fanins(p)[2]} : value(vs, f) = w

(* Mutant: the fan-in that equals the other literal is negated. *)
RewrittenSwapped(vs, and, q, v, w) ==
  LET a == Fanins(q)[1]
      b == Fanins(q)[2]
  IN IF Child(vs, q, -w) THEN IF q < 0 THEN w ELSE 1
     ELSE IF q > 0 THEN v
     ELSE IF value(vs, b) = w THEN and[<<-b, a>>] ELSE and[<<-a, b>>]

(* The literal q, of value v, is conjoined with one of value w, which is   *)
(* the value of one of its fan-ins or of its negation.                     *)
Rewritten(vs, and, q, v, w) ==
  LET a == Fanins(q)[1]
      b == Fanins(q)[2]
  IN IF Child(vs, q, -w) THEN IF q < 0 THEN w ELSE 1
     ELSE IF q > 0 THEN v
     ELSE IF value(vs, b) = w THEN and[<<-a, b>>] ELSE and[<<-b, a>>]

(***************************************************************************)
(* Aig_And(p0, p1): a literal of the unfolding equal to the conjunction of *)
(* two literals of the circuit, or 0 when no rule applies.                 *)
(***************************************************************************)
Aig_And(vs, p0, p1) ==
  LET and[p \in LitOf(NumVars(ckt)) \X LitOf(NumVars(ckt))] ==
        LET v0 == value(vs, p[1])
            v1 == value(vs, p[2])
        IN IF v0 = v1 THEN v0
           ELSE IF v0 = -v1 THEN 1
           ELSE IF Abs(v0) = 1 THEN IF v0 = -1 THEN v1 ELSE 1
           ELSE IF Abs(v1) = 1 THEN IF v1 = -1 THEN v0 ELSE 1
           ELSE IF Abs(p[1]) < first_ands_index /\ Abs(p[2]) < first_ands_index THEN 0
           ELSE IF Child(vs, p[1], v1) \/ Child(vs, p[1], -v1) THEN Rewritten(vs, and, p[1], v0, v1)
           ELSE IF Child(vs, p[2], v0) \/ Child(vs, p[2], -v0) THEN Rewritten(vs, and, p[2], v1, v0)
           ELSE 0
  IN and[<<p0, p1>>]

-----------------------------------------------------------------------------
Latch == {LatchVar(ckt, j) : j \in 1 .. ckt.num_latches}

(* False, the reset values, and a node of its own for a latch without one. *)
FirstValue(v) ==
  IF v = 1 \/ -v \in ckt.init_state THEN 1
  ELSE IF v \in ckt.init_state THEN -1
  ELSE IF v \in Latch THEN v - ckt.num_inputs ELSE 0

initialize ==
  /\ pc = "initialize"
  /\ values' = [v \in 1 .. NumVars(ckt) |-> FirstValue(v)]
  /\ uaiger' = [nodes |-> 2 + ckt.num_latches, ands |-> << >>, inputs |-> << >>,
                constraints |-> {}, output |-> 0]
  /\ lit_has_insert' = {} /\ units' = {-1}
  /\ bmc_frame_k' = 1
  /\ pc' = "unfold"
  /\ UNCHANGED <<ckt, thread_index, max_thread_index, witness>>

(* hash_table: a gate of the unfolding with the fan-ins i1 and i2. *)
Hashed(u, i1, i2) ==
  {n \in 1 .. Len(u.ands) : <<u.ands[n].i1, u.ands[n].i2>> \in {<<i1, i2>>, <<i2, i1>>}}

(* Gate i of the circuit is unfolded: simplified, found again, or new. *)
UnfoldAnd(s, i) ==
  LET o  == AndVar(ckt, i)
      i1 == value(s.values, ckt.ands[i].i1)
      i2 == value(s.values, ckt.ands[i].i2)
      v  == Aig_And(s.values, ckt.ands[i].i1, ckt.ands[i].i2)
      h  == Hashed(s.u, i1, i2)
  IN IF v # 0 THEN [s EXCEPT !.values[o] = v]
     ELSE IF h # {} THEN [s EXCEPT !.values[o] = s.u.ands[CHOOSE n \in h : TRUE].o]
     ELSE [values |-> [s.values EXCEPT ![o] = s.u.nodes],
           u |-> [s.u EXCEPT !.nodes = @ + 1,
                             !.ands = Append(@, [o |-> s.u.nodes, i1 |-> i1, i2 |-> i2])]]

unfold ==
  LET n == uaiger.nodes
      inputs == [i \in 1 .. ckt.num_inputs |-> n + i - 1]
      s0 == [values |-> [v \in DOMAIN values |->
                           IF v \in 2 .. ckt.num_inputs + 1 THEN inputs[v - 1] ELSE values[v]],
             u |-> [uaiger EXCEPT !.nodes = n + ckt.num_inputs, !.inputs = @ \o inputs]]
      s[i \in 0 .. Len(ckt.ands)] == IF i = 0 THEN s0 ELSE UnfoldAnd(s[i - 1], i)
      done == s[Len(ckt.ands)]
  IN /\ pc = "unfold" /\ bmc_frame_k <= nframes
     /\ uaiger' = [done.u EXCEPT !.constraints = {value(done.values, l) : l \in ckt.constraints},
                                 !.output = value(done.values, ckt.bad)]
     /\ values' = [v \in DOMAIN values |->
          IF v \in Latch THEN value(done.values, ckt.nexts[v - LatchVar(ckt, 0)]) ELSE done.values[v]]
     /\ pc' = "solve"
     /\ UNCHANGED <<ckt, thread_index, max_thread_index, bmc_frame_k, lit_has_insert, units, witness>>

(***************************************************************************)
(* solve_one_frame.                                                        *)
(***************************************************************************)
(* Mutant: the gates of the constraints are not collected. *)
ConeOfOutput ==
  LET ands == uaiger.ands
      lit_set[i \in 0 .. Len(ands)] ==
        IF i = Len(ands) THEN {Abs(uaiger.output)}
        ELSE IF i + 1 \notin lit_has_insert /\ ands[i + 1].o \in lit_set[i + 1]
             THEN lit_set[i + 1] \cup {Abs(ands[i + 1].i1), Abs(ands[i + 1].i2)}
             ELSE lit_set[i + 1]
  IN {i \in 1 .. Len(ands) : ands[i].o \in lit_set[i]} \ lit_has_insert

(* lit_set when the gates above i have been looked at: the cone of the     *)
(* last output and constraints, down to gates the solver holds already.    *)
Cone ==
  LET ands == uaiger.ands
      lit_set[i \in 0 .. Len(ands)] ==
        IF i = Len(ands) THEN {Abs(l) : l \in uaiger.constraints \cup {uaiger.output}}
        ELSE IF i + 1 \notin lit_has_insert /\ ands[i + 1].o \in lit_set[i + 1]
             THEN lit_set[i + 1] \cup {Abs(ands[i + 1].i1), Abs(ands[i + 1].i2)}
             ELSE lit_set[i + 1]
  IN {i \in 1 .. Len(ands) : ands[i].o \in lit_set[i]} \ lit_has_insert

Inserted == lit_has_insert \cup Cone

Asserted == units \cup uaiger.constraints

(* The variables of a solver that holds the gates gs and the literals us,  *)
(* and those of them no gate defines.                                      *)
Mentioned(gs, us) ==
  {1} \cup {Abs(l) : l \in us}
  \cup UNION {{uaiger.ands[g].o, Abs(uaiger.ands[g].i1), Abs(uaiger.ands[g].i2)} : g \in gs}
Free(gs, us) == Mentioned(gs, us) \ {uaiger.ands[g].o : g \in gs}

(* The values of these variables when the free ones have the values a. *)
NodeValues(gs, a) ==
  LET v[n \in DOMAIN a \cup {uaiger.ands[g].o : g \in gs}] ==
        IF n \in DOMAIN a THEN a[n]
        ELSE LET g == uaiger.ands[CHOOSE g \in gs : uaiger.ands[g].o = n]
             IN Holds(v, g.i1) /\ Holds(v, g.i2)
  IN v

Models(gs, us) ==
  {a \in [Free(gs, us) -> BOOLEAN] : LET v == NodeValues(gs, a) IN \A l \in us : Holds(v, l)}

Skips == max_thread_index # 1 /\ bmc_frame_k % max_thread_index # thread_index

Query == Models(Inserted, Asserted \cup {uaiger.output})

(* Mutant: a skipped frame leaves the solver as it is. *)
NotAssertedUnlessAsked ==
  /\ pc = "solve" /\ (Skips \/ Query = {})
  /\ lit_has_insert' = Inserted
  /\ units' = IF Skips THEN Asserted ELSE Asserted \cup {-uaiger.output}
  /\ bmc_frame_k' = bmc_frame_k + 1
  /\ pc' = "unfold"
  /\ UNCHANGED <<ckt, thread_index, max_thread_index, values, uaiger, witness>>

(* The frame is skipped, or bad cannot be asserted in it. *)
NotAsserted ==
  /\ pc = "solve" /\ (Skips \/ Query = {})
  /\ lit_has_insert' = Inserted
  /\ units' = Asserted \cup {-uaiger.output}
  /\ bmc_frame_k' = bmc_frame_k + 1
  /\ pc' = "unfold"
  /\ UNCHANGED <<ckt, thread_index, max_thread_index, values, uaiger, witness>>

Leaf ==   \* the first latches and the inputs of all frames
  (2 .. 1 + ckt.num_latches) \cup {uaiger.inputs[i] : i \in DOMAIN uaiger.inputs}

AssertedInFrame ==
  /\ pc = "solve" /\ ~Skips
  /\ \E a \in Query : witness' = [n \in Leaf \cap DOMAIN a |-> a[n]]
  /\ lit_has_insert' = Inserted
  /\ units' = Asserted
  /\ pc' = "found"
  /\ UNCHANGED <<ckt, thread_index, max_thread_index, bmc_frame_k, values, uaiger>>

(* RESULT is set by another engine: the head of the loop, or the solver's *)
(* terminate callback.                                                     *)
Interrupted ==
  /\ pc \in {"unfold", "solve"}
  /\ pc' = "done"
  /\ UNCHANGED <<ckt, thread_index, max_thread_index, bmc_frame_k, values, uaiger, lit_has_insert,
                 units, witness>>

LoopEnds ==
  /\ pc = "unfold" /\ bmc_frame_k > nframes
  /\ pc' = "done"
  /\ UNCHANGED <<ckt, thread_index, max_thread_index, bmc_frame_k, values, uaiger, lit_has_insert,
                 units, witness>>

Finished == pc \in {"found", "done"} /\ UNCHANGED vars

Init ==
  /\ ckt \in Circuits
  /\ max_thread_index \in ThreadCounts
  /\ thread_index \in 0 .. max_thread_index - 1
  /\ pc = "initialize"
  /\ bmc_frame_k = 0
  /\ values = << >>
  /\ uaiger = [nodes |-> 0, ands |-> << >>, inputs |-> << >>, constraints |-> {}, output |-> 0]
  /\ lit_has_insert = {} /\ units = {}
  /\ witness = << >>

Engine == initialize \/ unfold \/ NotAsserted \/ AssertedInFrame \/ Interrupted \/ LoopEnds

Next == Engine \/ Finished

Spec == Init /\ [][Next]_vars

-----------------------------------------------------------------------------
(***************************************************************************)
(* Properties.                                                             *)
(***************************************************************************)
(* A choice of values for the leaves is a run of the circuit. *)
FirstLatches(a) ==
  [j \in 1 .. ckt.num_latches |->
     IF LatchVar(ckt, j) \in ckt.init_state THEN TRUE
     ELSE IF -LatchVar(ckt, j) \in ckt.init_state THEN FALSE
     ELSE a[1 + j]]
InputsOf(a) ==
  [k \in 1 .. bmc_frame_k |->
     [i \in 1 .. ckt.num_inputs |-> a[uaiger.inputs[(k - 1) * ckt.num_inputs + i]]]]

Runs == [Leaf -> BOOLEAN]

InFrame(a, k, l) == Holds(Frame(ckt, FirstLatches(a), InputsOf(a), k), l)

Constrained(a, k) == \A n \in 1 .. k, l \in ckt.constraints : InFrame(a, n, l)

(* After unfold the value of every variable is a node that equals it in    *)
(* every run: the gates in this frame, the latches in the next one.        *)
UnfoldingExact ==
  pc = "solve" =>
    \A a \in Runs :
      LET node == NodeValues(1 .. Len(uaiger.ands), [n \in Leaf \cup {1} |-> IF n = 1 THEN FALSE ELSE a[n]])
          var  == Frame(ckt, FirstLatches(a), InputsOf(a), bmc_frame_k)
      IN /\ \A i \in 1 .. Len(ckt.ands) : Holds(node, values[AndVar(ckt, i)]) = var[AndVar(ckt, i)]
         /\ \A j \in 1 .. ckt.num_latches :
              Holds(node, values[LatchVar(ckt, j)]) = Holds(var, ckt.nexts[j])

(* The query of a frame is satisfiable exactly when bad can be asserted in *)
(* it for the first time, by inputs that meet the constraints so far; the  *)
(* gates of earlier cones, and the frames skipped, are all accounted for.  *)
QueryExact ==
  pc = "solve" =>
    (Query # {} <=>
       \E a \in Runs :
         /\ Constrained(a, bmc_frame_k)
         /\ InFrame(a, bmc_frame_k, ckt.bad)
         /\ \A k \in 1 .. bmc_frame_k - 1 : ~InFrame(a, k, ckt.bad))

(* The latches and inputs printed lead to bad in this frame and meet the   *)
(* constraints, whatever value is chosen where an x is printed.            *)
WitnessReal ==
  pc = "found" =>
    \A a \in Runs :
      (\A n \in DOMAIN witness : a[n] = witness[n]) =>
        Constrained(a, bmc_frame_k) /\ InFrame(a, bmc_frame_k, ckt.bad)

=============================================================================
