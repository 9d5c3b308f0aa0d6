---------------------------- MODULE Certificate ----------------------------
(***************************************************************************)
(* The certificate of a safe circuit: propagate adds the gates of the      *)
(* invariant to the circuit and makes its negation the bad literal,        *)
(* show_aag writes the result in AIGER's numbering.  The file is then read *)
(* by the reader of Aiger, as whoever checks the certificate has to.       *)
(* PDR says which cubes are collected; this module what becomes of them.   *)
(***************************************************************************)
EXTENDS Aiger

CONSTANT CubeSets   \* the sets of cubes a proof may end with

(* Cubes are over variables of the circuit; propagate only has latches'. *)
ASSUME CubesAssumption ==
  \A c \in Circuits, cs \in CubeSets : \A d \in cs : d \subseteq LitOf(NumVars(c))

VARIABLES
  orig,    \* the circuit that was proved
  cubes,   \* frames[i+1].cubes with those of the frames above
  work,    \* the cubes whose gates are not complete
  cc,      \* the cube whose gates are being built
  rest,    \* its literals without a gate
  out,     \* new_and_gate; 0 while first_bit
  ands,    \* the gates, num_ands of them
  inv      \* invariant; 0 while first_cube

certVars == <<orig, cubes, work, cc, rest, out, ands, inv>>

(* The certificate also excludes bad and the violation of each constraint. *)
WithBad(c, cs) == cs \cup {{c.bad}} \cup {{-l} : l \in c.constraints}

NoSource == [inputs |-> 0, latches |-> <<>>, outputs |-> <<>>, bads |-> <<>>,
             constraints |-> <<>>, justice |-> <<>>, fairness |-> <<>>, ands |-> <<>>, order |-> <<>>]

CertInit ==
  /\ orig \in Circuits /\ cubes \in CubeSets
  /\ work = WithBad(orig, cubes)
  /\ cc = {} /\ rest = {} /\ out = 0
  /\ ands = orig.ands /\ inv = 0
  /\ src = NoSource /\ binary = FALSE /\ file = <<>> /\ p = 1 /\ pc = "gates" /\ index = 0
  /\ hdr = [i |-> 0, l |-> 0, o |-> 0, a |-> 0, b |-> 0, c |-> 0, j |-> 0, f |-> 0]
  /\ aig = [inputs |-> <<>>, latches |-> <<>>, outputs |-> <<>>, bads |-> <<>>,
            constraints |-> <<>>, ands |-> <<>>]
  /\ circ = NoCircuit

(* One new gate over two literals, the larger variable first.              *)
GateOver(l, m) == IF Abs(l) > Abs(m) THEN [i1 |-> l, i2 |-> m] ELSE [i1 |-> m, i2 |-> l]

NewGateSkipping(as) == 1 + orig.num_inputs + orig.num_latches + Len(as) + 2

NewGate(as) == 1 + orig.num_inputs + orig.num_latches + Len(as) + 1

(* The next cube, in the order of the set; the empty cube is true.         *)
Literals(c) == IF c = {} THEN {-1} ELSE c

NextCube ==
  /\ pc = "gates" /\ rest = {} /\ out = 0
  /\ \E c \in work : cc' = c /\ rest' = Literals(c)
  /\ UNCHANGED <<vars, orig, cubes, work, out, ands, inv>>

(* The next literal of the cube, the largest variable first, joins the     *)
(* gates of those before.                                                  *)
AddLiteral ==
  /\ pc = "gates"
  /\ \E l \in rest :
       /\ \A m \in rest : Abs(m) <= Abs(l)
       /\ rest' = rest \ {l}
       /\ IF out = 0
          THEN out' = l /\ UNCHANGED ands
          ELSE out' = NewGate(ands) /\ ands' = Append(ands, GateOver(out, l))
  /\ UNCHANGED <<vars, orig, cubes, work, cc, inv>>

(* The negation of the cube joins the invariant.                           *)
EndCube ==
  /\ pc = "gates" /\ rest = {} /\ out /= 0
  /\ work' = work \ {cc} /\ out' = 0
  /\ IF inv = 0
     THEN inv' = -out /\ UNCHANGED ands
     ELSE inv' = NewGate(ands) /\ ands' = Append(ands, GateOver(-out, inv))
  /\ UNCHANGED <<vars, orig, cubes, cc, rest>>

(* show_aag, with bad the negation of the invariant.                       *)
DefaultVal(i) ==
  LET l == LatchVar(orig, i) IN
  IF -l \in orig.init_state THEN 0 ELSE IF l \in orig.init_state THEN 1 ELSE 2 * (l - 1)

show_aag ==
  LET cons == SetToSeq(orig.constraints)
      ni == orig.num_inputs
      nl == orig.num_latches
  IN Line(<<ni + nl + Len(ands), ni, nl, 0, Len(ands), 1>>
          \o (IF cons = <<>> THEN <<>> ELSE <<Len(cons)>>))
     \o Lines([i \in 1 .. ni |-> <<2 * i>>])
     \o Lines([i \in 1 .. nl |-> <<2 * (ni + i), dimacs_to_aiger(orig.nexts[i])>>
                                 \o (IF DefaultVal(i) = 0 THEN <<>> ELSE <<DefaultVal(i)>>)])
     \o Line(<<dimacs_to_aiger(-inv)>>)
     \o Lines([i \in 1 .. Len(cons) |-> <<dimacs_to_aiger(cons[i])>>])
     \o Lines([i \in 1 .. Len(ands) |->
                 <<dimacs_to_aiger(AndVar(orig, i)), dimacs_to_aiger(ands[i].i1),
                   dimacs_to_aiger(ands[i].i2)>>])

ShowAag ==
  /\ pc = "gates" /\ work = {}   \* then rest = {} and out = 0
  /\ file' = show_aag
  /\ pc' = "header"
  /\ UNCHANGED <<src, binary, p, hdr, aig, index, circ, certVars>>

CertNext == NextCube \/ AddLiteral \/ EndCube \/ ShowAag \/ (Next /\ UNCHANGED certVars)

(* A run reads a file it is given, or writes a certificate and reads that. *)
LoadInit ==
  /\ Init
  /\ orig = NoCircuit /\ cubes = {} /\ work = {} /\ cc = {} /\ rest = {} /\ out = 0
  /\ ands = <<>> /\ inv = 0

FilesSpec == (LoadInit \/ CertInit) /\ [][CertNext]_<<vars, certVars>>

Certifying == orig /= NoCircuit

-----------------------------------------------------------------------------
(* A file that is given, without justice and fairness, is refused exactly  *)
(* when its numbers are out of order or it has no property, and otherwise  *)
(* loaded as the circuit it was written from.                              *)
FileAbortIffMisnumbered == ~Certifying => AbortIffMisnumbered
FileMeansSource == ~Certifying => LoadedMeansSource

(* Satisfaction of a cube by the values of all variables.                  *)
In(v, c) == \A l \in c : Holds(v, l)

(***************************************************************************)
(* While the certificate grows, cube after cube and gate after gate, no    *)
(* gate is used before it is defined, the variables of the circuit keep    *)
(* their values, and the negation of invariant, the bad literal of the     *)
(* certificate, means that a cube whose gates are complete holds, for all  *)
(* values of the latches and inputs.                                       *)
(***************************************************************************)
Grown == [num_inputs |-> orig.num_inputs, num_latches |-> orig.num_latches, ands |-> ands,
          nexts |-> orig.nexts, init_state |-> orig.init_state, constraints |-> orig.constraints,
          bad |-> IF inv = 0 THEN orig.bad ELSE -inv]

Complete == WithBad(orig, cubes) \ work

GatesMeanInvariant ==
  Certifying =>
  /\ IsCircuit(Grown) /\ (inv = 0 <=> Complete = {})
  /\ \A x \in [1 .. orig.num_latches -> BOOLEAN], i \in [1 .. orig.num_inputs -> BOOLEAN] :
       LET v == Settle(orig, x, i)
           w == Settle(Grown, x, i)
       IN /\ \A n \in 1 .. NumVars(orig) : w[n] = v[n]
          /\ inv /= 0 => (Holds(w, Grown.bad) <=> \E c \in Complete : In(v, c))

(***************************************************************************)
(* The certificate file is read back as a circuit with the resets, next    *)
(* states and constraints of the one that was proved, whose bad literal is *)
(* true exactly on the pairs the invariant excludes: those in a cube, those *)
(* that are bad and those that violate a constraint.                        *)
(***************************************************************************)
CertificateReadsBack ==
  Certifying =>
  /\ pc /= "abort"
  /\ pc = "loaded" =>
       /\ circ.init_state = orig.init_state
       /\ \A x \in [1 .. orig.num_latches -> BOOLEAN], i \in [1 .. orig.num_inputs -> BOOLEAN] :
            LET v == Settle(orig, x, i)
                w == Settle(circ, x, i)
            IN /\ \A j \in 1 .. orig.num_latches : Holds(v, orig.nexts[j]) = Holds(w, circ.nexts[j])
               /\ (\A l \in orig.constraints : Holds(v, l)) <=> (\A l \in circ.constraints : Holds(w, l))
               /\ Holds(w, circ.bad) <=> \/ \E c \in cubes : In(v, c)
                                         \/ Holds(v, orig.bad)
                                         \/ \E l \in orig.constraints : ~Holds(v, l)

=============================================================================
