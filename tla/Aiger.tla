------------------------------- MODULE Aiger -------------------------------
(***************************************************************************)
(* The AIGER reader: load_aiger_from_file and Aiger::translate_to_dimacs.  *)
(* A file is a sequence of tokens: a number of the text, a newline, or a   *)
(* byte of the binary gates.  What a file means is given by Source, the    *)
(* circuit it was written from, and Value, the meaning of an AIGER literal;*)
(* the reader is right when the circuit it ends with (a circuit of Gates)  *)
(* has the same next states, bad literal and constraints.                  *)
(* The symbol table is read into a map that nothing reads; it is left out. *)
(***************************************************************************)
EXTENDS Gates, FiniteSets, SequencesExt

CONSTANTS
  Sources,     \* the circuits files are written from
  Indices,     \* values of -pindex
  GroupBits,   \* payload bits of a byte of the binary format; 7 in the code
  Width        \* bits of an unsigned; 32 in the code

(* 2 ^ n is a number; the provers do not know the operator.                *)
ASSUME BitsAssumption ==
  /\ GroupBits \in Nat \ {0} /\ Width \in Nat \ {0}
  /\ 2 ^ GroupBits \in Nat /\ 2 ^ GroupBits > 1 /\ 2 ^ Width \in Nat

ASSUME IndicesAssumption == Indices \subseteq Nat   \* main checks the argument

VARIABLES
  src,      \* the circuit the file describes
  binary,   \* binary_mode
  file,     \* the text, fbuf
  p,        \* the position of fbuf
  pc,       \* the section that is read next
  hdr,      \* the counts of the header
  aig,      \* Aiger_inputs, Aiger_latches, ... as the sections are read
  index,    \* propertyIndex
  circ      \* what translate_to_dimacs leaves behind

vars == <<src, binary, file, p, pc, hdr, aig, index, circ>>

NL == -1
Group == 2 ^ GroupBits

-----------------------------------------------------------------------------
(* basic.hpp: the two numberings of literals; AIGER's variable 0 is 1.     *)
aiger_to_dimacs(l) == IF l % 2 = 1 THEN -(l \div 2) - 1 ELSE l \div 2 + 1

dimacs_to_aiger_unsigned(l) == 2 * (Abs(l) - 1)

dimacs_to_aiger(l) == 2 * (Abs(l) - 1) + (IF l < 0 THEN 1 ELSE 0)

(* encode: groups of GroupBits, least significant first, a mark on all but *)
(* the last one.                                                           *)
encode(x) ==
  LET e[y \in 0 .. x] == IF y < Group THEN <<y>> ELSE <<Group + (y % Group)>> \o e[y \div Group]
  IN e[x]

(* decode: the number whose groups start at q, and the position behind it. *)
decode(f, q) ==
  LET n == CHOOSE i \in 0 .. Len(f) : /\ f[q + i] < Group
                                      /\ \A j \in 0 .. i - 1 : f[q + j] >= Group
      x[i \in 0 .. n] == (f[q + i] % Group) + (IF i = n THEN 0 ELSE Group * x[i + 1])
  IN [val |-> x[0] % 2 ^ Width, pos |-> q + n + 1]

(* read_literal: -1 at the end of the line, which is not passed.           *)
read_literal(f, q) == IF f[q] = NL THEN [val |-> -1, pos |-> q] ELSE [val |-> f[q], pos |-> q + 1]

(* read_literal(&fbuf); fbuf++, with which the reader goes to a new line.  *)
NextLine(f, q) == read_literal(f, q).pos + 1

-----------------------------------------------------------------------------
(* The format.  The literals of a source are AIGER's; a latch is a pair of *)
(* its next literal and its reset: 0, 1, or itself for no reset.           *)
Line(s) == s \o <<NL>>
Lines(s) == FlattenSeq([i \in 1 .. Len(s) |-> Line(s[i])])
Singles(s) == [i \in 1 .. Len(s) |-> <<s[i]>>]
FirstLatch(s) == 2 * (s.inputs + 1)
FirstGate(s) == FirstLatch(s) + 2 * Len(s.latches)
EndGates(s) == FirstGate(s) + 2 * Len(s.ands)

(* A circuit of AIGER: literals below EndGates.  In an ASCII file a fan-in *)
(* may have a larger number than its gate.                                 *)
IsSource(s) ==
  /\ s.inputs \in Nat
  /\ s.latches \in Seq(Nat \X Nat) /\ s.ands \in Seq(Nat \X Nat)
  /\ s.outputs \in Seq(Nat) /\ s.bads \in Seq(Nat) /\ s.constraints \in Seq(Nat)
  /\ s.justice \in Seq(Seq(Nat)) /\ s.fairness \in Seq(Nat)
  /\ \A k \in 1 .. Len(s.latches) : s.latches[k][1] < EndGates(s)
  /\ \A k \in 1 .. Len(s.ands), j \in 1 .. 2 : s.ands[k][j] < EndGates(s)
  /\ \A k \in 1 .. Len(s.outputs) : s.outputs[k] < EndGates(s)
  /\ \A k \in 1 .. Len(s.bads) : s.bads[k] < EndGates(s)
  /\ \A k \in 1 .. Len(s.constraints) : s.constraints[k] < EndGates(s)
  /\ s.order \in [1 .. Len(s.ands) -> 1 .. Len(s.ands)]

(* The fan-ins of a gate are below the gate.                               *)
FaninsFirst(s) ==
  \A k \in 1 .. Len(s.ands), j \in 1 .. 2 : s.ands[k][j] < FirstGate(s) + 2 * (k - 1)

(* Without justice and fairness properties, which the reader does not read.*)
SafetyOnly(s) == s.justice = <<>> /\ s.fairness = <<>>

(* What the binary format asks for besides: fan-ins below the gate, the    *)
(* larger one first, and literals that fit an unsigned.  Justice and       *)
(* fairness lines of a binary file would be decoded as gates, character by *)
(* character; a token here is a whole number, and they are left out.       *)
IsBinary(s) ==
  /\ FaninsFirst(s) /\ \A k \in 1 .. Len(s.ands) : s.ands[k][2] <= s.ands[k][1]
  /\ EndGates(s) <= 2 ^ Width
  /\ SafetyOnly(s)

ASSUME SourcesAssumption == \A s \in Sources : IsSource(s)

(* Counts of the optional sections, up to the last one that is not empty.  *)
Header(s) ==
  LET opt == IF s.fairness /= <<>>
             THEN <<Len(s.bads), Len(s.constraints), Len(s.justice), Len(s.fairness)>>
             ELSE IF s.justice /= <<>> THEN <<Len(s.bads), Len(s.constraints), Len(s.justice)>>
             ELSE IF s.constraints /= <<>> THEN <<Len(s.bads), Len(s.constraints)>>
             ELSE IF s.bads /= <<>> THEN <<Len(s.bads)>> ELSE <<>>
  IN Line(<<s.inputs + Len(s.latches) + Len(s.ands), s.inputs, Len(s.latches),
            Len(s.outputs), Len(s.ands)>> \o opt)

(* The constraints, then the sizes and literals of the justice properties, *)
(* and the fairness constraints.                                           *)
Conditions(s) ==
  Lines(Singles(s.constraints))
  \o Lines(Singles([i \in 1 .. Len(s.justice) |-> Len(s.justice[i])]))
  \o Lines(Singles(FlattenSeq(s.justice))) \o Lines(Singles(s.fairness))

LatchLine(s, bin, i) ==
  (IF bin THEN <<>> ELSE <<FirstLatch(s) + 2 * (i - 1)>>) \o <<s.latches[i][1]>>
     \o (IF s.latches[i][2] = 0 THEN <<>> ELSE <<s.latches[i][2]>>)

(* An ASCII file may list its gates in any order.                          *)
GateText(s, bin, i) ==
  LET o == FirstGate(s) + 2 * (i - 1) IN
  IF bin THEN encode(o - s.ands[i][1]) \o encode(s.ands[i][1] - s.ands[i][2])
         ELSE Line(<<o>> \o s.ands[i])

FileOf(s, bin) ==
  Header(s)
  \o (IF bin THEN <<>> ELSE Lines([i \in 1 .. s.inputs |-> <<2 * i>>]))
  \o Lines([i \in 1 .. Len(s.latches) |-> LatchLine(s, bin, i)])
  \o Lines(Singles(s.outputs)) \o Lines(Singles(s.bads)) \o Conditions(s)
  \o FlattenSeq([i \in 1 .. Len(s.ands) |-> GateText(s, bin, IF bin THEN i ELSE s.order[i])])

(* The value of an AIGER literal under values of all variables; AIGER's    *)
(* variable n is n + 1.                                                    *)
Sense(v, l) == v[l \div 2 + 1] /= (l % 2 = 1)

(* Its value under latch values x and input values i, fan-ins being first. *)
Value(s, x, i, l) ==
  LET v[n \in 0 .. FirstGate(s) \div 2 + Len(s.ands) - 1] ==
        IF n = 0 THEN FALSE
        ELSE IF n <= s.inputs THEN i[n]
        ELSE IF n < FirstGate(s) \div 2 THEN x[n - s.inputs]
        ELSE \A j \in 1 .. 2 :
               LET r == s.ands[n - FirstGate(s) \div 2 + 1][j]
               IN v[r \div 2] /= (r % 2 = 1)
  IN v[l \div 2] /= (l % 2 = 1)

-----------------------------------------------------------------------------
NoCircuit == [num_inputs |-> 0, num_latches |-> 0, ands |-> <<>>, nexts |-> <<>>,
              init_state |-> {}, constraints |-> {}, bad |-> 0]   \* no literal is 0

Init ==
  /\ src \in Sources /\ binary \in BOOLEAN /\ (binary => IsBinary(src)) /\ index \in Indices
  /\ file = FileOf(src, binary)
  /\ p = 1 /\ pc = "header"
  /\ hdr = [i |-> 0, l |-> 0, o |-> 0, a |-> 0, b |-> 0, c |-> 0, j |-> 0, f |-> 0]
  /\ aig = [inputs |-> <<>>, latches |-> <<>>, outputs |-> <<>>, bads |-> <<>>,
            constraints |-> <<>>, ands |-> <<>>]
  /\ circ = NoCircuit

(* The counts; those a line does not have are read as -1 and become 0.     *)
(* Nothing reads the counts of justice and fairness, or skips their lines. *)
Count(v) == IF v < 0 THEN 0 ELSE v

ReadHeader ==
  /\ pc = "header"
  /\ LET r[k \in 1 .. 9] == read_literal(file, IF k = 1 THEN p ELSE r[k - 1].pos)
         n(k) == Count(r[k].val)
     IN /\ hdr' = [i |-> n(2), l |-> n(3), o |-> n(4), a |-> n(5), b |-> n(6), c |-> n(7),
                   j |-> n(8), f |-> n(9)]
        /\ p' = r[9].pos
        /\ pc' = IF n(1) = n(2) + n(3) + n(5) THEN "inputs" ELSE "abort"
        /\ aig' = [aig EXCEPT !.inputs = IF binary THEN [k \in 1 .. n(2) |-> 2 * k] ELSE <<>>]
  /\ UNCHANGED <<src, binary, file, index, circ>>

(* One line with one literal, in the given section.                        *)
ReadOne(section, count) ==
  /\ pc = section /\ Len(aig[section]) < count
  /\ LET r == read_literal(file, NextLine(file, p))
     IN p' = r.pos /\ aig' = [aig EXCEPT ![section] = Append(@, r.val)]
  /\ UNCHANGED <<src, binary, file, pc, hdr, index, circ>>

ReadInput == ReadOne("inputs", hdr.i)
ReadOutput == ReadOne("outputs", hdr.o)
ReadBad == ReadOne("bads", hdr.b)
ReadConstraint == ReadOne("constraints", hdr.c)

ReadLatch ==
  /\ pc = "latches" /\ Len(aig.latches) < hdr.l
  /\ LET q == NextLine(file, p)
         l == IF binary THEN [val |-> 2 * (hdr.i + 1 + Len(aig.latches)), pos |-> q]
              ELSE read_literal(file, q)
         n == read_literal(file, l.pos)
         d == read_literal(file, n.pos)
     IN /\ aig' = [aig EXCEPT !.latches = Append(@, [l |-> l.val, next |-> n.val,
                     default_val |-> IF d.val < 0 THEN 0 ELSE d.val])]
        /\ p' = d.pos
  /\ UNCHANGED <<src, binary, file, pc, hdr, index, circ>>

(* The section is complete.  Before the binary gates one more newline is   *)
(* passed.                                                                 *)
EndSection(section, count, after) ==
  /\ pc = section /\ Len(aig[section]) = count
  /\ pc' = after
  /\ p' = IF after = "ands" /\ binary THEN NextLine(file, p) ELSE p
  /\ UNCHANGED <<src, binary, file, hdr, aig, index, circ>>

NextSection ==
  \/ EndSection("inputs", hdr.i, "latches")
  \/ EndSection("latches", hdr.l, "outputs")
  \/ EndSection("outputs", hdr.o, "bads")
  \/ EndSection("bads", hdr.b, "constraints")
  \/ EndSection("constraints", hdr.c, "ands")
  \/ EndSection("ands", hdr.a, "translate")

ReadGate ==
  /\ pc = "ands" /\ Len(aig.ands) < hdr.a
  /\ IF binary
     THEN LET o == 2 * (hdr.i + hdr.l + Len(aig.ands) + 1)
              d1 == decode(file, p)
              d2 == decode(file, d1.pos)
          IN /\ aig' = [aig EXCEPT !.ands = Append(@, [o |-> o, i1 |-> o - d1.val,
                                                       i2 |-> o - d1.val - d2.val])]
             /\ p' = d2.pos
     ELSE LET o == read_literal(file, NextLine(file, p))
              i1 == read_literal(file, o.pos)
              i2 == read_literal(file, i1.pos)
          IN /\ aig' = [aig EXCEPT !.ands = Append(@, [o |-> o.val, i1 |-> i1.val, i2 |-> i2.val])]
             /\ p' = i2.pos
  /\ UNCHANGED <<src, binary, file, pc, hdr, index, circ>>

-----------------------------------------------------------------------------
(* translate_to_dimacs.  Its assertions: inputs, latches and gates are     *)
(* numbered in this order, and there is a property.                        *)
NumberedLatches ==
  /\ \A i \in 1 .. hdr.i : aig.inputs[i] = 2 * i
  /\ \A i \in 1 .. hdr.l : aig.latches[i].l = 2 * (hdr.i + i)

Numbered ==
  /\ \A i \in 1 .. hdr.i : aig.inputs[i] = 2 * i
  /\ \A i \in 1 .. hdr.l : aig.latches[i].l = 2 * (hdr.i + i)
  /\ \A i \in 1 .. hdr.a : aig.ands[i].o = 2 * (hdr.i + hdr.l + i)

Properties == IF hdr.b > 0 THEN aig.bads ELSE aig.outputs

(* The latches with a reset value; any value but 0 and 1 is none.          *)
ResetToAny(d) == {i \in 1 .. hdr.l : (aig.latches[i].default_val = 0) = (d = 0)}

ResetTo(d) == {i \in 1 .. hdr.l : aig.latches[i].default_val = d}

DimacsGate(a) == [i1 |-> aiger_to_dimacs(a.i1), i2 |-> aiger_to_dimacs(a.i2)]

(* A property index out of range selects property 0.                       *)
Translate ==
  /\ pc = "translate"
  /\ IF ~Numbered \/ Properties = <<>>
     THEN pc' = "abort" /\ UNCHANGED <<index, circ>>
     ELSE /\ pc' = "loaded"
          /\ index' = IF index < Len(Properties) THEN index ELSE 0
          /\ circ' = [num_inputs |-> hdr.i, num_latches |-> hdr.l,
                      ands |-> [i \in 1 .. hdr.a |-> DimacsGate(aig.ands[i])],
                      nexts |-> [i \in 1 .. hdr.l |-> aiger_to_dimacs(aig.latches[i].next)],
                      init_state |-> {-(1 + hdr.i + i) : i \in ResetTo(0)}
                                     \cup {1 + hdr.i + i : i \in ResetTo(1)},
                      constraints |-> {aiger_to_dimacs(l) : l \in Range(aig.constraints)},
                      bad |-> aiger_to_dimacs(Properties[index' + 1])]
  /\ UNCHANGED <<src, binary, file, p, hdr, aig>>

Stop == pc \in {"loaded", "abort"} /\ UNCHANGED vars

Next ==
  \/ ReadHeader \/ ReadInput \/ ReadLatch \/ ReadOutput \/ ReadBad \/ ReadConstraint
  \/ NextSection \/ ReadGate \/ Translate \/ Stop

Spec == Init /\ [][Next]_vars

-----------------------------------------------------------------------------
Sections == {"header", "inputs", "latches", "outputs", "bads", "constraints", "ands",
             "translate", "loaded", "abort"}

(* Types: the reader stays inside the file.                                *)
TypeOK ==
  /\ pc \in Sections /\ index \in Nat
  /\ p \in 1 .. Len(file) + 1
  /\ \A f \in DOMAIN hdr : hdr[f] \in Nat

(***************************************************************************)
(* Whatever the format, the optional counts and reset values and the order *)
(* of the gates, a file without justice and fairness that is loaded is     *)
(* loaded as the circuit it describes.  translate_to_dimacs leaves a       *)
(* circuit with the same resets, in which the fan-ins of every gate, the   *)
(* next states, the constraints and the selected bad literal are the same  *)
(* under all values of the variables; if fan-ins come first, the circuit   *)
(* computes the same from values of latches and inputs.                    *)
(***************************************************************************)
SourceProperties == IF src.bads /= <<>> THEN src.bads ELSE src.outputs

SameResets ==
  \A x \in [1 .. Len(src.latches) -> BOOLEAN] :
    (\A l \in circ.init_state : x[Abs(l) - 1 - src.inputs] = (l > 0))
      <=> \A j \in DOMAIN src.latches : src.latches[j][2] \in {0, 1} => x[j] = (src.latches[j][2] = 1)

SameLiterals ==
  \A v \in [1 .. EndGates(src) \div 2 -> BOOLEAN] :
    /\ \A k \in DOMAIN src.ands : /\ Holds(v, circ.ands[k].i1) = Sense(v, src.ands[k][1])
                                  /\ Holds(v, circ.ands[k].i2) = Sense(v, src.ands[k][2])
    /\ \A j \in DOMAIN src.latches : Holds(v, circ.nexts[j]) = Sense(v, src.latches[j][1])
    /\ Holds(v, circ.bad) = Sense(v, SourceProperties[index + 1])
    /\ (\A l \in circ.constraints : Holds(v, l)) <=> \A l \in Range(src.constraints) : Sense(v, l)

SameFunctions ==
  \A x \in [1 .. Len(src.latches) -> BOOLEAN], i \in [1 .. src.inputs -> BOOLEAN] :
    LET v == Settle(circ, x, i) IN
    /\ \A j \in DOMAIN src.latches : Holds(v, circ.nexts[j]) = Value(src, x, i, src.latches[j][1])
    /\ Holds(v, circ.bad) = Value(src, x, i, SourceProperties[index + 1])
    /\ (\A l \in circ.constraints : Holds(v, l)) <=> \A l \in Range(src.constraints) : Value(src, x, i, l)

LoadedMeansSource ==
  pc = "loaded" /\ SafetyOnly(src) =>
    /\ circ.num_inputs = src.inputs /\ circ.num_latches = Len(src.latches)
    /\ Len(circ.ands) = Len(src.ands)
    /\ SameResets /\ SameLiterals /\ (FaninsFirst(src) => SameFunctions)

(***************************************************************************)
(* Of the files without justice and fairness, exactly those without a      *)
(* property, and the ASCII files that do not list their gates by number,   *)
(* make an assertion of the reader fail; every other one is loaded, whole. *)
(* That fan-ins come first, as BMC's unfolding needs them, is not checked: *)
(* the circuit has them so exactly if the file does.                       *)
(***************************************************************************)
WellFormed ==
  /\ SourceProperties /= <<>>
  /\ binary \/ \A i \in DOMAIN src.order : src.order[i] = i

AbortIffMisnumbered ==
  SafetyOnly(src) =>
    /\ pc = "abort" => ~WellFormed
    /\ pc = "loaded" => /\ WellFormed /\ (IsCircuit(circ) <=> FaninsFirst(src))
                        /\ p = Len(file) + (IF binary THEN 1 ELSE 0)

=============================================================================
