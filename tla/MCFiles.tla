------------------------------ MODULE MCFiles ------------------------------
(***************************************************************************)
(* Files: circuits of one input (2), two latches (4, 6) and two gates (8,  *)
(* 10), gates and properties over constants, inputs, latches and gates; a  *)
(* gate over a later one; justice and fairness lines, also such as look    *)
(* like the gates.                                                         *)
(* Certificates: circuits of one input (2), two latches (3, 4) and one     *)
(* gate (5); sets of at most two cubes over the latches, the empty cube    *)
(* among them.                                                             *)
(***************************************************************************)
EXTENDS Certificate

MkSource(l, o, b, c, j, f, a, ord) ==
  [inputs |-> 1, latches |-> l, outputs |-> o, bads |-> b, constraints |-> c, justice |-> j,
   fairness |-> f, ands |-> a, order |-> ord]

MCLatches == {<<<<n, r>>, <<8, s>>>> : n \in {3, 10}, r \in {0, 1, 4}, s \in {6}}

(* The first fan-in is not smaller than the second, as the binary format has it. *)
MCAnds == {<<<<7, 3>>, <<a, b>>>> : a \in {8, 9, 5}, b \in {1, 2, 5}}

(* The first gate over the second, for ASCII files. *)
MCForward == {<<<<10, 3>>, <<5, b>>>> : b \in {1, 2}}

MCSources ==
  {MkSource(l, o, b, c, <<>>, <<>>, a, ord) :
     l \in MCLatches, a \in MCAnds \cup MCForward,
     o \in {<<>>, <<10>>}, b \in {<<>>, <<11, 4>>}, c \in {<<>>, <<9>>, <<1, 5>>},
     ord \in {<<1, 2>>, <<2, 1>>}}
  \cup
  {MkSource(<<<<3, 0>>, <<8, 6>>>>, <<10>>, <<>>, c, j, f, <<<<7, 3>>, <<8, 5>>>>, ord) :
     c \in {<<>>, <<9>>}, j \in {<<>>, <<<<4>>, <<6, 8>>>>}, f \in {<<>>, <<4>>, <<8, 10>>},
     ord \in {<<1, 2>>, <<2, 1>>}}

MCIndices == {0, 1}

MCCircuits ==
  {[num_inputs |-> 1, num_latches |-> 2, ands |-> <<[i1 |-> s * 4, i2 |-> -3]>>,
    nexts |-> <<-5, 2>>, init_state |-> init, constraints |-> cons, bad |-> b] :
     s \in {1, -1}, init \in {{}, {-3, 4}}, cons \in {{}, {-2}, {5, 3}}, b \in {5, -4, 1}}

MCCubes == {{}} \cup {{s * 3} : s \in {1, -1}} \cup {{s * 3, t * 4} : s, t \in {1, -1}}
MCCubeSets == {cs \in SUBSET MCCubes : Cardinality(cs) <= 2}

=============================================================================
