------------------------------- MODULE MCBMC -------------------------------
(***************************************************************************)
(* Circuits of one input (2), two latches (3 with a reset value, 4 with or *)
(* without) and three gates (5, 6, 7), every gate over two earlier         *)
(* variables with every sign, the last one over the second.                *)
(***************************************************************************)
EXTENDS BMC

Sign == {1, -1}
And(i1, i2) == [i1 |-> i1, i2 |-> i2]
Gate1 == {And(s * 2, t * 3) : s, t \in Sign} \cup {And(s * 4, t * 2) : s, t \in Sign}
Gate2 == {And(s * 5, t * n) : s, t \in Sign, n \in 2 .. 4} \cup {And(s * 4, t * 3) : s, t \in Sign}
Gate3 == {And(s * 6, t * n) : s, t \in Sign, n \in 2 .. 5} \cup {And(s * n, t * 6) : s, t \in Sign, n \in 2 .. 5}

MkCircuit(a, init, cons) ==
  [num_inputs |-> 1, num_latches |-> 2, ands |-> a, nexts |-> <<7, -6>>,
   init_state |-> init, constraints |-> cons, bad |-> 7]

(* For threads that skip frames: fewer gates. *)
SkipCircuits ==
  {MkCircuit(<<And(-2, t * 3), b, c>>, {-3, -4}, cons) :
     t \in Sign, b \in Gate2, c \in {And(s * 6, u * n) : s, u \in Sign, n \in 2 .. 5}, cons \in {{}, {-5}}}
MCCircuits ==
  {MkCircuit(<<a, b, c>>, init, cons) :
     a \in Gate1, b \in Gate2, c \in Gate3, init \in {{-3}, {3, -4}}, cons \in {{}, {-5}}} \cup SkipCircuits

MCInit == Init /\ (max_thread_index > 1 <=> ckt \in SkipCircuits)
MCSpec == MCInit /\ [][Next]_vars
=============================================================================
