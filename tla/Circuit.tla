------------------------------ MODULE Circuit ------------------------------
(***************************************************************************)
(* The sequential circuit both engines work on, at the level of its        *)
(* latches and inputs.  A latch assignment is a set of literals holding    *)
(* exactly one of l and -l for every latch l; a cube (PDR.hpp: typedef     *)
(* vector<int> Cube) is a set of literals, and it contains the assignment  *)
(* x when every literal of the cube is in x.                               *)
(***************************************************************************)
EXTENDS Integers, FiniteSets

CONSTANTS
  Lit,       \* latch literals: l and -l for every latch l; never 0
  State,     \* latch assignments
  Input,     \* input assignments
  Circuits   \* the circuits a run of the model checker may be given

Cube == SUBSET Lit
Pair == State \X Input

CircuitRecord ==
  [init : Cube,              \* Aiger::init_state, the latches with a reset value
   next : [Pair -> State],   \* Aiger::nexts
   bad  : SUBSET Pair,       \* Aiger::bad
   cons : SUBSET Pair]       \* Aiger::constraints, their conjunction

ASSUME StateAssumption == IsFiniteSet(Lit) /\ State \subseteq Cube

ASSUME CircuitsAssumption == Circuits \subseteq CircuitRecord

(***************************************************************************)
(* encode_init_condition: the reset values, and the constraints under some *)
(* input.                                                                  *)
(***************************************************************************)
Initial(c) == {x \in State : c.init \subseteq x /\ \E i \in Input : <<x, i>> \in c.cons}

(***************************************************************************)
(* encode_translation and the constraints_prime that new_frame adds: the   *)
(* constraints hold now and next, bad does not hold now.                   *)
(***************************************************************************)
Trans(c, x, i, j) ==
  /\ <<x, i>> \in c.cons
  /\ <<x, i>> \notin c.bad
  /\ <<c.next[<<x, i>>], j>> \in c.cons

(***************************************************************************)
(* What the two engines are to decide.  A set of assignments is closed     *)
(* when it holds the initial ones and every one a constrained step reaches *)
(* from it; the circuit is safe when some closed set meets no bad pair.    *)
(***************************************************************************)
Closed(c, V) ==
  \A x \in V, i, j \in Input :
    /\ <<x, i>> \in c.cons
    /\ <<c.next[<<x, i>>], j>> \in c.cons
    => c.next[<<x, i>>] \in V

MeetsBad(c, V) == \E x \in V, i \in Input : <<x, i>> \in c.bad \cap c.cons

Safe(c) ==
  \E V \in SUBSET State : Initial(c) \subseteq V /\ Closed(c, V) /\ ~MeetsBad(c, V)

(***************************************************************************)
(* Circuits on which bad is only ever asserted by an admissible input.     *)
(***************************************************************************)
BadIsAdmissible(c) == c.bad \subseteq c.cons

=============================================================================
