------------------------------ MODULE MCParts ------------------------------
(***************************************************************************)
(* Two parts a PDR engine is built on, in one model: the obligation queues *)
(* of threads that share a counter (Obligations), and the simplified       *)
(* translation (SimpSolver).  A behaviour is one of either part: `part'    *)
(* says which, and the variables of the other part have a dummy value.     *)
(*                                                                         *)
(* Encodings of circuits with two inputs (2, 3), one latch (4), a gate 5   *)
(* over the inputs and a gate 6 over 5 and an input.  encode_translation   *)
(* adds the primed latch (7), and a primed copy of the cone of bad and the *)
(* constraints: here none.  A gate outside the cones is not encoded, and   *)
(* primed inputs no clause has are left out.                               *)
(***************************************************************************)
EXTENDS SimpSolver

CONSTANTS Engines, Top, MaxStates

ASSUME TopAssumption == Top \in Nat

(* One engine makes three states, the other races with it for the counter. *)
MCMaxStates == <<3, 2>>

VARIABLES part, state_count, at, reg, made

Queues == INSTANCE Obligations WITH pc <- at

own == <<state_count, at, reg, made>>       \* variables of Obligations alone

GateClauses(o, a, b) == <<{-o, a}, {-o, b}, {o, -a, -b}>>

Encoding(asymm, cons, next, a, b, c, d) ==
  LET cone6 == VarOf(next) = 6
      cone5 == cone6 \/ VarOf(next) = 5
  IN [lift |-> FALSE, use_asymm |-> asymm, bad |-> 4, constraints |-> cons,
      rest |-> <<{-7, next}, {-next, 7}>>
                 \o (IF cone6 THEN GateClauses(6, c, d) ELSE <<>>)
                 \o (IF cone5 THEN GateClauses(5, a, b) ELSE <<>>),
      frozen |-> {2, 3, 7, 4} \cup VarsOf(Range(cons))]

(* What encode_lift encodes: the constraint, here the latch, is not added  *)
(* but frozen, and 8 says that it fails now or in the next state.          *)
LiftEncoding(next, b, d) ==
  LET e == Encoding(FALSE, <<4>>, next, 2, b, 5, d)
  IN [e EXCEPT !.lift = TRUE, !.bad = 2, !.rest = Append(@, {-8, -7, -4}), !.frozen = @ \cup {8}]

MCEncodings ==
  {Encoding(FALSE, <<>>, 6, 2, 3, 5, -3), Encoding(FALSE, <<>>, 6, 2, -3, -5, 4),
   Encoding(FALSE, <<2>>, 6, 2, -3, -5, 4), Encoding(FALSE, <<2>>, -5, 2, 3, 5, 4),
   LiftEncoding(-5, 3, 4), Encoding(TRUE, <<>>, -5, 2, 3, 5, 3)}

MCInit ==
  \/ part = "simplify" /\ Init /\ state_count = 0 /\ at = 0 /\ reg = 0 /\ made = 0
  \/ /\ part = "queues" /\ Queues!Init
     /\ enc = 0 /\ todo = 0 /\ clauses = 0 /\ removed = 0 /\ trail = 0 /\ ok = 0 /\ touched = 0
     /\ seen = 0 /\ heap = 0 /\ eliminated = 0 /\ elimclauses = 0 /\ elim = 0 /\ current = 0
     /\ candidates = 0 /\ pc = "none" /\ ret = "none"

MCNext ==
  \/ part = "simplify" /\ Next /\ UNCHANGED <<part, own>>
  \/ /\ part = "queues" /\ Queues!Next
     /\ UNCHANGED <<part, enc, todo, database, touched, seen, heap, gone, elim, current, candidates, pc, ret>>

allvars == <<part, vars, own>>
MCSpec == MCInit /\ [][MCNext]_allvars /\ WF_allvars(MCNext)

(* A step of the queues: however the threads race on state_count, the      *)
(* obligation of a new state is queued and is the first one.               *)
NewStateQueued == [][part = "queues" => Queues!QueuesNewState]_allvars

=============================================================================
