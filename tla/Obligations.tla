---------------------------- MODULE Obligations ----------------------------
(***************************************************************************)
(* The obligation queues of several PDR threads that number their states   *)
(* from one unprotected counter.  The constructor of State increments      *)
(* state_count and then takes it as index; the queue is a std::set ordered *)
(* by frame, depth and index, so two obligations with equal keys are one:  *)
(* the insertion of the second does nothing.  PDR models one engine with a *)
(* counter of its own, this module what a race on the counter may lose.    *)
(* What is decided by the solver (blocked or not, how far a cube is pushed)*)
(* is a choice here.                                                       *)
(***************************************************************************)
EXTENDS Integers, FiniteSets

CONSTANTS
  Engines,     \* PDR threads
  Top,         \* depth() while rec_block_cube runs, at least 1
  MaxStates    \* bound on the states each engine makes

VARIABLES
  state_count,   \* the global counter
  pc,            \* where each engine is
  reg,           \* what an engine read of state_count
  made,          \* number of states an engine made: the identity of the last one
  pending,       \* the place (frame, depth) of the obligation of the state being made
  queue          \* obligation_queue

vars == <<state_count, pc, reg, made, pending, queue>>

(* Obligation::operator<; equivalent keys are the same element of the set. *)
Less(a, b) ==
  \/ a.frame < b.frame
  \/ a.frame = b.frame /\ a.depth < b.depth
  \/ a.frame = b.frame /\ a.depth = b.depth /\ a.index < b.index

Equivalent(a, b) == ~Less(a, b) /\ ~Less(b, a)

insert(q, o) == IF \E a \in q : Equivalent(a, o) THEN q ELSE q \cup {o}

IsFirst(q, o) == o \in q /\ \A a \in q : ~Less(a, o)

Init ==
  /\ state_count = 0
  /\ pc = [e \in Engines |-> "new"]
  /\ reg = [e \in Engines |-> 0]
  /\ made = [e \in Engines |-> 0]
  /\ pending = [e \in Engines |-> <<Top - 1, 1>>]
  /\ queue = [e \in Engines |-> {}]

-----------------------------------------------------------------------------
(* state_count++ is a read and a write.                                    *)
ReadCount(e) ==
  /\ pc[e] = "new" /\ made[e] < MaxStates[e]
  /\ reg' = [reg EXCEPT ![e] = state_count]
  /\ pc' = [pc EXCEPT ![e] = "write"]
  /\ UNCHANGED <<state_count, made, pending, queue>>

WriteCount(e) ==
  /\ pc[e] = "write"
  /\ state_count' = reg[e] + 1
  /\ pc' = [pc EXCEPT ![e] = "index"]
  /\ UNCHANGED <<reg, made, pending, queue>>

(* index = state_count: the value just written or one read again; then the *)
(* obligation of the new state is queued.                                  *)
TakeIndex(e) ==
  /\ pc[e] = "index"
  /\ \E i \in {reg[e] + 1, state_count} :
       queue' = [queue EXCEPT ![e] = insert(@, [frame |-> pending[e][1], depth |-> pending[e][2],
                                                index |-> i, id |-> made[e] + 1])]
  /\ made' = [made EXCEPT ![e] = @ + 1]
  /\ pc' = [pc EXCEPT ![e] = "block"]
  /\ UNCHANGED <<state_count, reg, pending>>

(* is_inductive: the obligation is erased, its cube pushed to frame k, and *)
(* the obligation queued again there unless k is beyond the top or -pr,    *)
(* which every thread uses, drops it.                                      *)
Blocked(e) ==
  /\ pc[e] = "block"
  /\ \E o \in queue[e] :
       /\ IsFirst(queue[e], o)
       /\ \/ \E k \in o.frame + 1 .. Top :
               queue' = [queue EXCEPT ![e] = insert(@ \ {o}, [o EXCEPT !.frame = k])]
          \/ queue' = [queue EXCEPT ![e] = @ \ {o}]
  /\ UNCHANGED <<state_count, pc, reg, made, pending>>

(* Mutant: in the same frame. *)
PredecessorAt(o) == <<o.frame, o.depth + 1>>

(* Not inductive: a predecessor is made, one frame below.                  *)
PredecessorOf(o) == <<o.frame - 1, o.depth + 1>>

Predecessor(e) ==
  /\ pc[e] = "block" /\ made[e] < MaxStates[e]
  /\ \E o \in queue[e] :
       /\ IsFirst(queue[e], o) /\ o.frame > 0
       /\ pending' = [pending EXCEPT ![e] = PredecessorOf(o)]
  /\ pc' = [pc EXCEPT ![e] = "new"]
  /\ UNCHANGED <<state_count, reg, made, queue>>

(* The obligation is given up (failed, failed_depth).                      *)
GivenUp(e) ==
  /\ pc[e] = "block"
  /\ \E o \in queue[e] : /\ IsFirst(queue[e], o) /\ o.depth > 1
                         /\ queue' = [queue EXCEPT ![e] = @ \ {o}]
  /\ UNCHANGED <<state_count, pc, reg, made, pending>>

(* A counterexample, or an empty queue: rec_block_cube returns.            *)
Return(e) ==
  /\ pc[e] = "block"
  /\ \/ queue[e] = {}
     \/ \E o \in queue[e] : IsFirst(queue[e], o) /\ o.frame = 0
  /\ pc' = [pc EXCEPT ![e] = "done"]
  /\ UNCHANGED <<state_count, reg, made, pending, queue>>

Stop == (\A e \in Engines : pc[e] = "done" \/ made[e] = MaxStates[e]) /\ UNCHANGED vars

Next ==
  \/ \E e \in Engines : \/ ReadCount(e) \/ WriteCount(e) \/ TakeIndex(e) \/ Blocked(e)
                         \/ Predecessor(e) \/ GivenUp(e) \/ Return(e)
  \/ Stop

Spec == Init /\ [][Next]_vars

-----------------------------------------------------------------------------
(***************************************************************************)
(* However the threads race on state_count, and although two states of one *)
(* engine may get the same index, the obligation of a new predecessor is   *)
(* never taken for one that is queued already: rec_block_cube does not     *)
(* lose the state it has just found, so its next iteration works on it     *)
(* instead of extracting the same predecessor again for ever.              *)
(***************************************************************************)
QueuesNewState ==
  \A e \in Engines : made'[e] > made[e] =>
    \E o \in queue'[e] : o.id = made'[e] /\ IsFirst(queue'[e], o)

=============================================================================
