----------------------------- MODULE PDRProofs -----------------------------
(***************************************************************************)
(* Proofs about one PDR engine, for every circuit and every value of the   *)
(* options.  Part 1: types and control.  Part 2: the verdict is right, on  *)
(* circuits on which bad is only asserted by admissible inputs.  Part 3:   *)
(* what the engine hands over besides its verdict: the certificate, the    *)
(* blocking of the states rec_block_cube is called for, and the witness.   *)
(***************************************************************************)
EXTENDS PDR, Induction, FiniteSetTheorems, SequenceTheorems

MainLoop == {"loop", "block", "mic", "down", "propagate", "safe"}

(***************************************************************************)
(* Where the thread is decides which parts of the state are live.          *)
(***************************************************************************)
Control ==
  /\ pc = "bmc0" => size = 0
  /\ pc = "bmc1" => size = 1
  /\ pc \in MainLoop => size >= 3 /\ esf \in 1 .. depth
  /\ pc \in {"bmc0", "bmc1", "propagate"} \/ (pc = "loop" /\ RESULT = 0) => queue = {}
  /\ pc \in {"mic", "down"} =>
       /\ obl \in ObligationRecord
       /\ Len(stack) >= 1
       /\ stack[1].k = obl.frame_k
       /\ stack[1].cube \cup stack[1].cand \subseteq Latches(obl)
  /\ pc \notin {"mic", "down"} => stack = << >>
  /\ pc = "propagate" => prop.frame \in 1 .. depth /\ prop.todo \subseteq cubes[prop.frame]

Typed == TypeOK /\ Control

-----------------------------------------------------------------------------
(* What a query returns is built from literals. *)
LEMMA CoresType ==
  ASSUME NEW k, NEW c \in Cube
  PROVE  \A d \in Cores(k, c) : d \in Cube /\ d \subseteq c
BY DEF Cores, Cube

LEMMA LiftedType ==
  ASSUME NEW m \in Model, NEW succ
  PROVE  Lifted(m, succ) \subseteq Cube /\ LiftedBad(m) \subseteq Cube
BY StateAssumption DEF Lifted, LiftedBad, Model, Cube

LEMMA SuccType ==
  ASSUME ckt \in Circuits, NEW m \in Model
  PROVE  Succ(m) \in State /\ Succ(m) \in Cube
BY CircuitsAssumption, StateAssumption DEF Succ, Model, CircuitRecord, Pair

LEMMA QueryType ==
  /\ \A k, c, d : Into(k, c, d) \subseteq Model
  /\ BadPreds \subseteq Model
BY DEF Into, BadPreds, Steps

(* Appending to the heap, and updating one of its states. *)
LEMMA NewStateType ==
  ASSUME NEW l \in Cube, NEW i \in Input, NEW n \in Nat
  PROVE  NewState(l, i, n) \in StateRecord
BY DEF NewState, StateRecord

LEMMA NewMicType ==
  ASSUME NEW c \in Cube, NEW k \in 0 .. depth
  PROVE  NewMic(c, k) \in Activation
BY OptionsAssumption DEF NewMic, Activation, Cube

LEMMA TypedInit == Init => Typed
<1> SUFFICES ASSUME Init PROVE Typed
  OBVIOUS
<1>1. cubes \in [Level -> SUBSET Cube] /\ solver \in [Level -> SUBSET Cube]
  BY DEF Init, Level
<1>2. heap \in Seq(StateRecord) /\ stack \in Seq(Activation) /\ Len(stack) = 0 /\ DOMAIN heap = {}
  BY EmptySeq DEF Init
<1>3. TypeOK
  <2>1. core \in Cube /\ prop \in [frame : Nat, todo : SUBSET Cube] /\ cert \subseteq Cube
    BY DEF Init, Cube
  <2>2. ckt \in Circuits /\ size \in Nat /\ esf \in Nat /\ top \in BOOLEAN /\ queue = {}
    BY DEF Init
  <2>3. pc = "bmc0" /\ RESULT = 0
    BY DEF Init
  <2> QED
    BY <1>1, <1>2, <2>1, <2>2, <2>3 DEF TypeOK
<1>4. Control
  BY DEF Init, Control, MainLoop
<1> QED
  BY <1>3, <1>4 DEF Typed

-----------------------------------------------------------------------------
(* The steps that only move the thread on. *)
LEMMA TypedControl ==
  ASSUME Typed,
         \/ Interrupted \/ AllBlocked \/ NoPreOfBad \/ NextFrame \/ FixpointFound
         \/ ProvedSafe \/ FoundBug \/ OtherEngine \/ Finished \/ UNCHANGED vars
  PROVE  Typed'
<1> USE DEF Typed, Level, depth, ObligationRecord, Activation, Latches, SAFE, UNSAFE, frameVars, blockVars
<1>1. CASE Interrupted
  BY <1>1 DEF Interrupted, TypeOK, Control, MainLoop
<1>2. CASE AllBlocked
  BY <1>2 DEF AllBlocked, TypeOK, Control, MainLoop
<1>3. CASE NextFrame
  <2>1. prop.frame + 1 \in 1 .. depth /\ cubes[prop.frame + 1] \in SUBSET Cube
    BY <1>3 DEF NextFrame, FrameDone, TypeOK, Control, MainLoop
  <2>2. prop' \in [frame : Nat, todo : SUBSET Cube]
    BY <1>3, <2>1 DEF NextFrame
  <2>3. TypeOK'
    BY <1>3, <2>2 DEF NextFrame, TypeOK
  <2>4. Control'
    BY <1>3, <2>1 DEF NextFrame, FrameDone, Control, MainLoop
  <2> QED
    BY <2>3, <2>4
<1>4. CASE ProvedSafe
  BY <1>4 DEF ProvedSafe, TypeOK, Control, MainLoop
<1>5. CASE FoundBug
  BY <1>5 DEF FoundBug, TypeOK, Control, MainLoop
<1>6. CASE OtherEngine
  BY <1>6 DEF OtherEngine, TypeOK, Control, MainLoop
<1>7. CASE Finished
  <2>1. UNCHANGED vars
    BY <1>7 DEF Finished
  <2>2. TypeOK'
    BY <2>1 DEF vars, TypeOK
  <2>3. Control'
    BY <2>1 DEF vars, Control, MainLoop
  <2> QED
    BY <2>2, <2>3
<1>8. CASE FixpointFound
  <2>1. cert' \subseteq Cube
    <3>1. prop.frame \in 1 .. depth /\ size \in Nat /\ cubes \in [0 .. size - 1 -> SUBSET Cube]
      BY <1>8 DEF FixpointFound, FrameDone, TypeOK, Control
    <3>2. ASSUME NEW d \in prop.frame + 1 .. depth + 1 PROVE cubes[d] \subseteq Cube
      <4>1. d \in 0 .. size - 1
        BY <3>1
      <4> QED
        BY <3>1, <4>1
    <3>3. UNION {cubes[d] : d \in prop.frame + 1 .. depth + 1} \subseteq Cube
      BY <3>2
    <3>4. cert \subseteq Cube
      BY DEF TypeOK
    <3>5. cert' = cert \/ cert' = UNION {cubes[d] : d \in prop.frame + 1 .. depth + 1}
      BY <1>8 DEF FixpointFound
    <3> QED
      BY <3>3, <3>4, <3>5
  <2>2. TypeOK'
    BY <1>8, <2>1 DEF FixpointFound, TypeOK
  <2>3. Control'
    BY <1>8 DEF FixpointFound, FrameDone, Control, MainLoop
  <2> QED
    BY <2>2, <2>3
<1>9. CASE NoPreOfBad
  <2>1. StartFrame \in 1 .. depth
    BY <1>9 DEF NoPreOfBad, StartFrame, TypeOK, Control, MainLoop
  <2>2. cubes[StartFrame] \in SUBSET Cube
    BY <1>9, <2>1 DEF TypeOK
  <2>3. prop' \in [frame : Nat, todo : SUBSET Cube] /\ prop'.frame = StartFrame
        /\ prop'.todo = cubes[StartFrame]
    BY <1>9, <2>1, <2>2 DEF NoPreOfBad
  <2>4. TypeOK'
    BY <1>9, <2>3 DEF NoPreOfBad, TypeOK
  <2>5. Control'
    BY <1>9, <2>1, <2>3 DEF NoPreOfBad, Control, MainLoop
  <2> QED
    BY <2>4, <2>5
<1>10. CASE UNCHANGED vars
  <2>2. TypeOK'
    BY <1>10 DEF vars, TypeOK
  <2>3. Control'
    BY <1>10 DEF vars, Control, MainLoop
  <2> QED
    BY <2>2, <2>3
<1> QED
  BY <1>1, <1>2, <1>3, <1>4, <1>5, <1>6, <1>7, <1>8, <1>9, <1>10

(* The two bounded checks and the frames they push. *)
LEMMA TypedBMC0 == Typed /\ check_BMC0 => Typed'
<1> USE DEF Typed, Level, depth, ObligationRecord, Activation, Latches, SAFE, UNSAFE, frameVars, blockVars
<1> SUFFICES ASSUME Typed, check_BMC0 PROVE Typed'
  OBVIOUS
<1>1. CASE pc' = "found" /\ UNCHANGED frameVars
  BY <1>1 DEF check_BMC0, TypeOK, Control, MainLoop
<1>2. CASE /\ size' = 1 /\ pc' = "bmc1" /\ esf' = esf
           /\ cubes' = [k \in 0 .. 0 |-> {}] /\ solver' = [k \in 0 .. 0 |-> {}]
  <2>1. cubes' \in [Level' -> SUBSET Cube] /\ solver' \in [Level' -> SUBSET Cube]
    BY <1>2
  <2>2. stack = << >> /\ queue = {}
    BY DEF check_BMC0, Control
  <2>3. TypeOK'
    BY <1>2, <2>1, <2>2, EmptySeq DEF check_BMC0, TypeOK
  <2>4. Control'
    BY <1>2, <2>2 DEF check_BMC0, Control, MainLoop
  <2> QED
    BY <2>3, <2>4
<1> QED
  BY <1>1, <1>2 DEF check_BMC0

LEMMA NewFrameType ==
  ASSUME NEW n \in Nat, NEW f \in [0 .. n - 1 -> SUBSET Cube]
  PROVE  new_frame(f, n) \in [0 .. n -> SUBSET Cube]
BY DEF new_frame

LEMMA TypedBMC1 == Typed /\ check_BMC1 => Typed'
<1> USE DEF Typed, Level, depth, ObligationRecord, Activation, Latches, SAFE, UNSAFE, frameVars, blockVars
<1> SUFFICES ASSUME Typed, check_BMC1 PROVE Typed'
  OBVIOUS
<1>1. CASE pc' = "found" /\ UNCHANGED <<frameVars, top>>
  BY <1>1 DEF check_BMC1, TypeOK, Control, MainLoop
<1>2. CASE /\ size' = 3 /\ pc' = "loop" /\ esf' = 1 /\ top' = TRUE
           /\ cubes' = new_frame(new_frame(cubes, 1), 2)
           /\ solver' = new_frame(new_frame(solver, 1), 2)
  <2>0. size = 1 /\ cubes \in [0 .. 0 -> SUBSET Cube] /\ solver \in [0 .. 0 -> SUBSET Cube]
    BY DEF check_BMC1, Control, TypeOK
  <2>1. ASSUME NEW f \in [0 .. 0 -> SUBSET Cube]
        PROVE  new_frame(new_frame(f, 1), 2) \in [0 .. 2 -> SUBSET Cube]
    BY DEF new_frame
  <2>2. cubes' \in [Level' -> SUBSET Cube] /\ solver' \in [Level' -> SUBSET Cube]
    BY <1>2, <2>0, <2>1
  <2>3. stack = << >> /\ queue = {}
    BY DEF check_BMC1, Control
  <2>4. TypeOK'
    BY <1>2, <2>2, <2>3, EmptySeq DEF check_BMC1, TypeOK
  <2>5. Control'
    BY <1>2, <2>3 DEF check_BMC1, Control, MainLoop
  <2> QED
    BY <2>4, <2>5
<1> QED
  BY <1>1, <1>2 DEF check_BMC1

LEMMA TypedNoFixpoint == Typed /\ NoFixpoint => Typed'
<1> USE DEF Typed, Level, depth, SAFE, UNSAFE, frameVars, blockVars
<1> SUFFICES ASSUME Typed, NoFixpoint PROVE Typed'
  OBVIOUS
<1>0. size >= 3 /\ size \in Nat /\ queue = {} /\ stack = << >>
  BY DEF NoFixpoint, FrameDone, TypeOK, Control, MainLoop
<1>1. cubes' \in [Level' -> SUBSET Cube] /\ solver' \in [Level' -> SUBSET Cube]
  BY <1>0, NewFrameType DEF NoFixpoint, TypeOK
<1>2. heap' \in Seq(StateRecord) /\ DOMAIN heap' = {}
  BY EmptySeq DEF NoFixpoint
<1>3. stack' \in Seq(Activation') /\ Len(stack') = 0
  BY <1>0, EmptySeq DEF NoFixpoint
<1>4. TypeOK'
  BY <1>0, <1>1, <1>2, <1>3 DEF NoFixpoint, TypeOK, ObligationRecord
<1>5. Control'
  BY <1>0 DEF NoFixpoint, FrameDone, Control, MainLoop
<1> QED
  BY <1>4, <1>5

-----------------------------------------------------------------------------
(* The heap keeps its latches when the punishment of a state changes, and  *)
(* every obligation of the queue keeps its type when the heap grows.       *)
HeapGrows ==
  /\ heap' \in Seq(StateRecord) /\ \A n \in DOMAIN heap' : heap'[n].next < n
  /\ Len(heap') >= Len(heap)
  /\ \A n \in 1 .. Len(heap) : heap'[n].latches = heap[n].latches

LEMMA ObligationsGrow ==
  ASSUME Typed, HeapGrows, UNCHANGED size
  PROVE  ObligationRecord \subseteq ObligationRecord'
<1>1. Len(heap) \in Nat /\ Len(heap') \in Nat /\ Len(heap') >= Len(heap)
  BY LenProperties DEF HeapGrows, Typed, TypeOK
<1>2. 2 .. Len(heap) \subseteq 2 .. Len(heap')
  BY <1>1
<1>3. depth' = depth
  BY DEF depth
<1> QED
  BY <1>2, <1>3 DEF ObligationRecord

(* A step within rec_block_cube that leaves the frames and mic alone. *)
LEMMA TypedBlock ==
  ASSUME Typed, pc = "block", pc' = "block", HeapGrows, queue' \subseteq ObligationRecord',
         UNCHANGED <<ckt, frameVars, obl, core, stack, prop, top, cex, cert, RESULT>>
  PROVE  Typed'
<1>1. Level' = Level /\ depth' = depth /\ Activation' = Activation
  BY DEF Level, depth, Activation, frameVars
<1>2. TypeOK'
  BY <1>1 DEF HeapGrows, Typed, TypeOK, frameVars, SAFE, UNSAFE
<1>3. Control'
  BY <1>1 DEF Typed, Control, MainLoop, frameVars
<1> QED
  BY <1>2, <1>3 DEF Typed

(* A queued obligation points into the heap. *)
LEMMA ObligationType ==
  ASSUME Typed, NEW o \in ObligationRecord
  PROVE  /\ o.state \in 2 .. Len(heap) /\ o.state \in DOMAIN heap
         /\ o.frame_k \in 0 .. depth /\ o.depth \in Nat
         /\ heap[o.state] \in StateRecord /\ Latches(o) \in Cube
         /\ heap[o.state].next \in 0 .. Len(heap)
<1>1. o.state \in 2 .. Len(heap) /\ o.frame_k \in 0 .. depth /\ o.depth \in Nat
  BY DEF ObligationRecord
<1>2. heap \in Seq(StateRecord) /\ Len(heap) \in Nat /\ DOMAIN heap = 1 .. Len(heap)
  BY LenProperties DEF Typed, TypeOK
<1>3. o.state \in DOMAIN heap /\ o.state \in 1 .. Len(heap)
  BY <1>1, <1>2
<1>4. heap[o.state] \in StateRecord /\ heap[o.state].next < o.state
  BY <1>2, <1>3, ElementOfSeq DEF Typed, TypeOK
<1>5. heap[o.state].next \in Nat /\ heap[o.state].latches \in Cube
  BY <1>4 DEF StateRecord
<1> QED
  BY <1>1, <1>2, <1>3, <1>4, <1>5 DEF Latches

(* Changing the punishment of one state leaves what the states are alone. *)
SameStates(g, h) ==
  /\ g \in Seq(StateRecord) /\ Len(g) = Len(h)
  /\ \A j \in 1 .. Len(h) :
       /\ g[j].latches = h[j].latches
       /\ g[j].inputs = h[j].inputs
       /\ g[j].next = h[j].next

LEMMA SameStatesGrow == Typed /\ SameStates(heap', heap) => HeapGrows
<1> SUFFICES ASSUME Typed, SameStates(heap', heap) PROVE HeapGrows
  OBVIOUS
<1>1. heap \in Seq(StateRecord) /\ \A n \in DOMAIN heap : heap[n].next < n
  BY DEF Typed, TypeOK
<1>2. Len(heap) \in Nat /\ DOMAIN heap = 1 .. Len(heap)
  BY <1>1, LenProperties
<1>3. heap' \in Seq(StateRecord) /\ Len(heap') = Len(heap) /\ DOMAIN heap' = 1 .. Len(heap')
  BY LenProperties DEF SameStates
<1>4. \A j \in 1 .. Len(heap) : heap'[j].latches = heap[j].latches /\ heap'[j].next = heap[j].next
  BY DEF SameStates
<1> QED
  BY <1>1, <1>2, <1>3, <1>4 DEF HeapGrows

LEMMA PunishType ==
  ASSUME NEW h \in Seq(StateRecord), NEW n \in 1 .. Len(h), NEW v \in Nat
  PROVE  /\ SameStates([h EXCEPT ![n].failed = v], h)
         /\ SameStates([h EXCEPT ![n].failed_depth = v], h)
<1> DEFINE a == [h[n] EXCEPT !.failed = v]
           b == [h[n] EXCEPT !.failed_depth = v]
<1>1. h[n] \in StateRecord
  BY ElementOfSeq
<1>2. /\ a \in StateRecord /\ a.latches = h[n].latches /\ a.inputs = h[n].inputs
      /\ a.next = h[n].next
  BY <1>1 DEF StateRecord
<1>3. /\ b \in StateRecord /\ b.latches = h[n].latches /\ b.inputs = h[n].inputs
      /\ b.next = h[n].next
  BY <1>1 DEF StateRecord
<1> HIDE DEF a, b
<1>4. /\ [h EXCEPT ![n] = a] \in Seq(StateRecord)
      /\ Len([h EXCEPT ![n] = a]) = Len(h)
      /\ \A j \in 1 .. Len(h) : [h EXCEPT ![n] = a][j] = IF j = n THEN a ELSE h[j]
  BY <1>1, <1>2, ExceptSeq
<1>5. /\ [h EXCEPT ![n] = b] \in Seq(StateRecord)
      /\ Len([h EXCEPT ![n] = b]) = Len(h)
      /\ \A j \in 1 .. Len(h) : [h EXCEPT ![n] = b][j] = IF j = n THEN b ELSE h[j]
  BY <1>1, <1>3, ExceptSeq
<1>6. /\ [h EXCEPT ![n].failed = v] = [h EXCEPT ![n] = a]
      /\ [h EXCEPT ![n].failed_depth = v] = [h EXCEPT ![n] = b]
  BY DEF a, b
<1>7. SameStates([h EXCEPT ![n] = a], h)
  BY <1>2, <1>4 DEF SameStates
<1>8. SameStates([h EXCEPT ![n] = b], h)
  BY <1>3, <1>5 DEF SameStates
<1> QED
  BY <1>6, <1>7, <1>8

LEMMA GiveUpHeap == \A o \in queue : Typed /\ GiveUp(o) => SameStates(heap', heap)
<1> SUFFICES ASSUME NEW o \in queue, Typed, GiveUp(o) PROVE SameStates(heap', heap)
  OBVIOUS
<1> DEFINE s  == heap[o.state]
           fd == IF s.failed_depth # 0 /\ s.failed_depth <= Reach(o) THEN s.failed_depth ELSE Reach(o)
           h  == [heap EXCEPT ![o.state].failed_depth = fd]
<1>1. o \in ObligationRecord /\ heap \in Seq(StateRecord)
  BY DEF Typed, TypeOK
<1>2. /\ o.state \in 1 .. Len(heap) /\ o.frame_k \in 0 .. depth /\ o.depth \in Nat
      /\ s \in StateRecord /\ s.next \in 0 .. Len(heap) /\ s.failed_depth \in Nat
  <2>1. Len(heap) \in Nat
    BY <1>1, LenProperties
  <2> QED
    BY <1>1, <2>1, ObligationType DEF StateRecord
<1>3. fd \in Nat
  <2>1. Reach(o) \in Nat
    BY <1>2 DEF Reach
  <2> QED
    BY <1>2, <2>1
<1> HIDE DEF fd
<1>4. SameStates(h, heap)
  BY <1>1, <1>2, <1>3, PunishType
<1> HIDE DEF h
<1>5. SameStates(heap', heap)
  <2>1. CASE s.next = 0
    BY <1>4, <2>1 DEF GiveUp, h, fd
  <2>2. CASE s.next # 0
    <3>1. s.next \in 1 .. Len(h) /\ heap' = [h EXCEPT ![s.next].failed_depth = fd]
      BY <1>2, <1>4, <2>2 DEF GiveUp, h, fd, SameStates
    <3> HIDE DEF s
    <3>2. h \in Seq(StateRecord)
      BY <1>4 DEF SameStates
    <3>3. SameStates(heap', h)
      BY <1>3, <3>1, <3>2, PunishType
    <3> QED
      BY <1>4, <3>3 DEF SameStates
  <2> QED
    BY <2>1, <2>2
<1> QED
  BY <1>5

LEMMA TypedGiveUp == \A o \in queue : Typed /\ GiveUp(o) => Typed'
<1> SUFFICES ASSUME NEW o \in queue, Typed, GiveUp(o) PROVE Typed'
  OBVIOUS
<1>6. HeapGrows
  BY GiveUpHeap, SameStatesGrow
<1>7. queue' \subseteq ObligationRecord'
  BY <1>6, ObligationsGrow DEF GiveUp, Typed, TypeOK, frameVars
<1> QED
  BY <1>6, <1>7, TypedBlock DEF GiveUp

(* Lifting a predecessor and appending it. *)
LEMMA AppendHeap ==
  ASSUME Typed, NEW l \in Cube, NEW i \in Input, NEW n \in 0 .. Len(heap),
         heap' = Append(heap, NewState(l, i, n))
  PROVE  HeapGrows /\ Len(heap') = Len(heap) + 1 /\ heap'[Len(heap')] = NewState(l, i, n)
<1> DEFINE s == NewState(l, i, n)
<1>1. heap \in Seq(StateRecord) /\ Len(heap) \in Nat /\ DOMAIN heap = 1 .. Len(heap)
  BY LenProperties DEF Typed, TypeOK
<1>2. s \in StateRecord /\ s.next = n
  BY <1>1, NewStateType DEF NewState
<1> HIDE DEF s
<1>3. /\ heap' \in Seq(StateRecord) /\ Len(heap') = Len(heap) + 1
      /\ heap'[Len(heap) + 1] = s /\ \A j \in 1 .. Len(heap) : heap'[j] = heap[j]
  BY <1>1, <1>2, AppendProperties DEF s
<1>4. DOMAIN heap' = 1 .. Len(heap) + 1
  BY <1>3, LenProperties
<1>5. \A j \in DOMAIN heap' : heap'[j].next < j
  BY <1>1, <1>2, <1>3, <1>4 DEF Typed, TypeOK
<1> QED
  BY <1>1, <1>3, <1>5 DEF HeapGrows, s

LEMMA TypedPredecessor == \A o \in queue : Typed /\ Predecessor(o) => Typed'
<1> SUFFICES ASSUME NEW o \in queue, Typed, Predecessor(o) PROVE Typed'
  OBVIOUS
<1>1. o \in ObligationRecord
  BY DEF Typed, TypeOK
<1>a. PICK m \in Into(o.frame_k, Latches(o), Latches(o)) : \E p \in Lifted(m, Latches(o)) :
        heap' = Append(heap, NewState(p, m.inputs, o.state))
  BY DEF Predecessor
<1>2. PICK p \in Lifted(m, Latches(o)) : heap' = Append(heap, NewState(p, m.inputs, o.state))
  BY <1>a
<1>3. m \in Model /\ p \in Cube /\ m.inputs \in Input
  <2>1. m \in Model
    BY QueryType
  <2> QED
    BY <2>1, LiftedType DEF Model
<1>4. o.state \in 2 .. Len(heap) /\ o.frame_k \in 0 .. depth /\ o.depth \in Nat /\ Len(heap) \in Nat
  BY <1>1, ObligationType, LenProperties DEF Typed, TypeOK
<1>5. HeapGrows /\ Len(heap') = Len(heap) + 1
  BY <1>2, <1>3, <1>4, AppendHeap
<1>6. [state |-> Len(heap'), frame_k |-> o.frame_k - 1, depth |-> o.depth + 1] \in ObligationRecord'
  <2>1. depth' = depth /\ o.frame_k > 0 /\ depth \in Int
    BY DEF Predecessor, depth, frameVars, Typed, TypeOK
  <2> QED
    BY <1>4, <1>5, <2>1 DEF ObligationRecord
<1>7. queue' \subseteq ObligationRecord'
  BY <1>5, <1>6, ObligationsGrow DEF Predecessor, Typed, TypeOK, frameVars
<1> QED
  BY <1>5, <1>7, TypedBlock DEF Predecessor

LEMMA TypedCounterexample == \A o \in queue : Typed /\ Counterexample(o) => Typed'
BY DEF Counterexample, Typed, TypeOK, Control, MainLoop, Level, depth, ObligationRecord,
       Activation, Latches, frameVars, blockVars

LEMMA TypedGetPre == Typed /\ get_pre_of_bad => Typed'
<1> SUFFICES ASSUME Typed, get_pre_of_bad PROVE Typed'
  OBVIOUS
<1>a. PICK m \in BadPreds : \E p \in LiftedBad(m) :
        heap' = << NewState(Succ(m), m.primed, 0), NewState(p, m.inputs, 1) >>
  BY DEF get_pre_of_bad
<1>1. PICK p \in LiftedBad(m) :
        heap' = << NewState(Succ(m), m.primed, 0), NewState(p, m.inputs, 1) >>
  BY <1>a
<1>2. /\ NewState(Succ(m), m.primed, 0) \in StateRecord
      /\ NewState(p, m.inputs, 1) \in StateRecord
  <2>1. m \in Model /\ m.inputs \in Input /\ m.primed \in Input
    BY QueryType DEF Model
  <2>2. Succ(m) \in Cube /\ p \in Cube
    BY <2>1, SuccType, LiftedType DEF Typed, TypeOK
  <2> QED
    BY <2>1, <2>2, NewStateType
<1>3. heap' \in Seq(StateRecord) /\ Len(heap') = 2
  BY <1>1, <1>2
<1>4. \A n \in DOMAIN heap' : heap'[n].next < n
  BY <1>1 DEF NewState
<1>5. Level' = Level /\ depth' = depth /\ Activation' = Activation
  BY DEF get_pre_of_bad, Level, depth, Activation, frameVars
<1>6. size >= 3 /\ size \in Nat /\ stack = << >>
  BY DEF get_pre_of_bad, Typed, TypeOK, Control, MainLoop
<1>7. queue' \subseteq ObligationRecord'
  BY <1>3, <1>5, <1>6 DEF get_pre_of_bad, ObligationRecord, depth
<1>8. TypeOK'
  BY <1>3, <1>4, <1>5, <1>7 DEF get_pre_of_bad, Typed, TypeOK, frameVars, SAFE, UNSAFE
<1>9. Control'
  BY <1>5, <1>6 DEF get_pre_of_bad, Typed, Control, MainLoop, frameVars
<1> QED
  BY <1>8, <1>9 DEF Typed

-----------------------------------------------------------------------------
(* A step of mic or CTG_down that leaves the frames and the queue alone. *)
LEMMA TypedMic ==
  ASSUME Typed, pc \in {"mic", "down"}, pc' \in {"mic", "down"},
         UNCHANGED <<ckt, frameVars, blockVars, prop, top, cex, cert, RESULT>>,
         core' \in Cube, stack' \in Seq(Activation), Len(stack') >= 1, Len(stack') <= 2,
         stack'[1].k = stack[1].k,
         stack'[1].cube \cup stack'[1].cand \subseteq Latches(obl)
  PROVE  Typed'
<1>1. /\ Level' = Level /\ depth' = depth /\ Activation' = Activation
      /\ ObligationRecord' = ObligationRecord /\ Latches(obl)' = Latches(obl)
  BY DEF Level, depth, Activation, ObligationRecord, Latches, frameVars, blockVars
<1>2. TypeOK'
  BY <1>1 DEF Typed, TypeOK, frameVars, blockVars
<1>3. Control'
  BY <1>1 DEF Typed, Control, MainLoop, frameVars, blockVars
<1> QED
  BY <1>2, <1>3 DEF Typed

LEMMA ActType ==
  ASSUME Typed, pc \in {"mic", "down"}
  PROVE  /\ rec_depth = 1 \/ rec_depth = 2
         /\ stack \in Seq(Activation) /\ stack[1] \in Activation
         /\ act \in Activation /\ MicCube \in Cube
<1>1. stack \in Seq(Activation) /\ Len(stack) \in Nat /\ Len(stack) >= 1 /\ Len(stack) <= 2
  BY LenProperties DEF Typed, TypeOK, Control
<1>2. act \in Activation /\ stack[1] \in Activation
  BY <1>1, ElementOfSeq DEF act, rec_depth
<1>3. act.cube \in Cube /\ core \in Cube
  BY <1>2 DEF Activation, Typed, TypeOK
<1>4. MicCube \in Cube
  BY <1>3 DEF MicCube
<1>5. \A n \in Nat : n >= 1 /\ n <= 2 => n = 1 \/ n = 2
  OBVIOUS
<1>6. rec_depth = 1 \/ rec_depth = 2
  BY <1>1, <1>5 DEF rec_depth
<1> QED
  BY <1>1, <1>2, <1>4, <1>6

(* Replacing the current activation. *)
LEMMA SetActType ==
  ASSUME Typed, pc \in {"mic", "down"}, NEW a \in Activation
  PROVE  /\ SetAct(a) \in Seq(Activation) /\ Len(SetAct(a)) = rec_depth
         /\ SetAct(a)[1] = IF rec_depth = 1 THEN a ELSE stack[1]
         /\ rec_depth = 2 => SetAct(a)[2] = a
<1>1. stack \in Seq(Activation) /\ (rec_depth = 1 \/ rec_depth = 2) /\ rec_depth = Len(stack)
  BY ActType DEF rec_depth
<1> QED
  BY <1>1, ExceptSeq DEF SetAct

LEMMA TypedSetAct ==
  ASSUME Typed, pc \in {"mic", "down"}, pc' \in {"mic", "down"},
         UNCHANGED <<ckt, frameVars, blockVars, prop, top, cex, cert, RESULT>>,
         core' \in Cube, NEW a \in Activation, stack' = SetAct(a),
         rec_depth = 1 => a.k = act.k /\ a.cube \cup a.cand \subseteq Latches(obl)
  PROVE  Typed'
<1>1. rec_depth = 1 \/ rec_depth = 2
  BY ActType
<1>2. stack' \in Seq(Activation) /\ Len(stack') >= 1 /\ Len(stack') <= 2
  BY <1>1, SetActType
<1>3. stack[1].cube \cup stack[1].cand \subseteq Latches(obl)
  BY DEF Typed, Control
<1>4. stack'[1].k = stack[1].k /\ stack'[1].cube \cup stack'[1].cand \subseteq Latches(obl)
  BY <1>1, <1>3, SetActType DEF act
<1> QED
  BY <1>2, <1>4, TypedMic

LEMMA ActSubset ==
  ASSUME Typed, pc \in {"mic", "down"}, rec_depth = 1
  PROVE  act.cube \subseteq Latches(obl) /\ act.cand \subseteq Latches(obl)
BY DEF act, Typed, Control

LEMMA TypedMicStep == Typed /\ mic => Typed'
<1> SUFFICES ASSUME Typed, mic PROVE Typed'
  OBVIOUS
<1>1. PICK l \in act.todo :
        LET a == [act EXCEPT !.todo = @ \ {l}]
        IN IF l \notin MicCube
           THEN /\ stack' = SetAct([a EXCEPT !.mic_failed = 0])
                /\ UNCHANGED pc
           ELSE /\ stack' = SetAct([a EXCEPT !.lit = l, !.cand = MicCube \ {l},
                                             !.ctg_ct = 0, !.join_ct = 0])
                /\ pc' = "down"
  BY DEF mic
<1>2. /\ act \in Activation /\ MicCube \in Cube /\ (rec_depth = 1 \/ rec_depth = 2) /\ core' \in Cube
      /\ pc = "mic" /\ UNCHANGED <<ckt, frameVars, blockVars, prop, top, cex, cert, RESULT>>
  BY ActType DEF mic, Typed, TypeOK
<1> DEFINE a == [act EXCEPT !.todo = @ \ {l}]
           b == [a EXCEPT !.mic_failed = 0]
           d == [a EXCEPT !.lit = l, !.cand = MicCube \ {l}, !.ctg_ct = 0, !.join_ct = 0]
<1>3. l \in Lit /\ a \in Activation /\ a.k = act.k /\ a.cube = act.cube /\ a.cand = act.cand
  BY <1>2 DEF Activation, Cube
<1>4. b \in Activation /\ b.k = act.k /\ b.cube = act.cube /\ b.cand = act.cand
  <2> HIDE DEF a
  <2> QED
    BY <1>3 DEF Activation
<1>5. d \in Activation /\ d.k = act.k /\ d.cube = act.cube /\ d.cand = MicCube \ {l}
  <2>1. MicCube \ {l} \in Cube /\ 0 \in 0 .. CtgTries /\ 0 \in 0 .. MaxJoins
    BY <1>2, OptionsAssumption DEF Cube
  <2> HIDE DEF a
  <2> QED
    BY <1>3, <2>1 DEF Activation
<1>6. rec_depth = 1 => MicCube = act.cube /\ act.cube \cup act.cand \subseteq Latches(obl)
  BY <1>2, ActSubset DEF MicCube
<1> HIDE DEF b, d
<1>7. CASE l \notin MicCube
  <2>1. stack' = SetAct(b) /\ pc' \in {"mic", "down"}
    BY <1>1, <1>2, <1>7 DEF b
  <2>2. rec_depth = 1 => b.k = act.k /\ b.cube \cup b.cand \subseteq Latches(obl)
    BY <1>4, <1>6
  <2> QED
    BY <1>2, <1>4, <2>1, <2>2, TypedSetAct
<1>8. CASE l \in MicCube
  <2>1. stack' = SetAct(d) /\ pc' \in {"mic", "down"}
    BY <1>1, <1>2, <1>8 DEF d
  <2>2. rec_depth = 1 => d.k = act.k /\ d.cube \cup d.cand \subseteq Latches(obl)
    BY <1>5, <1>6
  <2> QED
    BY <1>2, <1>5, <2>1, <2>2, TypedSetAct
<1> QED
  BY <1>7, <1>8

LEMMA TypedDown == Typed /\ CTG_down => Typed'
<1> SUFFICES ASSUME Typed, CTG_down PROVE Typed'
  OBVIOUS
<1>1. /\ pc = "down" /\ UNCHANGED <<ckt, blockVars, prop, top, cex, cert, RESULT>>
      /\ act \in Activation /\ (rec_depth = 1 \/ rec_depth = 2) /\ core \in Cube
  BY ActType DEF CTG_down, Typed, TypeOK
<1>2. rec_depth = 1 => act.cube \cup act.cand \subseteq Latches(obl)
  BY <1>1, ActSubset
<1>3. /\ act.mic_failed \in Nat /\ act.lit \in Lit \cup {0} /\ act.required \subseteq Lit \cup {0}
      /\ act.cand \in Cube /\ act.k \in 0 .. depth /\ act.ctg_ct \in 0 .. CtgTries
      /\ act.join_ct \in 0 .. MaxJoins
  BY <1>1 DEF Activation
<1>4. CASE DownFails
  <2> DEFINE n == act.mic_failed + 1
             a == [act EXCEPT !.mic_failed = n, !.todo = {}]
             b == [act EXCEPT !.mic_failed = n, !.required = @ \cup {act.lit}]
  <2>0. n \in Nat /\ {} \in Cube /\ act.required \cup {act.lit} \in SUBSET (Lit \cup {0})
    BY <1>3 DEF Cube
  <2> HIDE DEF n
  <2>1. a \in Activation /\ a.k = act.k /\ a.cube = act.cube /\ a.cand = act.cand
    BY <1>1, <2>0 DEF Activation
  <2>2. b \in Activation /\ b.k = act.k /\ b.cube = act.cube /\ b.cand = act.cand
    BY <1>1, <2>0 DEF Activation
  <2>3. stack' = SetAct(IF n > CtgTries THEN a ELSE b)
    BY <1>4 DEF DownFails, n
  <2> HIDE DEF a, b
  <2> DEFINE e == IF n > CtgTries THEN a ELSE b
  <2>4. e \in Activation /\ e.k = act.k /\ e.cube = act.cube /\ e.cand = act.cand
    BY <2>1, <2>2
  <2> HIDE DEF e
  <2>5. stack' = SetAct(e) /\ pc' = "mic" /\ core' \in Cube /\ UNCHANGED frameVars
    BY <1>1, <1>4, <2>3 DEF DownFails, e
  <2> QED
    BY <1>1, <1>2, <2>4, <2>5, TypedSetAct
<1>5. CASE DownSucceeds
  <2> DEFINE a == [act EXCEPT !.cube = core', !.cand = core', !.mic_failed = 0]
  <2>1. core' \in Cube /\ core' \subseteq act.cand
    BY <1>3, <1>5, CoresType DEF DownSucceeds
  <2>2. a \in Activation /\ a.k = act.k /\ a.cube = core' /\ a.cand = core'
    BY <1>1, <2>1 DEF Activation
  <2>3. stack' = SetAct(a) /\ pc' = "mic" /\ UNCHANGED frameVars
    BY <1>5 DEF DownSucceeds
  <2> HIDE DEF a
  <2> QED
    BY <1>1, <1>2, <2>1, <2>2, <2>3, TypedSetAct
<1>6. ASSUME NEW p \in Cube, ~JoinBreaks(p), Join(p) PROVE Typed'
  <2> DEFINE a == [act EXCEPT !.cand = @ \cap p, !.ctg_ct = 0, !.join_ct = @ + 1]
  <2>1. act.join_ct + 1 \in 0 .. MaxJoins /\ act.cand \cap p \in Cube /\ 0 \in 0 .. CtgTries
    BY <1>3, <1>6, OptionsAssumption DEF JoinBreaks, Cube
  <2>2. a \in Activation /\ a.k = act.k /\ a.cube = act.cube /\ a.cand = act.cand \cap p
    BY <1>1, <2>1 DEF Activation
  <2>3. stack' = SetAct(a) /\ pc' = pc /\ core' = core /\ UNCHANGED frameVars
    BY <1>6 DEF Join
  <2> HIDE DEF a
  <2> QED
    BY <1>1, <1>2, <2>2, <2>3, TypedSetAct
<1>7. ASSUME NEW p \in Cube, CtgBlockable(p), BlockCtg(p), rec_depth = 1 PROVE Typed'
  <2> DEFINE a == [act EXCEPT !.ctg_ct = @ + 1]
  <2>1. a \in Activation /\ a.k = act.k /\ a.cube = act.cube /\ a.cand = act.cand
    <3>1. act.ctg_ct + 1 \in 0 .. CtgTries
      BY <1>3, <1>7, OptionsAssumption DEF CtgBlockable
    <3> QED
      BY <1>1, <3>1 DEF Activation
  <2>2. PICK i \in act.k .. depth + 1 : stack' = Append(SetAct(a), NewMic(core', i - 1))
    BY <1>7 DEF BlockCtg
  <2> HIDE DEF a
  <2>3. core' \in Cube /\ UNCHANGED frameVars /\ pc' = "mic"
    BY <1>7, CoresType DEF BlockCtg
  <2>4. NewMic(core', i - 1) \in Activation
    <3>1. i - 1 \in 0 .. depth
      BY <1>3, <1>7 DEF CtgBlockable, depth, Typed, TypeOK
    <3> QED
      BY <2>3, <3>1, NewMicType
  <2>5. SetAct(a) \in Seq(Activation) /\ Len(SetAct(a)) = 1 /\ SetAct(a)[1] = a
    BY <1>1, <1>7, <2>1, SetActType
  <2>6. stack' \in Seq(Activation) /\ Len(stack') = 2 /\ stack'[1] = a
    <3> DEFINE s == SetAct(a)
               e == NewMic(core', i - 1)
    <3>1. Len(s) = 1 /\ s[1] = a /\ stack' = Append(s, e)
      BY <2>2, <2>5
    <3>0. s \in Seq(Activation) /\ e \in Activation
      BY <2>4, <2>5
    <3> HIDE DEF s, e
    <3>2. /\ Append(s, e) \in Seq(Activation) /\ Len(Append(s, e)) = Len(s) + 1
          /\ \A n \in 1 .. Len(s) : Append(s, e)[n] = s[n]
      BY <3>0, AppendProperties
    <3> QED
      BY <3>1, <3>2
  <2>7. stack'[1].k = stack[1].k /\ stack'[1].cube \cup stack'[1].cand \subseteq Latches(obl)
    BY <1>2, <1>7, <2>1, <2>6 DEF act
  <2> QED
    BY <1>1, <2>3, <2>6, <2>7, TypedMic
<1>8. CASE /\ rec_depth <= option_ctg_max_depth
           /\ \E m \in Into(act.k, act.cand, act.cand) : \E p \in Lifted(m, act.cand) :
                \/ CtgBlockable(p) /\ BlockCtg(p)
                \/ ~CtgBlockable(p) /\ JoinBreaks(p) /\ DownFails
                \/ ~CtgBlockable(p) /\ ~JoinBreaks(p) /\ Join(p)
  <2>1. PICK m \in Into(act.k, act.cand, act.cand) : \E p \in Lifted(m, act.cand) :
                \/ CtgBlockable(p) /\ BlockCtg(p)
                \/ ~CtgBlockable(p) /\ JoinBreaks(p) /\ DownFails
                \/ ~CtgBlockable(p) /\ ~JoinBreaks(p) /\ Join(p)
    BY <1>8
  <2>2. PICK p \in Lifted(m, act.cand) :
                \/ CtgBlockable(p) /\ BlockCtg(p)
                \/ ~CtgBlockable(p) /\ JoinBreaks(p) /\ DownFails
                \/ ~CtgBlockable(p) /\ ~JoinBreaks(p) /\ Join(p)
    BY <2>1
  <2>3. p \in Cube /\ rec_depth = 1
    BY <1>1, <1>8, QueryType, LiftedType DEF option_ctg_max_depth
  <2> QED
    BY <1>4, <1>6, <1>7, <2>2, <2>3
<1> QED
  BY <1>4, <1>5, <1>8 DEF CTG_down

LEMMA TypedBlocked == \A o \in queue : Typed /\ Blocked(o) => Typed'
<1> SUFFICES ASSUME NEW o \in queue, Typed, Blocked(o) PROVE Typed'
  OBVIOUS
<1>1. o \in ObligationRecord /\ o.frame_k \in 0 .. depth /\ Latches(o) \in Cube
  BY ObligationType DEF Typed, TypeOK
<1>2. core' \in Cube /\ core' \subseteq Latches(o)
  BY <1>1, CoresType DEF Blocked
<1>3. /\ Level' = Level /\ depth' = depth /\ Activation' = Activation
      /\ ObligationRecord' = ObligationRecord /\ heap' = heap
  BY DEF Level, depth, Activation, ObligationRecord, Blocked, frameVars
<1> DEFINE a == NewMic(core', o.frame_k)
<1>4. a \in Activation /\ a.k = o.frame_k /\ a.cube = core' /\ a.cand = {}
  BY <1>1, <1>2, NewMicType DEF NewMic
<1>5. stack' = <<a>>
  BY DEF Blocked
<1> HIDE DEF a
<1>6. stack' \in Seq(Activation) /\ Len(stack') = 1 /\ stack'[1] = a
  BY <1>4, <1>5
<1>7. TypeOK'
  <2>1. queue' \subseteq ObligationRecord' /\ core' \in Cube /\ pc' = "mic"
    BY <1>2, <1>3 DEF Blocked, Typed, TypeOK
  <2>2. stack' \in Seq(Activation') /\ Len(stack') <= 2
    BY <1>3, <1>6
  <2> QED
    BY <1>3, <2>1, <2>2 DEF Blocked, Typed, TypeOK, frameVars
<1>8. Control'
  <2>1. obl' = o /\ pc' = "mic" /\ size >= 3 /\ esf \in 1 .. depth
    BY DEF Blocked, Typed, Control, MainLoop
  <2>2. Latches(obl)' = Latches(o)
    BY <1>3, <2>1 DEF Latches
  <2>3. stack'[1].cube \cup stack'[1].cand \subseteq Latches(obl)'
    BY <1>2, <1>4, <1>6, <2>2
  <2> QED
    BY <1>1, <1>3, <1>4, <1>6, <2>1, <2>3 DEF Control, MainLoop, Blocked, frameVars
<1> QED
  BY <1>7, <1>8 DEF Typed

-----------------------------------------------------------------------------
(* Adding a cube to the frames. *)
LEMMA AddCubeType ==
  ASSUME Typed, NEW c \in Cube, NEW k \in Level, NEW b \in BOOLEAN
  PROVE  /\ CubesWith(c, k) \in [Level -> SUBSET Cube]
         /\ SolverWith(c, k, b) \in [Level -> SUBSET Cube]
<1>1. cubes \in [Level -> SUBSET Cube] /\ solver \in [Level -> SUBSET Cube]
  BY DEF Typed, TypeOK
<1>2. CubesWith(c, k) \in [Level -> SUBSET Cube]
  BY <1>1 DEF CubesWith
<1>3. DOMAIN solver = Level
  BY <1>1
<1>4. SolverWith(c, k, b) \in [Level -> SUBSET Cube]
  BY <1>1, <1>3 DEF SolverWith
<1> QED
  BY <1>2, <1>4

LEMMA TypedCtgAdded == Typed /\ CtgAdded => Typed'
<1> SUFFICES ASSUME Typed, CtgAdded PROVE Typed'
  OBVIOUS
<1>1. /\ pc = "mic" /\ pc' = "down" /\ rec_depth = 2 /\ Len(stack) = 2
      /\ act \in Activation /\ stack[1] \in Activation
      /\ size \in Nat /\ size >= 3 /\ esf \in 1 .. depth /\ core \in Cube
  BY ActType DEF CtgAdded, MicDone, Typed, TypeOK, Control, MainLoop, rec_depth
<1>2. act.k + 1 \in 1 .. depth + 1 /\ act.k + 1 \in Level
  BY <1>1 DEF Activation, Level, depth
<1>3. /\ Level' = Level /\ depth' = depth /\ Activation' = Activation
      /\ ObligationRecord' = ObligationRecord /\ Latches(obl)' = Latches(obl)
  BY DEF Level, depth, Activation, ObligationRecord, Latches, CtgAdded, add_cube, blockVars
<1>4. cubes' \in [Level -> SUBSET Cube] /\ solver' \in [Level -> SUBSET Cube]
  BY <1>1, <1>2, AddCubeType DEF CtgAdded, add_cube
<1>5. esf' \in 1 .. depth
  BY <1>1, <1>2 DEF CtgAdded, add_cube, depth
<1>6. stack' \in Seq(Activation) /\ Len(stack') = 1 /\ stack'[1] = stack[1]
  <2>1. stack' = SubSeq(stack, 1, 1)
    BY <1>1 DEF CtgAdded
  <2>2. \A i \in 1 .. 1 : stack[i] \in Activation
    BY <1>1
  <2> QED
    BY <2>1, <2>2, SubSeqProperties
<1>7. TypeOK'
  <2>1. esf' \in Nat
    BY <1>1, <1>5 DEF depth
  <2>2. stack' \in Seq(Activation') /\ Len(stack') <= 2
    BY <1>3, <1>6
  <2> QED
    BY <1>1, <1>3, <1>4, <2>1, <2>2 DEF CtgAdded, add_cube, Typed, TypeOK, blockVars
<1>8. Control'
  <2>1. /\ obl \in ObligationRecord /\ stack[1].k = obl.frame_k
        /\ stack[1].cube \cup stack[1].cand \subseteq Latches(obl)
    BY <1>1 DEF Typed, Control
  <2>2. obl' = obl /\ size' = size
    BY DEF CtgAdded, add_cube, blockVars
  <2> QED
    BY <1>1, <1>3, <1>5, <1>6, <2>1, <2>2 DEF Control, MainLoop
<1> QED
  BY <1>7, <1>8 DEF Typed

LEMMA GeneralizedHeap == Typed /\ Generalized => SameStates(heap', heap)
<1> SUFFICES ASSUME Typed, Generalized PROVE SameStates(heap', heap)
  OBVIOUS
<1> DEFINE s == heap[obl.state]
<1>1. /\ pc = "mic" /\ pc' = "block" /\ rec_depth = 1 /\ act \in Activation
      /\ size \in Nat /\ size >= 3 /\ esf \in 1 .. depth /\ obl \in ObligationRecord
      /\ heap \in Seq(StateRecord)
  BY ActType DEF Generalized, MicDone, Typed, TypeOK, Control, MainLoop
<1>2. /\ obl.state \in 2 .. Len(heap) /\ obl.frame_k \in 0 .. depth /\ obl.depth \in Nat
      /\ s.next \in 0 .. Len(heap)
  BY <1>1, ObligationType
<1>3. SameStates(heap', heap)
  <2>1. CASE s.next = 0
    BY <1>1, <2>1 DEF Generalized, SameStates
  <2>2. CASE s.next # 0
    <3> DEFINE v == Saturate(heap[s.next].failed + Punishment(Cardinality(act.cube)))
    <3>1. s.next \in 1 .. Len(heap)
      BY <1>2, <2>2
    <3>2. heap[s.next].failed \in Nat
      <4> HIDE DEF s
      <4>1. heap[s.next] \in StateRecord
        BY <1>1, <3>1, ElementOfSeq
      <4> QED
        BY <4>1 DEF StateRecord
    <3>3. Punishment(Cardinality(act.cube)) \in Nat
      BY DEF Punishment
    <3>4. v \in Nat
      BY <3>2, <3>3, OptionsAssumption DEF Saturate
    <3>5. heap' = [heap EXCEPT ![s.next].failed = v]
      BY <2>2 DEF Generalized
    <3> HIDE DEF v, s
    <3> QED
      BY <1>1, <3>1, <3>4, <3>5, PunishType
  <2> QED
    BY <2>1, <2>2
<1> QED
  BY <1>3

LEMMA TypedGeneralized == Typed /\ Generalized => Typed'
<1> SUFFICES ASSUME Typed, Generalized PROVE Typed'
  OBVIOUS
<1> DEFINE s == heap[obl.state]
<1>1. /\ pc = "mic" /\ pc' = "block" /\ rec_depth = 1 /\ act \in Activation
      /\ size \in Nat /\ size >= 3 /\ esf \in 1 .. depth /\ obl \in ObligationRecord
      /\ heap \in Seq(StateRecord)
  BY ActType DEF Generalized, MicDone, Typed, TypeOK, Control, MainLoop
<1>2. /\ obl.state \in 2 .. Len(heap) /\ obl.frame_k \in 0 .. depth /\ obl.depth \in Nat
      /\ s.next \in 0 .. Len(heap)
  BY <1>1, ObligationType
<1>4. HeapGrows
  BY GeneralizedHeap, SameStatesGrow
<1>5. PICK k \in obl.frame_k + 1 .. depth + 1 :
        /\ queue' = IF Requeued(s.latches, k)
                    THEN queue \cup {[state |-> obl.state, frame_k |-> k, depth |-> obl.depth]}
                    ELSE queue
        /\ add_cube(act.cube, k)
  BY DEF Generalized
<1>6. k \in 1 .. depth + 1 /\ k \in Level
  BY <1>1, <1>2 DEF Level, depth
<1>7. /\ Level' = Level /\ depth' = depth /\ Activation' = Activation /\ size' = size
  BY <1>5 DEF Level, depth, Activation, add_cube
<1>8. cubes' \in [Level -> SUBSET Cube] /\ solver' \in [Level -> SUBSET Cube]
  <2>1. act.cube \in Cube
    BY <1>1 DEF Activation
  <2> QED
    BY <1>5, <1>6, <2>1, AddCubeType DEF add_cube
<1>9. esf' \in 1 .. depth
  BY <1>1, <1>5, <1>6 DEF add_cube, depth
<1>10. queue' \subseteq ObligationRecord'
  <2>1. ObligationRecord \subseteq ObligationRecord'
    BY <1>4, <1>7, ObligationsGrow
  <2>2. queue \subseteq ObligationRecord'
    BY <2>1 DEF Typed, TypeOK
  <2>3. CASE Requeued(s.latches, k)
    <3>1. [state |-> obl.state, frame_k |-> k, depth |-> obl.depth] \in ObligationRecord
      BY <1>2, <1>6, <2>3 DEF ObligationRecord, Requeued, depth
    <3> HIDE DEF s
    <3> QED
      BY <1>5, <2>1, <2>2, <2>3, <3>1
  <2>4. CASE ~Requeued(s.latches, k)
    BY <1>5, <2>2, <2>4
  <2> QED
    BY <2>3, <2>4
<1>11. stack' = << >> /\ stack' \in Seq(Activation) /\ Len(stack') = 0
  BY EmptySeq DEF Generalized
<1>12. TypeOK'
  <2>1. esf' \in Nat
    BY <1>1, <1>9 DEF depth
  <2>2. stack' \in Seq(Activation') /\ Len(stack') <= 2
    BY <1>7, <1>11
  <2>3. heap' \in Seq(StateRecord) /\ \A n \in DOMAIN heap' : heap'[n].next < n
    BY <1>4 DEF HeapGrows
  <2> QED
    BY <1>1, <1>7, <1>8, <1>10, <2>1, <2>2, <2>3 DEF Generalized, Typed, TypeOK
<1>13. Control'
  BY <1>1, <1>7, <1>9, <1>11 DEF Control, MainLoop
<1> QED
  BY <1>12, <1>13 DEF Typed

LEMMA TypedPropagate == Typed /\ PropagateCube => Typed'
<1> SUFFICES ASSUME Typed, PropagateCube PROVE Typed'
  OBVIOUS
<1>1. PICK c \in prop.todo :
        /\ prop' = [prop EXCEPT !.todo = @ \ {c}]
        /\ \/ /\ core' \in Cores(prop.frame, c)
              /\ cubes' = [CubesWith(core', prop.frame + 1) EXCEPT ![prop.frame] = @ \ {c}]
              /\ solver' = SolverWith(core', prop.frame + 1, Cardinality(core') < Cardinality(c))
           \/ UNCHANGED <<core, cubes, solver>>
  BY DEF PropagateCube
<1>2. /\ pc = "propagate" /\ pc' = pc /\ size' = size /\ esf' = esf
      /\ prop.frame \in 1 .. depth /\ prop.todo \subseteq cubes[prop.frame]
      /\ prop \in [frame : Nat, todo : SUBSET Cube]
      /\ size \in Nat /\ queue = {} /\ stack = << >>
  BY DEF PropagateCube, Typed, TypeOK, Control
<1>3. prop.frame \in Level /\ prop.frame + 1 \in Level
  BY <1>2 DEF Level, depth
<1>4. Level' = Level /\ depth' = depth /\ Activation' = Activation
  BY <1>2 DEF Level, depth, Activation
<1>5. /\ prop' \in [frame : Nat, todo : SUBSET Cube]
      /\ prop'.frame = prop.frame /\ prop'.todo = prop.todo \ {c}
  BY <1>1, <1>2
<1>6. /\ core' \in Cube /\ cubes' \in [Level -> SUBSET Cube] /\ solver' \in [Level -> SUBSET Cube]
      /\ prop'.todo \subseteq cubes'[prop.frame]
  <2>1. CASE UNCHANGED <<core, cubes, solver>>
    BY <1>2, <1>5, <2>1 DEF Typed, TypeOK
  <2>2. CASE /\ core' \in Cores(prop.frame, c)
             /\ cubes' = [CubesWith(core', prop.frame + 1) EXCEPT ![prop.frame] = @ \ {c}]
             /\ solver' = SolverWith(core', prop.frame + 1, Cardinality(core') < Cardinality(c))
    <3>1. core' \in Cube
      BY <1>2, <2>2, CoresType
    <3>2. CubesWith(core', prop.frame + 1) \in [Level -> SUBSET Cube]
      BY <1>3, <3>1, AddCubeType
    <3>3. \A b \in BOOLEAN : SolverWith(core', prop.frame + 1, b) \in [Level -> SUBSET Cube]
      BY <1>3, <3>1, AddCubeType
    <3>4. (Cardinality(core') < Cardinality(c)) \in BOOLEAN
      OBVIOUS
    <3>5. solver' \in [Level -> SUBSET Cube]
      BY <2>2, <3>3, <3>4
    <3>6. CubesWith(core', prop.frame + 1)[prop.frame] = cubes[prop.frame]
      BY <1>2, <1>3 DEF CubesWith, Typed, TypeOK
    <3>7. cubes' \in [Level -> SUBSET Cube] /\ cubes'[prop.frame] = cubes[prop.frame] \ {c}
      BY <1>3, <2>2, <3>2, <3>6
    <3> QED
      BY <1>2, <1>5, <3>1, <3>5, <3>7
  <2> QED
    BY <1>1, <2>1, <2>2
<1>7. TypeOK'
  <2>1. stack' \in Seq(Activation') /\ Len(stack') <= 2
    BY <1>2, EmptySeq DEF PropagateCube
  <2>2. queue' \subseteq ObligationRecord'
    BY <1>2 DEF PropagateCube, blockVars
  <2> QED
    BY <1>2, <1>4, <1>5, <1>6, <2>1, <2>2 DEF PropagateCube, Typed, TypeOK, blockVars
<1>8. Control'
  BY <1>2, <1>4, <1>5, <1>6 DEF PropagateCube, Typed, Control, MainLoop, blockVars
<1> QED
  BY <1>7, <1>8 DEF Typed

-----------------------------------------------------------------------------
LEMMA TypedNext == Typed /\ [Next]_vars => Typed'
<1> SUFFICES ASSUME Typed, [Next]_vars PROVE Typed'
  OBVIOUS
<1> QED
  BY TypedControl, TypedBMC0, TypedBMC1, TypedNoFixpoint, TypedGetPre, TypedBlocked,
     TypedGiveUp, TypedPredecessor, TypedCounterexample, TypedMicStep, TypedDown,
     TypedCtgAdded, TypedGeneralized, TypedPropagate
  DEF Next, Engine

(* The state of an engine keeps its type, whatever the solver answers and  *)
(* whatever the options are: obligations stay below Foo and point into the *)
(* heap, mic never nests deeper than one call of CTG_down, and propagate   *)
(* only visits cubes that its frame still holds.                           *)
THEOREM TypeCorrect == Spec => []TypeOK
<1>1. Init => Typed
  BY TypedInit
<1>2. Typed /\ [Next]_vars => Typed'
  BY TypedNext
<1>3. Typed => TypeOK
  BY DEF Typed
<1> QED
  BY <1>1, <1>2, <1>3, PTL DEF Spec

(* The assertion check() makes before propagate, that no obligation is     *)
(* left in the queue, never fails, whenever another engine's verdict       *)
(* interrupts rec_block_cube.                                              *)
THEOREM QueueIsEmpty == Spec => []QueueEmptyAtPropagate
<1>1. Init => Typed
  BY TypedInit
<1>2. Typed /\ [Next]_vars => Typed'
  BY TypedNext
<1>3. Typed => QueueEmptyAtPropagate
  BY DEF Typed, Control, QueueEmptyAtPropagate
<1> QED
  BY <1>1, <1>2, <1>3, PTL DEF Spec

-----------------------------------------------------------------------------
(***************************************************************************)
(* Part 2.  The verdict of a PDR engine is right, for every circuit on     *)
(* which bad is only asserted by admissible inputs.                        *)
(***************************************************************************)

(* check_BMC0 passed: no initial assignment is bad, and F0 has no lemma. *)
FrameZero ==
  size >= 1 =>
    /\ solver[0] = {}
    /\ \A x \in State, i \in Input : ckt.init \subseteq x => <<x, i>> \notin ckt.bad \cap ckt.cons

(* While propagate runs, no step out of the top frame meets bad. *)
NoBadAhead == pc = "propagate" => BadPreds = {}

(* No closed set that avoids bad holds an assignment of the cube c. *)
Doomed(c) ==
  \A V \in SUBSET State :
    Closed(ckt, V) /\ ~MeetsBad(ckt, V) => \A x \in V : ~(c \subseteq x)

(* Every state on the way of a counterexample leads to bad. *)
HeapDoomed == \A n \in 2 .. Len(heap) : Doomed(heap[n].latches)

Decided ==
  /\ pc = "safe" => Safe(ckt)
  /\ pc = "found" => ~Safe(ckt)

Frames == FrameZero /\ FramesInvariant /\ SolverMatchesCubes

(* The inductive invariant. *)
Sound ==
  /\ Typed
  /\ BadIsAdmissible(ckt)
  /\ Frames
  /\ ObligationsAvoidFrames
  /\ MicCubesInductive
  /\ NoBadAhead
  /\ HeapDoomed
  /\ Decided
  /\ VerdictSound

-----------------------------------------------------------------------------
(* No initial assignment is bad under an admissible input. *)
LEMMA InitialNotBad ==
  ASSUME FrameZero, size >= 1
  PROVE  \A x \in State, i \in Input : ckt.init \subseteq x => <<x, i>> \notin ckt.bad \cap ckt.cons
BY DEF FrameZero

LEMMA CircuitType ==
  ASSUME Typed
  PROVE  /\ ckt \in CircuitRecord /\ ckt.next \in [Pair -> State]
         /\ ckt.bad \subseteq Pair /\ ckt.cons \subseteq Pair
         /\ \A x \in State, i \in Input : ckt.next[<<x, i>>] \in State
BY CircuitsAssumption DEF Typed, TypeOK, CircuitRecord, Pair

(* A step out of a frame, by its parts. *)
LEMMA StepOf ==
  ASSUME NEW k, NEW x \in F(k), NEW i \in Input, NEW j \in Input, Trans(ckt, x, i, j)
  PROVE  LET m == [pre |-> x, inputs |-> i, primed |-> j]
         IN m \in Steps(k) /\ m.pre = x /\ m.primed = j /\ Succ(m) = ckt.next[<<x, i>>]
BY DEF Steps, Model, Succ, F

LEMMA StepParts ==
  ASSUME NEW k, NEW m \in Steps(k)
  PROVE  /\ m.pre \in F(k) /\ m.pre \in State /\ m.inputs \in Input /\ m.primed \in Input
         /\ <<m.pre, m.inputs>> \in ckt.cons /\ <<m.pre, m.inputs>> \notin ckt.bad
         /\ <<Succ(m), m.primed>> \in ckt.cons
         /\ Succ(m) = ckt.next[<<m.pre, m.inputs>>]
BY DEF Steps, Model, Succ, Trans

(* The states of F0 a step leaves are initial. *)
LEMMA StepFromF0 ==
  ASSUME NEW m \in Steps(0)
  PROVE  m.pre \in Initial(ckt) /\ ckt.init \subseteq m.pre
<1>1. m.pre \in F(0) /\ m.pre \in State /\ m.inputs \in Input /\ <<m.pre, m.inputs>> \in ckt.cons
  BY StepParts
<1> QED
  BY <1>1 DEF F, Initial

(* What a core of an inductive cube is. *)
LEMMA CoreInductive ==
  ASSUME NEW k, NEW c \in Cube, ~is_init(c), is_inductive(k, c), NEW d \in Cores(k, c)
  PROVE  ~is_init(d) /\ is_inductive(k, d) /\ d \subseteq c
<1>1. PICK e \in SUBSET c : Into(k, c, e) = {} /\ d = IF is_init(e) THEN c ELSE e
  BY DEF Cores
<1>2. CASE is_init(e)
  BY <1>1, <1>2
<1>3. CASE ~is_init(e)
  <2>1. d = e /\ d \subseteq c
    BY <1>1, <1>3
  <2>2. Into(k, d, d) \subseteq Into(k, c, d)
    BY <2>1 DEF Into
  <2> QED
    BY <1>1, <1>3, <2>1, <2>2 DEF is_inductive
<1> QED
  BY <1>2, <1>3

-----------------------------------------------------------------------------
(* The frames depend on the circuit, the cubes and the solvers only. *)
LEMMA SameFrames ==
  ASSUME Frames, UNCHANGED <<ckt, size, cubes, solver>>
  PROVE  /\ Frames'
         /\ \A k : F(k)' = F(k)
         /\ \A k, c : is_inductive(k, c)' = is_inductive(k, c)
         /\ \A c : is_init(c)' = is_init(c)
         /\ BadPreds' = BadPreds
<1>1. depth' = depth /\ Level' = Level
  BY DEF depth, Level
<1>2. \A k : F(k)' = F(k)
  BY DEF F
<1>3. \A m : Succ(m)' = Succ(m)
  BY DEF Succ
<1>4. \A k : Steps(k)' = Steps(k)
  BY <1>2 DEF Steps, Trans, Model
<1>5. \A k, c, d : Into(k, c, d)' = Into(k, c, d)
  BY <1>3, <1>4 DEF Into
<1>6. BadPreds' = BadPreds
  BY <1>1, <1>3, <1>4 DEF BadPreds
<1>7. FrameZero'
  BY DEF Frames, FrameZero
<1>8. FramesInvariant'
  BY <1>1, <1>2, <1>3, <1>4 DEF Frames, FramesInvariant, Initial
<1>9. SolverMatchesCubes'
  BY <1>1, <1>2 DEF Frames, SolverMatchesCubes
<1> QED
  BY <1>2, <1>5, <1>6, <1>7, <1>8, <1>9 DEF Frames, is_inductive, is_init, Initial

(* A lemma is added: the frames 1 .. k lose the assignments of the cube c. *)
Strengthen(c, k) ==
  /\ UNCHANGED <<ckt, size>>
  /\ \A i \in Level : F(i)' = {x \in F(i) : i \in 1 .. k => ~(c \subseteq x)}

LEMMA StrengthenShrinks ==
  ASSUME Typed, NEW c, NEW k, Strengthen(c, k)
  PROVE  /\ \A i \in Level : F(i)' \subseteq F(i) /\ Steps(i)' \subseteq Steps(i)
         /\ \A i \in Level : \A d : is_inductive(i, d) => is_inductive(i, d)'
         /\ \A d : is_init(d)' = is_init(d)
         /\ depth \in Level /\ BadPreds = {} => BadPreds' = {}
<1>1. depth' = depth /\ \A m : Succ(m)' = Succ(m)
  BY DEF depth, Strengthen, Succ
<1>2. \A i \in Level : F(i)' \subseteq F(i)
  BY DEF Strengthen
<1>3. \A i \in Level : Steps(i)' \subseteq Steps(i)
  BY <1>2 DEF Steps, Trans, Model, Strengthen
<1>4. \A i \in Level : \A d : Into(i, d, d)' \subseteq Into(i, d, d)
  BY <1>1, <1>3 DEF Into
<1>5. depth \in Level => BadPreds' \subseteq BadPreds
  BY <1>1, <1>3 DEF BadPreds, Strengthen
<1> QED
  BY <1>2, <1>3, <1>4, <1>5 DEF is_inductive, is_init, Initial, Strengthen

(* The heart of the argument: a cube that holds no initial state and is    *)
(* inductive relative to the frame before k may be blocked in 1 .. k.      *)
LEMMA StrengthenFrames ==
  ASSUME Typed, FramesInvariant, NEW c \in Cube, NEW k \in Level \ {0}, Strengthen(c, k),
         ~is_init(c), is_inductive(k - 1, c)
  PROVE  FramesInvariant'
<1>0. /\ depth' = depth /\ Level' = Level /\ size \in Nat /\ Initial(ckt)' = Initial(ckt)
      /\ ckt' = ckt /\ \A m : Succ(m)' = Succ(m)
  BY DEF depth, Level, Strengthen, Initial, Typed, TypeOK, Succ
<1>1. \A i \in Level : F(i)' = {x \in F(i) : i \in 1 .. k => ~(c \subseteq x)}
  BY DEF Strengthen
<1>2. \A i \in Level : Initial(ckt) \subseteq F(i)'
  BY <1>1 DEF FramesInvariant, is_init
<1>3. ASSUME NEW i \in Level \ {0}, NEW j \in Level \ {0}, i <= j PROVE F(i)' \subseteq F(j)'
  <2>1. F(i) \subseteq F(j)
    BY <1>3 DEF FramesInvariant
  <2>2. j \in 1 .. k => i \in 1 .. k
    BY <1>0, <1>3 DEF Level
  <2> QED
    BY <1>1, <2>1, <2>2
<1>4. ASSUME NEW i \in Level, i + 1 \in Level, NEW m \in Steps(i)'
      PROVE  Succ(m) \in F(i + 1)' /\ (i < depth => <<Succ(m), m.primed>> \notin ckt.bad)
  <2>1. m \in Steps(i)
    BY StrengthenShrinks
  <2>2. Succ(m) \in F(i + 1) /\ (i < depth => <<Succ(m), m.primed>> \notin ckt.bad)
    BY <1>4, <2>1 DEF FramesInvariant
  <2>3. CASE i + 1 \notin 1 .. k
    BY <1>1, <1>4, <2>2, <2>3
  <2>4. CASE i + 1 \in 1 .. k
    <3>1. i <= k - 1 /\ k - 1 \in Level /\ k \in Nat /\ i \in Nat
      BY <1>0, <2>4 DEF Level
    <3>2. m.pre \in F(i)'
      BY DEF Steps
    <3>3. m.pre \in F(k - 1) /\ ~(c \subseteq m.pre)
      <4>1. CASE i = 0
        <5>1. m.pre \in Initial(ckt)
          BY <2>1, <4>1, StepFromF0
        <5> QED
          BY <3>1, <5>1 DEF FramesInvariant, is_init
      <4>2. CASE i # 0
        <5>1. i \in 1 .. k /\ i \in Level \ {0} /\ k - 1 \in Level \ {0}
          BY <3>1, <4>2
        <5>2. m.pre \in F(i) /\ ~(c \subseteq m.pre)
          BY <1>1, <3>2, <5>1
        <5>3. F(i) \subseteq F(k - 1)
          BY <3>1, <5>1 DEF FramesInvariant
        <5> QED
          BY <5>2, <5>3
      <4> QED
        BY <4>1, <4>2
    <3>4. m \in Steps(k - 1)
      BY <2>1, <3>3 DEF Steps
    <3>5. ~(c \subseteq Succ(m))
      BY <3>3, <3>4 DEF is_inductive, Into
    <3> QED
      BY <1>1, <1>4, <2>2, <3>5
  <2> QED
    BY <2>3, <2>4
<1> QED
  BY <1>0, <1>2, <1>3, <1>4 DEF FramesInvariant

-----------------------------------------------------------------------------
(* What the cubes block, and a cube held by a frame is blocked below it. *)
Unblocked(k) == {x \in State : \A j \in Level : j >= k => \A c \in cubes[j] : ~(c \subseteq x)}

LEMMA HeldIsBlocked ==
  ASSUME Typed, SolverMatchesCubes, NEW k \in Level, NEW c \in cubes[k],
         NEW i \in Level \ {0}, i <= k
  PROVE  \A x \in F(i) : ~(c \subseteq x)
<1>1. F(i) = Unblocked(i)
  BY DEF SolverMatchesCubes, Unblocked
<1>2. k >= i
  BY DEF Level, Typed, TypeOK
<1> QED
  BY <1>1, <1>2 DEF Unblocked

(* The clause of c reaches frame k, and the frames below it or it is there already. *)
LEMMA SolverStrengthens ==
  ASSUME Typed, SolverMatchesCubes, NEW c \in Cube, NEW k \in Level \ {0}, NEW all \in BOOLEAN,
         UNCHANGED <<ckt, size>>, solver' = SolverWith(c, k, all),
         all \/ \A i \in 1 .. k - 1 : \A x \in F(i) : ~(c \subseteq x)
  PROVE  Strengthen(c, k) /\ solver'[0] = solver[0]
<1>0. size \in Nat /\ k \in Nat /\ solver \in [Level -> SUBSET Cube] /\ 0 \in Level /\ k # 0
  BY DEF Typed, TypeOK, Level
<1>1. CASE c \in cubes[k]
  <2>1. solver' = solver
    BY <1>1 DEF SolverWith
  <2>2. \A i \in Level : F(i)' = F(i)
    BY <2>1 DEF F
  <2>3. ASSUME NEW i \in Level, i \in 1 .. k PROVE \A x \in F(i) : ~(c \subseteq x)
    <3>1. i \in Level \ {0} /\ i <= k
      BY <1>0, <2>3
    <3> QED
      BY <1>1, <3>1, HeldIsBlocked
  <2> QED
    BY <2>1, <2>2, <2>3 DEF Strengthen
<1>2. CASE c \notin cubes[k]
  <2>1. \A i \in Level : solver'[i] =
          IF i = k \/ (all /\ i \in 1 .. k - 1) THEN solver[i] \cup {c} ELSE solver[i]
    BY <1>0, <1>2 DEF SolverWith
  <2>2. ASSUME NEW i \in Level
        PROVE  F(i)' = {x \in F(i) : i \in 1 .. k => ~(c \subseteq x)}
    <3>0. i \in Nat
      BY <1>0 DEF Level
    <3>1. CASE i = k \/ (all /\ i \in 1 .. k - 1)
      <4>1. solver'[i] = solver[i] \cup {c} /\ i \in 1 .. k
        <5>1. solver'[i] = solver[i] \cup {c}
          BY <2>1, <3>1
        <5>2. CASE i = k
          BY <1>0, <3>0, <5>1, <5>2
        <5>3. CASE i \in 1 .. k - 1
          BY <1>0, <5>1, <5>3
        <5> QED
          BY <3>1, <5>2, <5>3
      <4> QED
        BY <4>1 DEF F
    <3>2. CASE ~(i = k \/ (all /\ i \in 1 .. k - 1))
      <4>1. solver'[i] = solver[i]
        BY <2>1, <3>2
      <4>2. F(i)' = F(i)
        BY <4>1 DEF F
      <4>3. i \in 1 .. k => \A x \in F(i) : ~(c \subseteq x)
        BY <1>0, <3>0, <3>2
      <4> QED
        BY <4>2, <4>3
    <3> QED
      BY <3>1, <3>2
  <2>3. 0 \notin 1 .. k - 1
    BY <1>0
  <2>4. solver'[0] = solver[0]
    BY <1>0, <2>1, <2>3
  <2> QED
    BY <2>2, <2>4 DEF Strengthen
<1> QED
  BY <1>1, <1>2

(* cubes[k] gains c; a frame below may lose a cube that c subsumes. *)
LEMMA MatchPreserved ==
  ASSUME Typed, SolverMatchesCubes, NEW c \in Cube, NEW k \in Level \ {0}, Strengthen(c, k),
         cubes' \in [Level -> SUBSET Cube],
         c \in cubes'[k],
         \A j \in Level : cubes'[j] \subseteq cubes[j] \cup (IF j = k THEN {c} ELSE {}),
         \A j \in Level : \A d \in cubes[j] : d \in cubes'[j] \/ (c \subseteq d /\ j <= k)
  PROVE  SolverMatchesCubes'
<1>0. Level' = Level /\ size \in Nat
  BY DEF Strengthen, Level, Typed, TypeOK
<1>1. ASSUME NEW i \in Level \ {0}
      PROVE  F(i)' = {x \in State : \A j \in Level : j >= i => \A d \in cubes'[j] : ~(d \subseteq x)}
  <2>1. F(i) = {x \in State : \A j \in Level : j >= i => \A d \in cubes[j] : ~(d \subseteq x)}
    BY DEF SolverMatchesCubes
  <2>2. F(i)' = {x \in F(i) : i \in 1 .. k => ~(c \subseteq x)}
    BY DEF Strengthen
  <2>3. i \in 1 .. k <=> k >= i
    BY <1>0 DEF Level
  <2>4. ASSUME NEW x \in F(i)', NEW j \in Level, j >= i, NEW d \in cubes'[j]
        PROVE  ~(d \subseteq x)
    BY <2>1, <2>2, <2>3, <2>4
  <2>5. ASSUME NEW x \in State, \A j \in Level : j >= i => \A d \in cubes'[j] : ~(d \subseteq x)
        PROVE  x \in F(i)'
    <3>1. k >= i => ~(c \subseteq x)
      BY <2>5
    <3>2. ASSUME NEW j \in Level, j >= i, NEW d \in cubes[j] PROVE ~(d \subseteq x)
      <4>1. CASE d \in cubes'[j]
        BY <2>5, <3>2, <4>1
      <4>2. CASE c \subseteq d /\ j <= k
        <5>1. k >= i
          BY <1>0, <3>2, <4>2 DEF Level
        <5> QED
          BY <3>1, <4>2, <5>1
      <4> QED
        BY <4>1, <4>2
    <3> QED
      BY <2>1, <2>2, <2>3, <3>1, <3>2
  <2>6. F(i)' \subseteq State
    BY DEF F
  <2> QED
    BY <2>4, <2>5, <2>6
<1> QED
  BY <1>0, <1>1 DEF SolverMatchesCubes

(* Both ways a cube is blocked keep the frames' invariants. *)
LEMMA FramesKept ==
  ASSUME Typed, Frames, NEW c \in Cube, NEW k \in Level \ {0}, Strengthen(c, k),
         solver'[0] = solver[0], SolverMatchesCubes', ~is_init(c), is_inductive(k - 1, c)
  PROVE  Frames'
<1>1. FramesInvariant'
  BY StrengthenFrames DEF Frames
<1>2. FrameZero'
  BY DEF Frames, FrameZero, Strengthen
<1> QED
  BY <1>1, <1>2 DEF Frames

LEMMA AddCubeFrames ==
  ASSUME Typed, Frames, NEW c \in Cube, NEW k \in Level \ {0}, add_cube(c, k), UNCHANGED ckt,
         ~is_init(c), is_inductive(k - 1, c)
  PROVE  Strengthen(c, k) /\ Frames'
<1>1. SolverMatchesCubes
  BY DEF Frames
<1>2. Strengthen(c, k) /\ solver'[0] = solver[0]
  BY <1>1, SolverStrengthens DEF add_cube
<1>3. cubes' \in [Level -> SUBSET Cube]
  BY AddCubeType DEF add_cube
<1>4. \A j \in Level : cubes'[j] = cubes[j] \cup (IF j = k THEN {c} ELSE {})
  BY DEF add_cube, CubesWith, Typed, TypeOK
<1>5. SolverMatchesCubes'
  BY <1>1, <1>2, <1>3, <1>4, MatchPreserved
<1> QED
  BY <1>2, <1>5, FramesKept

(* A core no smaller than its cube is the cube. *)
LEMMA CoreOfSameSize ==
  ASSUME NEW c \in Cube, NEW d \in SUBSET c, ~(Cardinality(d) < Cardinality(c))
  PROVE  d = c
<1>1. IsFiniteSet(c)
  BY StateAssumption, FS_Subset DEF Cube
<1>2. /\ IsFiniteSet(d) /\ Cardinality(d) <= Cardinality(c)
      /\ Cardinality(d) = Cardinality(c) => c = d
  BY <1>1, FS_Subset
<1>3. Cardinality(c) \in Nat /\ Cardinality(d) \in Nat
  BY <1>1, <1>2, FS_CardinalityType
<1> QED
  BY <1>2, <1>3

-----------------------------------------------------------------------------
(* The steps that leave the frames and the latches of the heap alone. *)
SameHeap == Len(heap') = Len(heap) /\ \A n \in 1 .. Len(heap) : heap'[n].latches = heap[n].latches

LEMMA SoundQuiet ==
  ASSUME Sound, Typed', UNCHANGED <<ckt, size, cubes, solver>>, SameHeap, queue' \subseteq queue,
         MicCubesInductive', NoBadAhead', Decided', VerdictSound'
  PROVE  Sound'
<1>1. Frames' /\ \A k : F(k)' = F(k)
  BY SameFrames DEF Sound
<1>2. ObligationsAvoidFrames'
  <2> SUFFICES ASSUME NEW o \in queue', NEW x \in F(o.frame_k), Latches(o)' \subseteq x
               PROVE  \E i \in Input : <<x, i>> \in ckt.bad \cap ckt.cons
    BY <1>1 DEF ObligationsAvoidFrames
  <2>1. o \in queue /\ o.state \in 2 .. Len(heap) /\ Len(heap) \in Nat
    BY ObligationType, LenProperties DEF Sound, Typed, TypeOK
  <2>2. Latches(o)' = Latches(o)
    BY <2>1 DEF Latches, SameHeap
  <2> QED
    BY <2>1, <2>2 DEF Sound, ObligationsAvoidFrames
<1>3. HeapDoomed'
  <2>1. Len(heap) \in Nat /\ 2 .. Len(heap) \subseteq 1 .. Len(heap)
    BY LenProperties DEF Sound, Typed, TypeOK
  <2> QED
    BY <2>1 DEF Sound, HeapDoomed, Doomed, SameHeap
<1>4. BadIsAdmissible(ckt)'
  BY DEF Sound, BadIsAdmissible
<1> QED
  BY <1>1, <1>2, <1>3, <1>4 DEF Sound

(* With no activation of mic there is nothing to keep inductive. *)
LEMMA NoMic == Typed' /\ pc' \notin {"mic", "down"} => MicCubesInductive'
<1> SUFFICES ASSUME Typed', pc' \notin {"mic", "down"} PROVE MicCubesInductive'
  OBVIOUS
<1>1. stack' = << >>
  BY DEF Typed, Control
<1>2. DOMAIN stack' = {}
  BY <1>1
<1> QED
  BY <1>2 DEF MicCubesInductive

LEMMA SoundControl ==
  ASSUME Sound, Typed',
         Interrupted \/ AllBlocked \/ NoPreOfBad \/ NextFrame \/ ProvedSafe \/ FoundBug
         \/ OtherEngine \/ Finished \/ UNCHANGED vars
  PROVE  Sound'
<1> USE DEF Sound, frameVars, blockVars
<1>0. /\ UNCHANGED <<ckt, size, cubes, solver>> /\ SameHeap /\ queue' = queue
      /\ stack' = stack /\ core' = core
  BY DEF Interrupted, AllBlocked, NoPreOfBad, NextFrame, ProvedSafe, FoundBug, OtherEngine,
         Finished, vars, SameHeap
<1>1. Safe(ckt)' = Safe(ckt) /\ BadPreds' = BadPreds
  BY <1>0, SameFrames DEF Safe, Closed, MeetsBad, Initial
<1>2. MicCubesInductive'
  BY <1>0, SameFrames DEF MicCubesInductive
<1>3. NoBadAhead'
  <2>1. pc' = "propagate" => BadPreds = {}
    BY DEF NoBadAhead, Interrupted, AllBlocked, NoPreOfBad, NextFrame, FrameDone, ProvedSafe,
           FoundBug, OtherEngine, Finished, vars
  <2> QED
    BY <1>1, <2>1 DEF NoBadAhead
<1>4. Decided'
  <2>1. (pc' = "safe" => pc = "safe") /\ (pc' = "found" => pc = "found")
    BY DEF Interrupted, AllBlocked, NoPreOfBad, NextFrame, FrameDone, ProvedSafe,
           FoundBug, OtherEngine, Finished, vars
  <2> QED
    BY <1>1, <2>1 DEF Decided
<1>5. VerdictSound'
  <2>1. CASE RESULT' = RESULT
    BY <1>1, <2>1 DEF VerdictSound
  <2>2. CASE ProvedSafe
    BY <1>1, <2>2 DEF ProvedSafe, VerdictSound, Decided, SAFE, UNSAFE
  <2>3. CASE FoundBug
    BY <1>1, <2>3 DEF FoundBug, VerdictSound, Decided, SAFE, UNSAFE
  <2>4. CASE OtherEngine
    BY <1>1, <2>4 DEF OtherEngine, VerdictSound, SAFE, UNSAFE
  <2> QED
    BY <2>1, <2>2, <2>3, <2>4
    DEF Interrupted, AllBlocked, NoPreOfBad, NextFrame, Finished, vars
<1> QED
  BY <1>0, <1>2, <1>3, <1>4, <1>5, SoundQuiet

(* An empty frame is equal to the next one: what it holds and is not bad   *)
(* is closed, so the circuit is safe.                                      *)
LEMMA FixpointSafe ==
  ASSUME Sound, FrameDone, cubes[prop.frame] = {}
  PROVE  Safe(ckt)
<1> DEFINE k == prop.frame
           V == {x \in F(k) : \A i \in Input : <<x, i>> \notin ckt.bad \cap ckt.cons}
<1>0. /\ k \in 1 .. depth /\ size \in Nat /\ size >= 3 /\ BadPreds = {}
      /\ k \in Level \ {0} /\ k + 1 \in Level \ {0}
  BY DEF Sound, FrameDone, Typed, TypeOK, Control, MainLoop, NoBadAhead, Level, depth
<1> HIDE DEF k
<1>1. F(k + 1) = F(k)
  <2>1. F(k) = Unblocked(k) /\ F(k + 1) = Unblocked(k + 1)
    BY <1>0 DEF Sound, Frames, SolverMatchesCubes, Unblocked
  <2>2. \A j \in Level : j >= k <=> j = k \/ j >= k + 1
    BY <1>0 DEF Level
  <2>3. cubes[k] = {}
    BY DEF k
  <2>4. Unblocked(k) = Unblocked(k + 1)
    BY <2>2, <2>3 DEF Unblocked
  <2> QED
    BY <2>1, <2>4
<1>2. Initial(ckt) \subseteq V
  <2>1. Initial(ckt) \subseteq F(k)
    BY <1>0 DEF Sound, Frames, FramesInvariant
  <2>2. \A x \in Initial(ckt), i \in Input : <<x, i>> \notin ckt.bad \cap ckt.cons
    <3>1. FrameZero /\ size >= 1
      BY <1>0 DEF Sound, Frames
    <3> QED
      BY <3>1, InitialNotBad DEF Initial
  <2> QED
    BY <2>1, <2>2
<1>3. ASSUME NEW x \in V, NEW i \in Input, NEW j \in Input,
             <<x, i>> \in ckt.cons, <<ckt.next[<<x, i>>], j>> \in ckt.cons
      PROVE  ckt.next[<<x, i>>] \in V
  <2> DEFINE y == ckt.next[<<x, i>>]
  <2>0. x \in F(k) /\ <<x, i>> \notin ckt.bad
    BY <1>3
  <2>1. y \in F(k)
    <3> DEFINE m == [pre |-> x, inputs |-> i, primed |-> j]
    <3>1. m \in Steps(k) /\ Succ(m) = y
      BY <1>3, <2>0, StepOf DEF Trans
    <3> HIDE DEF m, y
    <3>2. Succ(m) \in F(k + 1)
      BY <1>0, <3>1 DEF Sound, Frames, FramesInvariant
    <3> QED
      BY <1>1, <3>1, <3>2
  <2>2. ASSUME NEW l \in Input, <<y, l>> \in ckt.bad \cap ckt.cons PROVE FALSE
    <3> DEFINE m == [pre |-> x, inputs |-> i, primed |-> l]
    <3>1. m \in Steps(k) /\ Succ(m) = y /\ m.primed = l
      BY <1>3, <2>0, <2>2, StepOf DEF Trans
    <3> HIDE DEF m, y
    <3>2. CASE k < depth
      BY <1>0, <2>2, <3>1, <3>2 DEF Sound, Frames, FramesInvariant
    <3>3. CASE k = depth
      BY <1>0, <2>2, <3>1, <3>3 DEF BadPreds
    <3> QED
      BY <1>0, <3>2, <3>3 DEF depth
  <2> QED
    BY <2>1, <2>2
<1>4. V \in SUBSET State /\ Closed(ckt, V) /\ ~MeetsBad(ckt, V)
  <2>1. V \in SUBSET State
    BY DEF F
  <2>2. Closed(ckt, V)
    BY <1>3 DEF Closed
  <2>3. ~MeetsBad(ckt, V)
    BY DEF MeetsBad
  <2> QED
    BY <2>1, <2>2, <2>3
<1> QED
  BY <1>2, <1>4 DEF Safe

LEMMA SoundFixpoint == Sound /\ Typed' /\ FixpointFound => Sound'
<1> SUFFICES ASSUME Sound, Typed', FixpointFound PROVE Sound'
  OBVIOUS
<1>1. Safe(ckt)
  BY FixpointSafe DEF FixpointFound
<1>2. UNCHANGED <<ckt, size, cubes, solver, heap, queue>> /\ pc' = "safe"
  BY DEF FixpointFound, frameVars, blockVars
<1>3. Safe(ckt)'
  BY <1>1, <1>2 DEF Safe, Closed, MeetsBad, Initial
<1>4. VerdictSound'
  <2>1. RESULT' = RESULT \/ RESULT' = SAFE
    BY DEF FixpointFound
  <2>2. RESULT # UNSAFE
    BY <1>1 DEF Sound, VerdictSound
  <2> QED
    BY <1>3, <2>1, <2>2 DEF VerdictSound, SAFE, UNSAFE
<1>5. Decided' /\ NoBadAhead' /\ MicCubesInductive' /\ SameHeap
  BY <1>2, <1>3, NoMic DEF Decided, NoBadAhead, SameHeap
<1> QED
  BY <1>2, <1>4, <1>5, SoundQuiet

-----------------------------------------------------------------------------
(* An obligation's cube meets no frame below its own but in bad states, so *)
(* it holds no initial state.                                              *)
LEMMA NotInitial ==
  ASSUME Sound, NEW o \in queue, size >= 3
  PROVE  ~is_init(Latches(o))
<1>1. o.frame_k \in Level
  BY ObligationType DEF Sound, Typed, TypeOK, Level, depth
<1>2. Initial(ckt) \subseteq F(o.frame_k)
  BY <1>1 DEF Sound, Frames, FramesInvariant
<1>3. FrameZero /\ size >= 1
  BY DEF Sound, Frames, Typed, TypeOK
<1>4. \A x \in Initial(ckt), i \in Input : <<x, i>> \notin ckt.bad \cap ckt.cons
  BY <1>3, InitialNotBad DEF Initial
<1> QED
  BY <1>2, <1>4 DEF Sound, ObligationsAvoidFrames, is_init

LEMMA SoundBlocked == \A o \in queue : Sound /\ Typed' /\ Blocked(o) => Sound'
<1> SUFFICES ASSUME NEW o \in queue, Sound, Typed', Blocked(o) PROVE Sound'
  OBVIOUS
<1>1. UNCHANGED <<ckt, size, cubes, solver, heap, RESULT>> /\ pc' = "mic" /\ queue' \subseteq queue
  BY DEF Blocked, frameVars
<1>2. Latches(o) \in Cube /\ size >= 3
  BY ObligationType DEF Sound, Typed, TypeOK, Control, MainLoop, Blocked
<1>3. ~is_init(core') /\ is_inductive(o.frame_k, core')
  <2>1. ~is_init(Latches(o)) /\ is_inductive(o.frame_k, Latches(o))
    BY <1>2, NotInitial DEF Blocked
  <2>2. core' \in Cores(o.frame_k, Latches(o))
    BY DEF Blocked
  <2> QED
    BY <1>2, <2>1, <2>2, CoreInductive
<1>4. MicCubesInductive'
  <2>1. stack' = <<NewMic(core', o.frame_k)>>
    BY DEF Blocked
  <2>2. DOMAIN stack' = {1} /\ stack'[1].cube = core' /\ stack'[1].k = o.frame_k
    BY <2>1 DEF NewMic
  <2>3. PICK c : c = core'
    OBVIOUS
  <2>4. ~is_init(c)' /\ is_inductive(o.frame_k, c)'
    BY <1>1, <1>3, <2>3, SameFrames DEF Sound
  <2> QED
    BY <2>2, <2>3, <2>4 DEF MicCubesInductive
<1>5. Decided' /\ NoBadAhead' /\ SameHeap
  BY <1>1 DEF Decided, NoBadAhead, SameHeap
<1>6. VerdictSound'
  BY <1>1 DEF Sound, VerdictSound, Safe, Closed, MeetsBad, Initial
<1> QED
  BY <1>1, <1>4, <1>5, <1>6, SoundQuiet

LEMMA SoundGiveUp == \A o \in queue : Sound /\ Typed' /\ GiveUp(o) => Sound'
<1> SUFFICES ASSUME NEW o \in queue, Sound, Typed', GiveUp(o) PROVE Sound'
  OBVIOUS
<1>1. /\ UNCHANGED <<ckt, size, cubes, solver, RESULT, pc>> /\ pc = "block"
      /\ queue' \subseteq queue
  BY DEF GiveUp, frameVars
<1>2. SameHeap
  BY GiveUpHeap DEF Sound, SameStates, SameHeap
<1>3. Decided' /\ NoBadAhead' /\ MicCubesInductive'
  BY <1>1, NoMic DEF Decided, NoBadAhead
<1>4. VerdictSound'
  BY <1>1 DEF Sound, VerdictSound, Safe, Closed, MeetsBad, Initial
<1> QED
  BY <1>1, <1>2, <1>3, <1>4, SoundQuiet

(* A step out of an initial state into a doomed cube: no closed set that   *)
(* holds the initial states avoids bad.                                    *)
LEMMA CounterexampleUnsafe ==
  ASSUME Sound, NEW o \in queue, NEW m \in Into(0, Latches(o), Latches(o))
  PROVE  ~Safe(ckt)
<1>1. m \in Steps(0) /\ Latches(o) \subseteq Succ(m)
  BY DEF Into
<1>2. /\ m.pre \in Initial(ckt) /\ m.inputs \in Input /\ m.primed \in Input
      /\ <<m.pre, m.inputs>> \in ckt.cons /\ <<Succ(m), m.primed>> \in ckt.cons
      /\ Succ(m) = ckt.next[<<m.pre, m.inputs>>]
  BY <1>1, StepFromF0, StepParts
<1>3. Doomed(Latches(o))
  BY ObligationType DEF Sound, Typed, TypeOK, HeapDoomed, Latches
<1> SUFFICES ASSUME NEW V \in SUBSET State, Initial(ckt) \subseteq V, Closed(ckt, V), ~MeetsBad(ckt, V)
             PROVE  FALSE
  BY DEF Safe
<1>4. Succ(m) \in V
  BY <1>2 DEF Closed
<1> QED
  BY <1>1, <1>3, <1>4 DEF Doomed

LEMMA SoundCounterexample == \A o \in queue : Sound /\ Typed' /\ Counterexample(o) => Sound'
<1> SUFFICES ASSUME NEW o \in queue, Sound, Typed', Counterexample(o) PROVE Sound'
  OBVIOUS
<1>1. UNCHANGED <<ckt, size, cubes, solver, heap, queue, RESULT>> /\ pc' = "found"
  BY DEF Counterexample, frameVars, blockVars
<1>2. Safe(ckt)' = Safe(ckt)
  BY <1>1 DEF Safe, Closed, MeetsBad, Initial
<1>3. ~Safe(ckt)
  BY CounterexampleUnsafe DEF Counterexample
<1>4. Decided' /\ NoBadAhead' /\ MicCubesInductive' /\ SameHeap
  BY <1>1, <1>2, <1>3, NoMic DEF Decided, NoBadAhead, SameHeap
<1>5. VerdictSound'
  BY <1>1, <1>2 DEF Sound, VerdictSound
<1> QED
  BY <1>1, <1>4, <1>5, SoundQuiet

-----------------------------------------------------------------------------
(* mic and CTG_down keep the cubes they generalize inductive. *)
LEMMA MicCubes ==
  ASSUME Sound, pc \in {"mic", "down"}
  PROVE  /\ ~is_init(stack[1].cube) /\ is_inductive(stack[1].k, stack[1].cube)
         /\ rec_depth = 2 => ~is_init(core) /\ is_inductive(act.k, core)
         /\ DOMAIN stack = 1 .. rec_depth
<1>1. stack \in Seq(Activation) /\ (rec_depth = 1 \/ rec_depth = 2)
  BY ActType DEF Sound
<1>2. DOMAIN stack = 1 .. rec_depth
  BY <1>1, LenProperties DEF rec_depth
<1>3. 1 \in DOMAIN stack /\ (rec_depth = 2 => 2 \in DOMAIN stack)
  BY <1>1, <1>2
<1> QED
  BY <1>2, <1>3 DEF Sound, MicCubesInductive, act

LEMMA SetActMic ==
  ASSUME Sound, pc \in {"mic", "down"}, UNCHANGED <<ckt, size, cubes, solver>>,
         NEW a \in Activation, stack' = SetAct(a), a.k = act.k,
         rec_depth = 1 => ~is_init(a.cube) /\ is_inductive(a.k, a.cube),
         rec_depth = 2 => ~is_init(core') /\ is_inductive(a.k, core')
  PROVE  MicCubesInductive'
<1>1. /\ (rec_depth = 1 \/ rec_depth = 2) /\ stack' \in Seq(Activation) /\ Len(stack') = rec_depth
      /\ stack'[1] = IF rec_depth = 1 THEN a ELSE stack[1]
      /\ rec_depth = 2 => stack'[2] = a
  BY ActType, SetActType DEF Sound
<1>2. DOMAIN stack' = 1 .. rec_depth
  BY <1>1, LenProperties
<1>3. PICK c : c = core'
  OBVIOUS
<1>4. /\ \A d : is_init(d)' = is_init(d)
      /\ \A k, d : is_inductive(k, d)' = is_inductive(k, d)
  BY SameFrames DEF Sound
<1>5. PICK b : b = stack'[1]
  OBVIOUS
<1>6. ~is_init(b.cube)' /\ is_inductive(b.k, b.cube)'
  BY <1>1, <1>4, <1>5, MicCubes
<1>7. rec_depth = 2 => ~is_init(c)' /\ is_inductive(a.k, c)'
  BY <1>3, <1>4
<1>8. CASE rec_depth = 1
  <2>1. DOMAIN stack' = {1}
    BY <1>2, <1>8
  <2> QED
    BY <1>5, <1>6, <2>1 DEF MicCubesInductive
<1>9. CASE rec_depth = 2
  <2>1. DOMAIN stack' = {1, 2}
    BY <1>2, <1>9
  <2> QED
    BY <1>1, <1>3, <1>5, <1>6, <1>7, <1>9, <2>1 DEF MicCubesInductive
<1> QED
  BY <1>1, <1>8, <1>9

LEMMA SoundMicQuiet ==
  ASSUME Sound, Typed', pc' \in {"mic", "down"}, MicCubesInductive',
         UNCHANGED <<ckt, frameVars, blockVars, RESULT>>
  PROVE  Sound'
<1>1. UNCHANGED <<ckt, size, cubes, solver, heap, queue, RESULT>>
  BY DEF frameVars, blockVars
<1>2. Decided' /\ NoBadAhead' /\ SameHeap
  BY <1>1 DEF Decided, NoBadAhead, SameHeap
<1>3. VerdictSound'
  BY <1>1 DEF Sound, VerdictSound, Safe, Closed, MeetsBad, Initial
<1> QED
  BY <1>1, <1>2, <1>3, SoundQuiet

LEMMA SoundMic == Sound /\ Typed' /\ mic => Sound'
<1> SUFFICES ASSUME Sound, Typed', mic PROVE Sound'
  OBVIOUS
<1>1. /\ act \in Activation /\ MicCube \in Cube /\ (rec_depth = 1 \/ rec_depth = 2)
      /\ pc = "mic" /\ pc' \in {"mic", "down"}
      /\ UNCHANGED <<ckt, frameVars, blockVars, core, prop, top, cex, cert, RESULT>>
  BY ActType DEF mic, Sound
<1>2. PICK a \in Activation : stack' = SetAct(a) /\ a.k = act.k /\ a.cube = act.cube
  <2>1. PICK l \in act.todo :
          LET a == [act EXCEPT !.todo = @ \ {l}]
          IN IF l \notin MicCube
             THEN /\ stack' = SetAct([a EXCEPT !.mic_failed = 0])
                  /\ UNCHANGED pc
             ELSE /\ stack' = SetAct([a EXCEPT !.lit = l, !.cand = MicCube \ {l},
                                               !.ctg_ct = 0, !.join_ct = 0])
                  /\ pc' = "down"
    BY DEF mic
  <2> DEFINE a == [act EXCEPT !.todo = @ \ {l}]
             b == [a EXCEPT !.mic_failed = 0]
             d == [a EXCEPT !.lit = l, !.cand = MicCube \ {l}, !.ctg_ct = 0, !.join_ct = 0]
  <2>2. l \in Lit /\ a \in Activation /\ a.k = act.k /\ a.cube = act.cube
    BY <1>1 DEF Activation, Cube
  <2>3. b \in Activation /\ b.k = act.k /\ b.cube = act.cube
    <3> HIDE DEF a
    <3> QED
      BY <2>2 DEF Activation
  <2>4. d \in Activation /\ d.k = act.k /\ d.cube = act.cube
    <3>1. MicCube \ {l} \in Cube /\ 0 \in 0 .. CtgTries /\ 0 \in 0 .. MaxJoins
      BY <1>1, OptionsAssumption DEF Cube
    <3> HIDE DEF a
    <3> QED
      BY <2>2, <3>1 DEF Activation
  <2>5. stack' = SetAct(b) \/ stack' = SetAct(d)
    BY <2>1
  <2> HIDE DEF b, d
  <2> QED
    BY <2>3, <2>4, <2>5
<1>3. MicCubesInductive'
  <2>1. UNCHANGED <<ckt, size, cubes, solver, core>>
    BY <1>1 DEF frameVars
  <2>2. rec_depth = 1 => act = stack[1]
    BY DEF act
  <2> QED
    BY <1>1, <1>2, <2>1, <2>2, MicCubes, SetActMic
<1> QED
  BY <1>1, <1>3, SoundMicQuiet

LEMMA SoundDown == Sound /\ Typed' /\ CTG_down => Sound'
<1> SUFFICES ASSUME Sound, Typed', CTG_down PROVE Sound'
  OBVIOUS
<1>1. /\ act \in Activation /\ (rec_depth = 1 \/ rec_depth = 2) /\ pc = "down"
      /\ UNCHANGED <<ckt, blockVars, RESULT>>
      /\ rec_depth = 1 => act = stack[1]
  BY ActType DEF CTG_down, Sound, act
<1>2. /\ act.mic_failed \in Nat /\ act.lit \in Lit \cup {0} /\ act.required \subseteq Lit \cup {0}
      /\ act.cand \in Cube /\ act.k \in 0 .. depth /\ act.ctg_ct \in 0 .. CtgTries
      /\ act.join_ct \in 0 .. MaxJoins
  BY <1>1 DEF Activation
<1>3. ASSUME NEW a \in Activation, stack' = SetAct(a), a.k = act.k, a.cube = act.cube,
             UNCHANGED <<frameVars, core>>, pc' \in {"mic", "down"}
      PROVE  Sound'
  <2>1. UNCHANGED <<ckt, size, cubes, solver, core>>
    BY <1>1, <1>3 DEF frameVars
  <2>2. MicCubesInductive'
    BY <1>1, <1>3, <2>1, MicCubes, SetActMic
  <2> QED
    BY <1>1, <1>3, <2>2, SoundMicQuiet
<1>4. CASE DownFails
  <2> DEFINE n == act.mic_failed + 1
             a == [act EXCEPT !.mic_failed = n, !.todo = {}]
             b == [act EXCEPT !.mic_failed = n, !.required = @ \cup {act.lit}]
  <2>0. n \in Nat /\ {} \in Cube /\ act.required \cup {act.lit} \in SUBSET (Lit \cup {0})
    BY <1>2 DEF Cube
  <2>3. /\ stack' = SetAct(a) \/ stack' = SetAct(b)
        /\ UNCHANGED <<frameVars, core>> /\ pc' = "mic"
    BY <1>4 DEF DownFails
  <2> HIDE DEF n
  <2>1. a \in Activation /\ a.k = act.k /\ a.cube = act.cube
    BY <1>1, <2>0 DEF Activation
  <2>2. b \in Activation /\ b.k = act.k /\ b.cube = act.cube
    BY <1>1, <2>0 DEF Activation
  <2> HIDE DEF a, b
  <2> QED
    BY <1>3, <2>1, <2>2, <2>3
<1>5. CASE ~is_init(act.cand) /\ is_inductive(act.k, act.cand) /\ DownSucceeds
  <2> DEFINE a == [act EXCEPT !.cube = core', !.cand = core', !.mic_failed = 0]
  <2>1. ~is_init(core') /\ is_inductive(act.k, core') /\ core' \in Cube
    <3>1. core' \in Cores(act.k, act.cand)
      BY <1>5 DEF DownSucceeds
    <3> QED
      BY <1>2, <1>5, <3>1, CoreInductive, CoresType
  <2>2. a \in Activation /\ a.k = act.k /\ a.cube = core'
    BY <1>1, <2>1 DEF Activation
  <2>3. stack' = SetAct(a) /\ UNCHANGED frameVars /\ pc' = "mic"
    BY <1>5 DEF DownSucceeds
  <2> HIDE DEF a
  <2>4. UNCHANGED <<ckt, size, cubes, solver>>
    BY <1>1, <2>3 DEF frameVars
  <2>5. MicCubesInductive'
    BY <1>1, <2>1, <2>2, <2>3, <2>4, SetActMic
  <2> QED
    BY <1>1, <2>3, <2>5, SoundMicQuiet
<1>6. ASSUME NEW p \in Cube, ~JoinBreaks(p), Join(p) PROVE Sound'
  <2> DEFINE a == [act EXCEPT !.cand = @ \cap p, !.ctg_ct = 0, !.join_ct = @ + 1]
  <2>1. act.join_ct + 1 \in 0 .. MaxJoins /\ act.cand \cap p \in Cube /\ 0 \in 0 .. CtgTries
    BY <1>2, <1>6, OptionsAssumption DEF JoinBreaks, Cube
  <2>2. a \in Activation /\ a.k = act.k /\ a.cube = act.cube
    BY <1>1, <2>1 DEF Activation
  <2>3. stack' = SetAct(a) /\ pc' = pc /\ UNCHANGED <<frameVars, core>>
    BY <1>6 DEF Join
  <2> HIDE DEF a
  <2> QED
    BY <1>1, <1>3, <2>2, <2>3
<1>7. ASSUME NEW p \in Cube, CtgBlockable(p), BlockCtg(p), rec_depth = 1 PROVE Sound'
  <2> DEFINE a == [act EXCEPT !.ctg_ct = @ + 1]
  <2>1. a \in Activation /\ a.k = act.k /\ a.cube = act.cube
    <3>1. act.ctg_ct + 1 \in 0 .. CtgTries
      BY <1>2, <1>7, OptionsAssumption DEF CtgBlockable
    <3> QED
      BY <1>1, <3>1 DEF Activation
  <2>2. PICK i \in act.k .. depth + 1 :
          PushesTo(core', act.k, i) /\ stack' = Append(SetAct(a), NewMic(core', i - 1))
    BY <1>7 DEF BlockCtg
  <2> HIDE DEF a
  <2>3. UNCHANGED <<ckt, size, cubes, solver, frameVars>> /\ pc' = "mic"
    BY <1>1, <1>7 DEF BlockCtg, frameVars
  <2>4. ~is_init(core') /\ is_inductive(act.k - 1, core') /\ core' \in Cube
    <3>1. core' \in Cores(act.k - 1, p) /\ ~is_init(p) /\ is_inductive(act.k - 1, p)
      BY <1>7 DEF BlockCtg, CtgBlockable
    <3> QED
      BY <3>1, CoreInductive, CoresType
  <2>5. is_inductive(i - 1, core')
    <3>1. i = act.k \/ i - 1 \in act.k .. i - 1
      BY <1>2, <2>2
    <3> QED
      BY <2>2, <2>4, <3>1 DEF PushesTo
  <2>6. i - 1 \in 0 .. depth
    BY <1>2, <1>7, <2>2 DEF CtgBlockable, depth, Sound, Typed, TypeOK
  <2>7. SetAct(a) \in Seq(Activation) /\ Len(SetAct(a)) = 1 /\ SetAct(a)[1] = a
    BY <1>1, <1>7, <2>1, SetActType DEF Sound
  <2>8. DOMAIN stack' = {1, 2} /\ stack'[1] = a /\ stack'[2].k = i - 1
    <3> DEFINE s == SetAct(a)
               e == NewMic(core', i - 1)
    <3>1. e \in Activation /\ e.k = i - 1
      BY <2>4, <2>6, NewMicType DEF NewMic
    <3>2. s \in Seq(Activation)
      BY <2>7
    <3>3. Len(s) = 1 /\ s[1] = a /\ stack' = Append(s, e)
      BY <2>2, <2>7
    <3> HIDE DEF s, e
    <3>4. /\ Append(s, e) \in Seq(Activation) /\ Len(Append(s, e)) = Len(s) + 1
          /\ \A n \in 1 .. Len(s) : Append(s, e)[n] = s[n]
          /\ Append(s, e)[Len(s) + 1] = e
      BY <3>1, <3>2, AppendProperties
    <3>5. DOMAIN Append(s, e) = 1 .. Len(Append(s, e))
      BY <3>4, LenProperties
    <3> QED
      BY <3>1, <3>3, <3>4, <3>5
  <2>9. MicCubesInductive'
    <3>1. PICK c : c = core'
      OBVIOUS
    <3>2. /\ \A d : is_init(d)' = is_init(d)
          /\ \A k, d : is_inductive(k, d)' = is_inductive(k, d)
      BY <2>3, SameFrames DEF Sound
    <3>3. ~is_init(c)' /\ is_inductive(i - 1, c)'
      BY <2>4, <2>5, <3>1, <3>2
    <3>4. PICK b : b = stack'[1]
      OBVIOUS
    <3>5. ~is_init(b.cube)' /\ is_inductive(b.k, b.cube)'
      BY <1>1, <1>7, <2>1, <2>8, <3>2, <3>4, MicCubes
    <3> QED
      BY <2>8, <3>1, <3>3, <3>4, <3>5 DEF MicCubesInductive
  <2> QED
    BY <1>1, <2>3, <2>9, SoundMicQuiet
<1>8. CASE /\ rec_depth <= option_ctg_max_depth
           /\ \E m \in Into(act.k, act.cand, act.cand) : \E p \in Lifted(m, act.cand) :
                \/ CtgBlockable(p) /\ BlockCtg(p)
                \/ ~CtgBlockable(p) /\ JoinBreaks(p) /\ DownFails
                \/ ~CtgBlockable(p) /\ ~JoinBreaks(p) /\ Join(p)
  <2>1. PICK m \in Into(act.k, act.cand, act.cand) : \E p \in Lifted(m, act.cand) :
                \/ CtgBlockable(p) /\ BlockCtg(p)
                \/ ~CtgBlockable(p) /\ JoinBreaks(p) /\ DownFails
                \/ ~CtgBlockable(p) /\ ~JoinBreaks(p) /\ Join(p)
    BY <1>8
  <2>2. PICK p \in Lifted(m, act.cand) :
                \/ CtgBlockable(p) /\ BlockCtg(p)
                \/ ~CtgBlockable(p) /\ JoinBreaks(p) /\ DownFails
                \/ ~CtgBlockable(p) /\ ~JoinBreaks(p) /\ Join(p)
    BY <2>1
  <2>3. p \in Cube /\ rec_depth = 1
    BY <1>1, <1>8, QueryType, LiftedType DEF option_ctg_max_depth
  <2> QED
    BY <1>4, <1>6, <1>7, <2>2, <2>3
<1> QED
  BY <1>4, <1>5, <1>8 DEF CTG_down

-----------------------------------------------------------------------------
(* The states that are lifted avoid the frames below and are doomed. *)
LEMMA LiftedBadDoomed ==
  ASSUME Sound, NEW m \in Model, NEW p \in LiftedBad(m)
  PROVE  Doomed(p)
<1> SUFFICES ASSUME NEW V \in SUBSET State, Closed(ckt, V), ~MeetsBad(ckt, V),
                    NEW x \in V, p \subseteq x
             PROVE  FALSE
  BY DEF Doomed
<1>1. LiftsToBad(x, m.inputs, m.primed) /\ m.inputs \in Input /\ m.primed \in Input
  BY DEF LiftedBad, Model
<1>2. CASE <<x, m.inputs>> \in ckt.bad
  BY <1>1, <1>2 DEF Sound, BadIsAdmissible, MeetsBad
<1>3. CASE /\ <<x, m.inputs>> \in ckt.cons
           /\ <<ckt.next[<<x, m.inputs>>], m.primed>> \in ckt.cons \cap ckt.bad
  <2>1. ckt.next[<<x, m.inputs>>] \in V
    BY <1>1, <1>3 DEF Closed
  <2> QED
    BY <1>1, <1>3, <2>1 DEF MeetsBad
<1> QED
  BY <1>1, <1>2, <1>3 DEF LiftsToBad

LEMMA LiftedDoomed ==
  ASSUME Sound, NEW m \in Model, NEW c, Doomed(c), NEW p \in Lifted(m, c)
  PROVE  Doomed(p)
<1> SUFFICES ASSUME NEW V \in SUBSET State, Closed(ckt, V), ~MeetsBad(ckt, V),
                    NEW x \in V, p \subseteq x
             PROVE  FALSE
  BY DEF Doomed
<1>1. LiftsTo(x, m.inputs, m.primed, c) /\ m.inputs \in Input /\ m.primed \in Input
  BY DEF Lifted, Model
<1>2. CASE <<x, m.inputs>> \in ckt.bad
  BY <1>1, <1>2 DEF Sound, BadIsAdmissible, MeetsBad
<1>3. CASE /\ <<x, m.inputs>> \in ckt.cons
           /\ <<ckt.next[<<x, m.inputs>>], m.primed>> \in ckt.cons
           /\ c \subseteq ckt.next[<<x, m.inputs>>]
  <2>1. ckt.next[<<x, m.inputs>>] \in V
    BY <1>1, <1>3 DEF Closed
  <2> QED
    BY <1>3, <2>1 DEF Doomed
<1> QED
  BY <1>1, <1>2, <1>3 DEF LiftsTo

(* No assignment of c in frame k, except bad ones. *)
Avoids(c, k) ==
  \A x \in F(k) : c \subseteq x => \E i \in Input : <<x, i>> \in ckt.bad \cap ckt.cons

LEMMA LiftedBadAvoids ==
  ASSUME Sound, NEW m \in Model, NEW p \in LiftedBad(m),
         NEW k \in Level, k + 1 \in Level, k < depth
  PROVE  Avoids(p, k)
<1> SUFFICES ASSUME NEW x \in F(k), p \subseteq x
             PROVE  \E i \in Input : <<x, i>> \in ckt.bad \cap ckt.cons
  BY DEF Avoids
<1>0. x \in State
  BY DEF F
<1>1. LiftsToBad(x, m.inputs, m.primed) /\ m.inputs \in Input /\ m.primed \in Input
  BY <1>0 DEF LiftedBad, Model
<1>2. CASE <<x, m.inputs>> \in ckt.bad
  BY <1>1, <1>2 DEF Sound, BadIsAdmissible
<1>3. CASE /\ <<x, m.inputs>> \notin ckt.bad /\ <<x, m.inputs>> \in ckt.cons
           /\ <<ckt.next[<<x, m.inputs>>], m.primed>> \in ckt.cons \cap ckt.bad
  <2> DEFINE s == [pre |-> x, inputs |-> m.inputs, primed |-> m.primed]
  <2>1. s \in Steps(k) /\ Succ(s) = ckt.next[<<x, m.inputs>>] /\ s.primed = m.primed
    BY <1>1, <1>3, StepOf DEF Trans
  <2> HIDE DEF s
  <2>2. <<Succ(s), s.primed>> \notin ckt.bad
    BY <2>1 DEF Sound, Frames, FramesInvariant
  <2> QED
    BY <1>3, <2>1, <2>2
<1> QED
  BY <1>1, <1>2, <1>3 DEF LiftsToBad

LEMMA LiftedAvoids ==
  ASSUME Sound, NEW m \in Model, NEW k \in Level, k + 1 \in Level, k < depth,
         NEW c, Avoids(c, k + 1), NEW p \in Lifted(m, c)
  PROVE  Avoids(p, k)
<1> SUFFICES ASSUME NEW x \in F(k), p \subseteq x
             PROVE  \E i \in Input : <<x, i>> \in ckt.bad \cap ckt.cons
  BY DEF Avoids
<1>0. x \in State
  BY DEF F
<1>1. LiftsTo(x, m.inputs, m.primed, c) /\ m.inputs \in Input /\ m.primed \in Input
  BY <1>0 DEF Lifted, Model
<1>2. CASE <<x, m.inputs>> \in ckt.bad
  BY <1>1, <1>2 DEF Sound, BadIsAdmissible
<1>3. CASE /\ <<x, m.inputs>> \notin ckt.bad /\ <<x, m.inputs>> \in ckt.cons
           /\ <<ckt.next[<<x, m.inputs>>], m.primed>> \in ckt.cons
           /\ c \subseteq ckt.next[<<x, m.inputs>>]
  <2> DEFINE y == ckt.next[<<x, m.inputs>>]
             s == [pre |-> x, inputs |-> m.inputs, primed |-> m.primed]
  <2>1. s \in Steps(k) /\ Succ(s) = y
    BY <1>1, <1>3, StepOf DEF Trans
  <2> HIDE DEF s
  <2>2. y \in F(k + 1)
    BY <2>1 DEF Sound, Frames, FramesInvariant
  <2>3. PICK j \in Input : <<y, j>> \in ckt.bad \cap ckt.cons
    BY <1>3, <2>2 DEF Avoids
  <2> DEFINE t == [pre |-> x, inputs |-> m.inputs, primed |-> j]
  <2>4. t \in Steps(k) /\ Succ(t) = y /\ t.primed = j
    BY <1>1, <1>3, <2>3, StepOf DEF Trans
  <2> HIDE DEF t
  <2>5. <<Succ(t), t.primed>> \notin ckt.bad
    BY <2>4 DEF Sound, Frames, FramesInvariant
  <2> QED
    BY <2>3, <2>4, <2>5
<1> QED
  BY <1>1, <1>2, <1>3 DEF LiftsTo

LEMMA SoundGetPre == Sound /\ Typed' /\ get_pre_of_bad => Sound'
<1> SUFFICES ASSUME Sound, Typed', get_pre_of_bad PROVE Sound'
  OBVIOUS
<1>a. PICK m \in BadPreds : \E p \in LiftedBad(m) :
        heap' = << NewState(Succ(m), m.primed, 0), NewState(p, m.inputs, 1) >>
  BY DEF get_pre_of_bad
<1>1. PICK p \in LiftedBad(m) :
        heap' = << NewState(Succ(m), m.primed, 0), NewState(p, m.inputs, 1) >>
  BY <1>a
<1>2. Len(heap') = 2 /\ heap'[2].latches = p /\ m \in Model
  BY <1>1, QueryType DEF NewState
<1>3. /\ UNCHANGED <<ckt, size, cubes, solver, RESULT>> /\ pc' = "block"
      /\ queue' = {[state |-> 2, frame_k |-> depth - 1, depth |-> 1]}
  BY DEF get_pre_of_bad, frameVars
<1>4. Frames' /\ \A k : F(k)' = F(k)
  BY <1>3, SameFrames DEF Sound
<1>5. ObligationsAvoidFrames'
  <2>1. depth - 1 \in Level /\ (depth - 1) + 1 \in Level /\ depth - 1 < depth
    BY DEF get_pre_of_bad, Sound, Typed, TypeOK, Control, MainLoop, Level, depth
  <2>2. Avoids(p, depth - 1)
    BY <1>2, <2>1, LiftedBadAvoids
  <2>3. \A o \in queue' : heap'[o.state].latches = p /\ o.frame_k = depth - 1
    BY <1>2, <1>3
  <2> SUFFICES ASSUME NEW o \in queue', NEW x \in F(o.frame_k)', Latches(o)' \subseteq x
               PROVE  \E i \in Input : <<x, i>> \in ckt'.bad \cap ckt'.cons
    BY DEF ObligationsAvoidFrames
  <2>4. x \in F(depth - 1) /\ p \subseteq x
    BY <1>4, <2>3 DEF Latches
  <2> QED
    BY <1>3, <2>2, <2>4 DEF Avoids
<1>6. HeapDoomed'
  <2>1. Doomed(p)
    BY <1>2, LiftedBadDoomed
  <2>2. \A n \in 2 .. Len(heap') : n = 2
    BY <1>2
  <2> QED
    BY <1>2, <1>3, <2>1, <2>2 DEF HeapDoomed, Doomed
<1>7. Decided' /\ NoBadAhead' /\ MicCubesInductive'
  BY <1>3, NoMic DEF Decided, NoBadAhead
<1>8. VerdictSound'
  BY <1>3 DEF Sound, VerdictSound, Safe, Closed, MeetsBad, Initial
<1>9. BadIsAdmissible(ckt)'
  BY <1>3 DEF Sound, BadIsAdmissible
<1> QED
  BY <1>4, <1>5, <1>6, <1>7, <1>8, <1>9 DEF Sound

LEMMA SoundPredecessor == \A o \in queue : Sound /\ Typed' /\ Predecessor(o) => Sound'
<1> SUFFICES ASSUME NEW o \in queue, Sound, Typed', Predecessor(o) PROVE Sound'
  OBVIOUS
<1>0. /\ o \in ObligationRecord /\ o.state \in 2 .. Len(heap) /\ Len(heap) \in Nat
      /\ o.frame_k \in 1 .. depth
  BY ObligationType, LenProperties DEF Sound, Typed, TypeOK, Predecessor, depth
<1>a. PICK m \in Into(o.frame_k, Latches(o), Latches(o)) : \E p \in Lifted(m, Latches(o)) :
        heap' = Append(heap, NewState(p, m.inputs, o.state))
  BY DEF Predecessor
<1>1. PICK p \in Lifted(m, Latches(o)) : heap' = Append(heap, NewState(p, m.inputs, o.state))
  BY <1>a
<1>2. m \in Model /\ p \in Cube /\ m.inputs \in Input
  <2>1. m \in Model
    BY QueryType
  <2> QED
    BY <2>1, LiftedType DEF Model
<1>3. HeapGrows /\ Len(heap') = Len(heap) + 1 /\ heap'[Len(heap')].latches = p
  <2>1. o.state \in 0 .. Len(heap)
    BY <1>0
  <2> QED
    BY <1>1, <1>2, <2>1, AppendHeap DEF Sound, NewState
<1>4. /\ UNCHANGED <<ckt, size, cubes, solver, RESULT>> /\ pc' = "block"
      /\ queue' = queue \cup {[state |-> Len(heap'), frame_k |-> o.frame_k - 1, depth |-> o.depth + 1]}
  BY DEF Predecessor, frameVars
<1>5. Frames' /\ \A k : F(k)' = F(k)
  BY <1>4, SameFrames DEF Sound
<1>6. ObligationsAvoidFrames'
  <2>1. /\ o.frame_k - 1 \in Level /\ (o.frame_k - 1) + 1 \in Level /\ o.frame_k - 1 < depth
        /\ (o.frame_k - 1) + 1 = o.frame_k
    <3>1. size \in Nat
      BY DEF Sound, Typed, TypeOK
    <3>2. PICK k \in 1 .. depth : k = o.frame_k
      BY <1>0
    <3>3. k - 1 \in Level /\ (k - 1) + 1 \in Level /\ k - 1 < depth /\ (k - 1) + 1 = k
      BY <3>1 DEF Level, depth
    <3> QED
      BY <3>2, <3>3
  <2>2. Avoids(Latches(o), (o.frame_k - 1) + 1)
    BY <2>1 DEF Sound, ObligationsAvoidFrames, Avoids
  <2>3. Avoids(p, o.frame_k - 1)
    BY <1>2, <2>1, <2>2, LiftedAvoids
  <2> SUFFICES ASSUME NEW b \in queue', NEW x \in F(b.frame_k), Latches(b)' \subseteq x
               PROVE  \E i \in Input : <<x, i>> \in ckt.bad \cap ckt.cons
    BY <1>4, <1>5 DEF ObligationsAvoidFrames
  <2>4. CASE b \in queue
    <3>1. b.state \in 1 .. Len(heap)
      BY <2>4, <1>0, ObligationType DEF Sound, Typed, TypeOK
    <3>2. Latches(b)' = Latches(b)
      BY <1>3, <3>1 DEF HeapGrows, Latches
    <3> QED
      BY <2>4, <3>2 DEF Sound, ObligationsAvoidFrames
  <2>5. CASE b = [state |-> Len(heap'), frame_k |-> o.frame_k - 1, depth |-> o.depth + 1]
    <3>1. heap'[b.state].latches = p /\ b.frame_k = o.frame_k - 1
      BY <1>3, <2>5
    <3> QED
      BY <2>3, <3>1 DEF Avoids, Latches
  <2> QED
    BY <1>4, <2>4, <2>5
<1>7. HeapDoomed'
  <2>1. Doomed(Latches(o))
    BY <1>0 DEF Sound, HeapDoomed, Latches
  <2>2. Doomed(p)
    BY <1>2, <2>1, LiftedDoomed
  <2>3. \A n \in 2 .. Len(heap') : Doomed(heap'[n].latches)
    <3> SUFFICES ASSUME NEW n \in 2 .. Len(heap') PROVE Doomed(heap'[n].latches)
      OBVIOUS
    <3>1. CASE n = Len(heap')
      BY <1>3, <2>2, <3>1
    <3>2. CASE n # Len(heap')
      <4>1. n \in 2 .. Len(heap) /\ n \in 1 .. Len(heap)
        BY <1>0, <1>3, <3>2
      <4> QED
        BY <1>3, <4>1 DEF Sound, HeapDoomed, HeapGrows
    <3> QED
      BY <3>1, <3>2
  <2> QED
    BY <1>4, <2>3 DEF HeapDoomed, Doomed
<1>8. Decided' /\ NoBadAhead' /\ MicCubesInductive'
  BY <1>4, NoMic DEF Decided, NoBadAhead
<1>9. VerdictSound'
  BY <1>4 DEF Sound, VerdictSound, Safe, Closed, MeetsBad, Initial
<1>10. BadIsAdmissible(ckt)'
  BY <1>4 DEF Sound, BadIsAdmissible
<1> QED
  BY <1>5, <1>6, <1>7, <1>8, <1>9, <1>10 DEF Sound

-----------------------------------------------------------------------------
(* A lemma is added while the heap keeps its states. *)
LEMMA SoundStrengthen ==
  ASSUME Sound, Typed', NEW c \in Cube, NEW k \in Level \ {0}, Strengthen(c, k), Frames',
         SameHeap, MicCubesInductive', NoBadAhead', Decided', RESULT' = RESULT,
         \A o \in queue' : o \in queue
                           \/ (o.state \in 1 .. Len(heap) /\ o.frame_k = k /\ c \subseteq Latches(o))
  PROVE  Sound'
<1>1. ckt' = ckt /\ size' = size
  BY DEF Strengthen
<1>2. ObligationsAvoidFrames'
  <2> SUFFICES ASSUME NEW o \in queue', NEW x \in F(o.frame_k)', Latches(o)' \subseteq x
               PROVE  \E i \in Input : <<x, i>> \in ckt.bad \cap ckt.cons
    BY <1>1 DEF ObligationsAvoidFrames
  <2>1. CASE o \in queue
    <3>0. /\ o.state \in 2 .. Len(heap) /\ Len(heap) \in Nat
          /\ o.frame_k \in 0 .. depth /\ size \in Nat
      BY <2>1, ObligationType, LenProperties DEF Sound, Typed, TypeOK
    <3>1. o.state \in 1 .. Len(heap) /\ o.frame_k \in Level
      BY <3>0 DEF Level, depth
    <3>2. Latches(o)' = Latches(o)
      BY <3>1 DEF SameHeap, Latches
    <3>3. x \in F(o.frame_k)
      BY <3>1 DEF Strengthen
    <3> QED
      BY <2>1, <3>2, <3>3 DEF Sound, ObligationsAvoidFrames
  <2>2. CASE o.state \in 1 .. Len(heap) /\ o.frame_k = k /\ c \subseteq Latches(o)
    <3>1. Latches(o)' = Latches(o)
      BY <2>2 DEF SameHeap, Latches
    <3>2. k \in 1 .. k
      BY DEF Level, Sound, Typed, TypeOK
    <3>3. ~(c \subseteq x)
      BY <2>2, <3>2 DEF Strengthen
    <3> QED
      BY <2>2, <3>1, <3>3
  <2> QED
    BY <2>1, <2>2
<1>3. HeapDoomed'
  <2>1. Len(heap) \in Nat /\ 2 .. Len(heap) \subseteq 1 .. Len(heap)
    BY LenProperties DEF Sound, Typed, TypeOK
  <2> QED
    BY <1>1, <2>1 DEF Sound, HeapDoomed, Doomed, SameHeap
<1>4. VerdictSound'
  BY <1>1 DEF Sound, VerdictSound, Safe, Closed, MeetsBad, Initial
<1>5. BadIsAdmissible(ckt)'
  BY <1>1 DEF Sound, BadIsAdmissible
<1> QED
  BY <1>2, <1>3, <1>4, <1>5 DEF Sound

LEMMA SoundCtgAdded == Sound /\ Typed' /\ CtgAdded => Sound'
<1> SUFFICES ASSUME Sound, Typed', CtgAdded PROVE Sound'
  OBVIOUS
<1>1. /\ pc = "mic" /\ rec_depth = 2 /\ Len(stack) = 2 /\ act = stack[2]
      /\ act \in Activation /\ stack[1] \in Activation /\ core \in Cube /\ size \in Nat
  BY ActType DEF CtgAdded, MicDone, Sound, Typed, TypeOK, rec_depth, act
<1>2. act.k \in 0 .. depth /\ stack[1].k \in 0 .. depth
  BY <1>1 DEF Activation
<1>3. act.k + 1 \in Level \ {0} /\ (act.k + 1) - 1 = act.k /\ stack[1].k \in Level
  BY <1>1, <1>2 DEF Level, depth
<1>4. ~is_init(core) /\ is_inductive((act.k + 1) - 1, core)
  BY <1>1, <1>3, MicCubes
<1>5. Strengthen(core, act.k + 1) /\ Frames'
  BY <1>1, <1>3, <1>4, AddCubeFrames DEF CtgAdded, Sound
<1>6. /\ pc' = "down" /\ UNCHANGED <<ckt, heap, queue, RESULT>> /\ SameHeap
  BY DEF CtgAdded, blockVars, SameHeap
<1>7. MicCubesInductive'
  <2>1. DOMAIN stack' = {1} /\ stack'[1] = stack[1]
    <3>1. stack' = SubSeq(stack, 1, 1)
      BY <1>1 DEF CtgAdded
    <3>2. \A i \in 1 .. 1 : stack[i] \in Activation
      BY <1>1
    <3>3. stack' \in Seq(Activation) /\ Len(stack') = 1 /\ stack'[1] = stack[1]
      BY <3>1, <3>2, SubSeqProperties
    <3>4. DOMAIN stack' = 1 .. Len(stack')
      BY <3>3, LenProperties
    <3> QED
      BY <3>3, <3>4
  <2>2. PICK b : b = stack[1]
    OBVIOUS
  <2>3. ~is_init(b.cube) /\ is_inductive(b.k, b.cube) /\ b.k \in Level
    BY <1>1, <1>3, <2>2, MicCubes
  <2>4. ~is_init(b.cube)' /\ is_inductive(b.k, b.cube)'
    BY <1>5, <2>3, StrengthenShrinks DEF Sound
  <2> QED
    BY <2>1, <2>2, <2>4 DEF MicCubesInductive
<1>8. NoBadAhead' /\ Decided'
  BY <1>6 DEF NoBadAhead, Decided
<1> QED
  BY <1>1, <1>3, <1>5, <1>6, <1>7, <1>8, SoundStrengthen

LEMMA SoundGeneralized == Sound /\ Typed' /\ Generalized => Sound'
<1> SUFFICES ASSUME Sound, Typed', Generalized PROVE Sound'
  OBVIOUS
<1>1. /\ pc = "mic" /\ rec_depth = 1 /\ act = stack[1] /\ act \in Activation
      /\ obl \in ObligationRecord /\ size \in Nat
      /\ act.k = obl.frame_k /\ act.cube \subseteq Latches(obl)
  BY ActType DEF Generalized, MicDone, Sound, Typed, TypeOK, Control, act
<1>2. act.cube \in Cube /\ obl.frame_k \in 0 .. depth /\ obl.state \in 1 .. Len(heap)
  BY <1>1, ObligationType DEF Activation, Sound
<1>3. PICK k \in obl.frame_k + 1 .. depth + 1 :
        /\ PushesTo(act.cube, obl.frame_k + 1, k)
        /\ queue' = IF Requeued(heap[obl.state].latches, k)
                    THEN queue \cup {[state |-> obl.state, frame_k |-> k, depth |-> obl.depth]}
                    ELSE queue
        /\ add_cube(act.cube, k)
  BY DEF Generalized
<1>4. k \in Level \ {0} /\ (k = obl.frame_k + 1 \/ k - 1 \in obl.frame_k + 1 .. k - 1)
  BY <1>1, <1>2 DEF Level, depth
<1>5. ~is_init(act.cube) /\ is_inductive(k - 1, act.cube)
  <2>1. ~is_init(act.cube) /\ is_inductive(obl.frame_k, act.cube)
    BY <1>1, MicCubes
  <2>2. CASE k = obl.frame_k + 1
    <3>1. k - 1 = obl.frame_k
      BY <1>2, <2>2
    <3> QED
      BY <2>1, <3>1
  <2>3. CASE k - 1 \in obl.frame_k + 1 .. k - 1
    BY <1>3, <2>1, <2>3 DEF PushesTo
  <2> QED
    BY <1>4, <2>2, <2>3
<1>6. Strengthen(act.cube, k) /\ Frames'
  BY <1>2, <1>3, <1>4, <1>5, AddCubeFrames DEF Generalized, Sound
<1>7. pc' = "block" /\ RESULT' = RESULT
  BY DEF Generalized
<1>8. SameHeap
  BY GeneralizedHeap DEF Sound, SameStates, SameHeap
<1>9. NoBadAhead' /\ Decided' /\ MicCubesInductive'
  BY <1>7, NoMic DEF NoBadAhead, Decided
<1>10. \A o \in queue' : o \in queue
         \/ (o.state \in 1 .. Len(heap) /\ o.frame_k = k /\ act.cube \subseteq Latches(o))
  BY <1>1, <1>2, <1>3 DEF Latches
<1> QED
  BY <1>2, <1>4, <1>6, <1>7, <1>8, <1>9, <1>10, SoundStrengthen

LEMMA SoundPropagate == Sound /\ Typed' /\ PropagateCube => Sound'
<1> SUFFICES ASSUME Sound, Typed', PropagateCube PROVE Sound'
  OBVIOUS
<1>1. PICK c \in prop.todo :
        \/ /\ is_inductive(prop.frame, c)
           /\ core' \in Cores(prop.frame, c)
           /\ cubes' = [CubesWith(core', prop.frame + 1) EXCEPT ![prop.frame] = @ \ {c}]
           /\ solver' = SolverWith(core', prop.frame + 1, Cardinality(core') < Cardinality(c))
        \/ UNCHANGED <<core, cubes, solver>>
  BY DEF PropagateCube
<1>2. /\ pc = "propagate" /\ pc' = pc /\ UNCHANGED <<ckt, size, heap, queue, RESULT>>
      /\ prop.frame \in 1 .. depth /\ prop.todo \subseteq cubes[prop.frame]
      /\ size \in Nat /\ size >= 3 /\ BadPreds = {}
  BY DEF PropagateCube, Sound, Typed, TypeOK, Control, MainLoop, NoBadAhead, blockVars
<1>3. MicCubesInductive' /\ Decided' /\ SameHeap
  BY <1>2, NoMic DEF Decided, SameHeap
<1>4. CASE UNCHANGED <<core, cubes, solver>>
  <2>1. NoBadAhead'
    BY <1>2, <1>4, SameFrames DEF Sound, NoBadAhead
  <2>2. VerdictSound'
    BY <1>2 DEF Sound, VerdictSound, Safe, Closed, MeetsBad, Initial
  <2> QED
    BY <1>2, <1>3, <1>4, <2>1, <2>2, SoundQuiet
<1>5. CASE /\ is_inductive(prop.frame, c)
           /\ core' \in Cores(prop.frame, c)
           /\ cubes' = [CubesWith(core', prop.frame + 1) EXCEPT ![prop.frame] = @ \ {c}]
           /\ solver' = SolverWith(core', prop.frame + 1, Cardinality(core') < Cardinality(c))
  <2>1. PICK f : f = prop.frame
    OBVIOUS
  <2>2. PICK d : d = core'
    OBVIOUS
  <2>3. /\ f \in Level \ {0} /\ f + 1 \in Level \ {0} /\ (f + 1) - 1 = f /\ depth \in Level
        /\ f \in Nat /\ f # f + 1
    BY <1>2, <2>1 DEF Level, depth
  <2>4. c \in cubes[f] /\ c \in Cube /\ cubes \in [Level -> SUBSET Cube]
    BY <1>2, <2>1, <2>3 DEF Sound, Typed, TypeOK
  <2>5. ~is_init(c)
    <3>1. \A x \in F(f) : ~(c \subseteq x)
      BY <2>3, <2>4, HeldIsBlocked DEF Sound, Frames
    <3>2. Initial(ckt) \subseteq F(f)
      BY <2>3 DEF Sound, Frames, FramesInvariant
    <3> QED
      BY <3>1, <3>2 DEF is_init
  <2>6. ~is_init(d) /\ is_inductive(f, d) /\ d \subseteq c /\ d \in Cube
    BY <1>5, <2>1, <2>2, <2>4, <2>5, CoreInductive, CoresType
  <2>7. solver' = SolverWith(d, f + 1, Cardinality(d) < Cardinality(c))
    BY <1>5, <2>1, <2>2
  <2>8. (Cardinality(d) < Cardinality(c)) \/ \A i \in 1 .. (f + 1) - 1 : \A x \in F(i) : ~(d \subseteq x)
    <3> SUFFICES ASSUME ~(Cardinality(d) < Cardinality(c)), NEW i \in 1 .. f
                 PROVE  \A x \in F(i) : ~(d \subseteq x)
      BY <2>3
    <3>1. d = c
      BY <2>4, <2>6, CoreOfSameSize
    <3>2. i \in Level \ {0} /\ i <= f
      BY <1>2, <2>3 DEF Level
    <3> QED
      BY <2>3, <2>4, <3>1, <3>2, HeldIsBlocked DEF Sound, Frames
  <2>9. Strengthen(d, f + 1) /\ solver'[0] = solver[0]
    <3> DEFINE all == Cardinality(d) < Cardinality(c)
    <3>1. all \in BOOLEAN
      OBVIOUS
    <3> HIDE DEF all
    <3>2. solver' = SolverWith(d, f + 1, all)
      BY <2>7 DEF all
    <3>3. all \/ \A i \in 1 .. (f + 1) - 1 : \A x \in F(i) : ~(d \subseteq x)
      BY <2>8 DEF all
    <3> QED
      BY <1>2, <2>3, <2>6, <3>1, <3>2, <3>3, SolverStrengthens DEF Sound, Frames
  <2>10. \A j \in Level : cubes'[j] =
           IF j = f + 1 THEN cubes[j] \cup {d} ELSE IF j = f THEN cubes[j] \ {c} ELSE cubes[j]
    BY <1>5, <2>1, <2>2, <2>3, <2>4 DEF CubesWith
  <2>11. SolverMatchesCubes'
    <3>1. cubes' \in [Level -> SUBSET Cube]
      <4>1. Level' = Level
        BY <1>2 DEF Level
      <4> QED
        BY <4>1 DEF Typed, TypeOK
    <3>2. d \in cubes'[f + 1]
      BY <2>3, <2>10
    <3>3. \A j \in Level : cubes'[j] \subseteq cubes[j] \cup (IF j = f + 1 THEN {d} ELSE {})
      BY <2>10
    <3>4. \A j \in Level : \A e \in cubes[j] : e \in cubes'[j] \/ (d \subseteq e /\ j <= f + 1)
      <4> SUFFICES ASSUME NEW j \in Level, NEW e \in cubes[j], e \notin cubes'[j]
                   PROVE  d \subseteq e /\ j <= f + 1
        OBVIOUS
      <4>1. j = f /\ e = c
        BY <2>10
      <4> QED
        BY <2>3, <2>6, <4>1
    <3> QED
      BY <2>3, <2>6, <2>9, <3>1, <3>2, <3>3, <3>4, MatchPreserved DEF Sound, Frames
  <2>12. Frames'
    BY <2>3, <2>6, <2>9, <2>11, FramesKept DEF Sound
  <2>13. NoBadAhead'
    BY <1>2, <2>3, <2>9, StrengthenShrinks DEF Sound, NoBadAhead
  <2> QED
    BY <1>2, <1>3, <2>3, <2>6, <2>9, <2>12, <2>13, SoundStrengthen
<1> QED
  BY <1>1, <1>4, <1>5

-----------------------------------------------------------------------------
(* The bounded checks: a model is a counterexample, and without one the    *)
(* first frames satisfy the invariants.                                    *)
LEMMA SoundBMC0 == Sound /\ Typed' /\ check_BMC0 => Sound'
<1> SUFFICES ASSUME Sound, Typed', check_BMC0 PROVE Sound'
  OBVIOUS
<1> DEFINE models == {m \in Model : ckt.init \subseteq m.pre
                                    /\ <<m.pre, m.inputs>> \in ckt.cons \cap ckt.bad}
<1>1. /\ UNCHANGED <<ckt, heap, queue, RESULT>> /\ size = 0 /\ queue = {} /\ pc = "bmc0"
      /\ SameHeap
  BY DEF check_BMC0, blockVars, Sound, Typed, Control, SameHeap
<1>2. Safe(ckt)' = Safe(ckt)
  BY <1>1 DEF Safe, Closed, MeetsBad, Initial
<1>3. VerdictSound'
  BY <1>1, <1>2 DEF Sound, VerdictSound
<1>4. CASE pc' = "found" /\ UNCHANGED frameVars /\ \E m \in models : TRUE
  <2>1. PICK m \in models : TRUE
    BY <1>4
  <2>2. m.pre \in State /\ m.inputs \in Input /\ m.pre \in Initial(ckt)
    BY DEF Model, Initial
  <2>3. ~Safe(ckt)
    BY <2>2 DEF Safe, MeetsBad
  <2>4. UNCHANGED <<size, cubes, solver>>
    BY <1>4 DEF frameVars
  <2>5. Decided' /\ NoBadAhead' /\ MicCubesInductive'
    BY <1>2, <1>4, <2>3, NoMic DEF Decided, NoBadAhead
  <2> QED
    BY <1>1, <1>3, <2>4, <2>5, SoundQuiet
<1>5. CASE pc' = "bmc1" /\ size' = 1 /\ models = {}
           /\ cubes' = [k \in 0 .. 0 |-> {}] /\ solver' = [k \in 0 .. 0 |-> {}]
  <2>1. FrameZero'
    <3>1. ASSUME NEW x \in State, NEW i \in Input, ckt.init \subseteq x
          PROVE  <<x, i>> \notin ckt.bad \cap ckt.cons
      <4>1. [pre |-> x, inputs |-> i, primed |-> i] \in Model
        BY DEF Model
      <4> QED
        BY <1>5, <3>1, <4>1
    <3>2. solver'[0] = {}
      BY <1>5
    <3> QED
      BY <1>1, <3>1, <3>2 DEF FrameZero
  <2>2. Level' = {0} /\ \A k \in Level' : k + 1 \notin Level'
    BY <1>5 DEF Level
  <2>3. Initial(ckt)' \subseteq F(0)'
    BY <1>5 DEF F, Initial
  <2>4. FramesInvariant' /\ SolverMatchesCubes'
    BY <2>2, <2>3 DEF FramesInvariant, SolverMatchesCubes
  <2>5. ObligationsAvoidFrames' /\ HeapDoomed' /\ BadIsAdmissible(ckt)'
    BY <1>1 DEF Sound, ObligationsAvoidFrames, HeapDoomed, Doomed, BadIsAdmissible
  <2>6. Decided' /\ NoBadAhead' /\ MicCubesInductive'
    BY <1>5, NoMic DEF Decided, NoBadAhead
  <2> QED
    BY <1>3, <2>1, <2>4, <2>5, <2>6 DEF Sound, Frames
<1> QED
  BY <1>4, <1>5 DEF check_BMC0

LEMMA SoundBMC1 == Sound /\ Typed' /\ check_BMC1 => Sound'
<1> SUFFICES ASSUME Sound, Typed', check_BMC1 PROVE Sound'
  OBVIOUS
<1> DEFINE models == {m \in Model : /\ ckt.init \subseteq m.pre
                                    /\ Trans(ckt, m.pre, m.inputs, m.primed)
                                    /\ <<Succ(m), m.primed>> \in ckt.bad}
<1>1. /\ UNCHANGED <<ckt, heap, queue, RESULT>> /\ size = 1 /\ queue = {} /\ pc = "bmc1"
      /\ SameHeap /\ cubes \in [0 .. 0 -> SUBSET Cube] /\ solver \in [0 .. 0 -> SUBSET Cube]
      /\ solver[0] = {}
  BY DEF check_BMC1, blockVars, Sound, Typed, TypeOK, Level, Control, SameHeap, Frames, FrameZero
<1>2. Safe(ckt)' = Safe(ckt)
  BY <1>1 DEF Safe, Closed, MeetsBad, Initial
<1>3. VerdictSound'
  BY <1>1, <1>2 DEF Sound, VerdictSound
<1>4. CASE pc' = "found" /\ UNCHANGED <<frameVars, top>> /\ \E m \in models : TRUE
  <2>1. PICK m \in models : TRUE
    BY <1>4
  <2>2. /\ m.pre \in Initial(ckt) /\ m.inputs \in Input /\ m.primed \in Input
        /\ <<m.pre, m.inputs>> \in ckt.cons /\ Succ(m) = ckt.next[<<m.pre, m.inputs>>]
        /\ <<Succ(m), m.primed>> \in ckt.cons \cap ckt.bad
    BY DEF Model, Initial, Trans, Succ
  <2>3. ~Safe(ckt)
    <3> SUFFICES ASSUME NEW V \in SUBSET State, Initial(ckt) \subseteq V, Closed(ckt, V),
                        ~MeetsBad(ckt, V)
                 PROVE  FALSE
      BY DEF Safe
    <3>1. Succ(m) \in V
      BY <2>2 DEF Closed
    <3> QED
      BY <2>2, <3>1 DEF MeetsBad
  <2>4. UNCHANGED <<size, cubes, solver>>
    BY <1>4 DEF frameVars
  <2>5. Decided' /\ NoBadAhead' /\ MicCubesInductive'
    BY <1>2, <1>4, <2>3, NoMic DEF Decided, NoBadAhead
  <2> QED
    BY <1>1, <1>3, <2>4, <2>5, SoundQuiet
<1>5. CASE /\ pc' = "loop" /\ size' = 3 /\ models = {}
           /\ cubes' = new_frame(new_frame(cubes, 1), 2)
           /\ solver' = new_frame(new_frame(solver, 1), 2)
  <2>1. /\ Level' = {0, 1, 2} /\ depth' = 1
        /\ solver'[0] = {} /\ solver'[1] = {} /\ solver'[2] = {}
        /\ cubes'[1] = {} /\ cubes'[2] = {}
    BY <1>1, <1>5 DEF Level, depth, new_frame
  <2>2. F(1)' = State /\ F(2)' = State /\ F(0)' = {x \in State : ckt.init \subseteq x}
    BY <1>1, <2>1 DEF F
  <2>3. FrameZero'
    BY <1>1, <2>1 DEF Sound, Frames, FrameZero
  <2>4. FramesInvariant'
    <3>1. \A k \in {0, 1, 2} : Initial(ckt) \subseteq F(k)'
      BY <2>2 DEF Initial
    <3>2. \A m \in Model : Succ(m) \in State
      BY SuccType DEF Sound, Typed, TypeOK
    <3>3. ASSUME NEW k \in {0, 1, 2}, k + 1 \in {0, 1, 2}, NEW m \in Steps(k)'
          PROVE  Succ(m) \in F(k + 1)' /\ (k < 1 => <<Succ(m), m.primed>> \notin ckt.bad)
      <4>0. m \in Model /\ m.pre \in F(k)' /\ Trans(ckt, m.pre, m.inputs, m.primed)
        BY <1>1 DEF Steps, Model
      <4>1. Succ(m) \in F(k + 1)'
        <5>1. k + 1 = 1 \/ k + 1 = 2
          BY <3>3
        <5> QED
          BY <2>2, <3>2, <4>0, <5>1
      <4>2. k < 1 => <<Succ(m), m.primed>> \notin ckt.bad
        <5> SUFFICES ASSUME k = 0 PROVE <<Succ(m), m.primed>> \notin ckt.bad
          OBVIOUS
        <5>1. ckt.init \subseteq m.pre
          BY <2>2, <4>0
        <5> QED
          BY <1>5, <4>0, <5>1
      <4> QED
        BY <4>1, <4>2
    <3>4. \A j, k \in {1, 2} : F(j)' \subseteq F(k)'
      BY <2>2
    <3>5. Initial(ckt)' = Initial(ckt) /\ \A m : Succ(m)' = Succ(m)
      BY <1>1 DEF Initial, Succ
    <3> QED
      BY <1>1, <2>1, <3>1, <3>3, <3>4, <3>5 DEF FramesInvariant
  <2>5. SolverMatchesCubes'
    <3>1. \A k \in {1, 2} : \A j \in {0, 1, 2} : j >= k => cubes'[j] = {}
      BY <2>1
    <3>2. \A k \in {1, 2} : F(k)' = State
      BY <2>2
    <3>3. Level' \ {0} = {1, 2}
      BY <2>1
    <3> QED
      BY <2>1, <3>1, <3>2, <3>3 DEF SolverMatchesCubes
  <2>6. ObligationsAvoidFrames' /\ HeapDoomed' /\ BadIsAdmissible(ckt)'
    BY <1>1 DEF Sound, ObligationsAvoidFrames, HeapDoomed, Doomed, BadIsAdmissible
  <2>7. Decided' /\ NoBadAhead' /\ MicCubesInductive'
    BY <1>5, NoMic DEF Decided, NoBadAhead
  <2> QED
    BY <1>3, <2>3, <2>4, <2>5, <2>6, <2>7 DEF Sound, Frames
<1> QED
  BY <1>4, <1>5 DEF check_BMC1

(* A new top frame holds everything; the frame that was the top one now    *)
(* has no step into bad.                                                   *)
LEMMA SoundNoFixpoint == Sound /\ Typed' /\ NoFixpoint => Sound'
<1> SUFFICES ASSUME Sound, Typed', NoFixpoint PROVE Sound'
  OBVIOUS
<1>0. PICK n : n = size
  OBVIOUS
<1>1. /\ size \in Nat /\ size >= 3 /\ size' = size + 1 /\ depth' = depth + 1 /\ depth = size - 2
      /\ Level' = Level \cup {size} /\ Level = 0 .. size - 1 /\ pc' = "loop"
      /\ UNCHANGED <<ckt, queue, RESULT>> /\ queue = {} /\ heap' = << >>
      /\ BadPreds = {}
  BY DEF NoFixpoint, FrameDone, Sound, Typed, TypeOK, Control, MainLoop, Level, depth, NoBadAhead
<1>2. /\ \A k \in Level : cubes'[k] = cubes[k] /\ solver'[k] = solver[k]
      /\ cubes'[size] = {} /\ solver'[size] = {} /\ size # 0 /\ 0 \in Level
  BY <1>1 DEF NoFixpoint, new_frame
<1>3. (\A k \in Level : F(k)' = F(k)) /\ F(n)' = State
  BY <1>0, <1>1, <1>2 DEF F
<1>4. (\A m : Succ(m)' = Succ(m)) /\ \A k \in Level : Steps(k)' = Steps(k)
  BY <1>1, <1>3 DEF Succ, Steps, Trans, Model
<1>5. Initial(ckt)' = Initial(ckt) /\ \A k : F(k) \subseteq State
  BY <1>1 DEF Initial, F
<1>6. FrameZero'
  BY <1>1, <1>2 DEF Sound, Frames, FrameZero
<1>7. FramesInvariant'
  <2>1. \A k \in Level' : Initial(ckt) \subseteq F(k)'
    <3>1. \A k \in Level : Initial(ckt) \subseteq F(k)'
      BY <1>3 DEF Sound, Frames, FramesInvariant
    <3>2. Initial(ckt) \subseteq F(n)'
      BY <1>3 DEF Initial
    <3> QED
      BY <1>0, <1>1, <3>1, <3>2
  <2>2. ASSUME NEW j \in Level' \ {0}, NEW k \in Level' \ {0}, j <= k PROVE F(j)' \subseteq F(k)'
    <3>1. CASE k = size
      <4>1. F(j)' \subseteq State /\ F(k)' = State
        BY <1>0, <1>3, <3>1 DEF F
      <4> QED
        BY <4>1
    <3>2. CASE k # size
      <4>1. k \in Level \ {0} /\ j \in Level \ {0}
        BY <1>1, <2>2, <3>2
      <4> QED
        BY <1>3, <2>2, <4>1 DEF Sound, Frames, FramesInvariant
    <3> QED
      BY <3>1, <3>2
  <2>3. ASSUME NEW k \in Level', k + 1 \in Level', NEW m \in Steps(k)'
        PROVE  Succ(m) \in F(k + 1)' /\ (k < depth' => <<Succ(m), m.primed>> \notin ckt.bad)
    <3>1. k \in Level
      BY <1>1, <2>3
    <3>2. m \in Steps(k) /\ m \in Model
      BY <1>4, <3>1 DEF Steps
    <3>3. Succ(m) \in State
      BY <3>2, SuccType DEF Sound, Typed, TypeOK
    <3>4. CASE k + 1 = size
      <4>1. ~(k < depth')
        BY <1>1, <3>1, <3>4
      <4> QED
        BY <1>0, <1>3, <3>3, <3>4, <4>1
    <3>5. CASE k + 1 # size
      <4>1. k + 1 \in Level
        BY <1>1, <2>3, <3>5
      <4>2. Succ(m) \in F(k + 1)'
        BY <1>3, <3>1, <3>2, <4>1 DEF Sound, Frames, FramesInvariant
      <4>3. CASE k < depth
        BY <3>1, <3>2, <4>1, <4>2, <4>3 DEF Sound, Frames, FramesInvariant
      <4>4. CASE k = depth
        BY <1>1, <3>2, <4>2, <4>4 DEF BadPreds
      <4>5. k < depth' => k < depth \/ k = depth
        BY <1>1, <3>1
      <4> QED
        BY <4>2, <4>3, <4>4, <4>5
    <3> QED
      BY <3>4, <3>5
  <2> QED
    BY <1>1, <1>4, <1>5, <2>1, <2>2, <2>3 DEF FramesInvariant
<1>8. SolverMatchesCubes'
  <2> SUFFICES ASSUME NEW k \in Level' \ {0}
               PROVE  F(k)' = {x \in State : \A j \in Level' : j >= k => \A c \in cubes'[j] : ~(c \subseteq x)}
    BY DEF SolverMatchesCubes
  <2>1. CASE k = size
    <3>1. \A j \in Level' : j >= k => cubes'[j] = {}
      BY <1>1, <1>2, <2>1
    <3> QED
      BY <1>0, <1>3, <2>1, <3>1
  <2>2. CASE k # size
    <3>1. k \in Level \ {0}
      BY <1>1, <2>2
    <3>2. F(k) = {x \in State : \A j \in Level : j >= k => \A c \in cubes[j] : ~(c \subseteq x)}
      BY <3>1 DEF Sound, Frames, SolverMatchesCubes
    <3> QED
      BY <1>1, <1>2, <1>3, <3>1, <3>2
  <2> QED
    BY <2>1, <2>2
<1>9. ObligationsAvoidFrames' /\ HeapDoomed' /\ BadIsAdmissible(ckt)'
  <2>1. Len(heap') = 0
    BY <1>1, EmptySeq
  <2>2. 2 .. Len(heap') = {}
    BY <2>1
  <2> QED
    BY <1>1, <2>2 DEF Sound, ObligationsAvoidFrames, HeapDoomed, BadIsAdmissible
<1>10. Decided' /\ NoBadAhead' /\ MicCubesInductive'
  BY <1>1, NoMic DEF Decided, NoBadAhead
<1>11. VerdictSound'
  BY <1>1 DEF Sound, VerdictSound, Safe, Closed, MeetsBad, Initial
<1> QED
  BY <1>6, <1>7, <1>8, <1>9, <1>10, <1>11 DEF Sound, Frames

-----------------------------------------------------------------------------
LEMMA SoundNext == Sound /\ [Next]_vars => Sound'
<1> SUFFICES ASSUME Sound, [Next]_vars PROVE Sound'
  OBVIOUS
<1>1. Typed'
  BY TypedNext DEF Sound
<1> QED
  BY <1>1, SoundControl, SoundFixpoint, SoundBMC0, SoundBMC1, SoundNoFixpoint, SoundGetPre,
     SoundBlocked, SoundGiveUp, SoundPredecessor, SoundCounterexample, SoundMic, SoundDown,
     SoundCtgAdded, SoundGeneralized, SoundPropagate
  DEF Next, Engine

(* No circuit of the instance asserts bad under an input it excludes. *)
Admissible == \A c \in Circuits : BadIsAdmissible(c)

LEMMA SoundInit == Admissible /\ Init => Sound
<1> SUFFICES ASSUME Admissible, Init PROVE Sound
  OBVIOUS
<1>1. Typed /\ BadIsAdmissible(ckt)
  BY TypedInit DEF Admissible, Init
<1>2. size = 0 /\ Level = {} /\ queue = {} /\ pc = "bmc0" /\ RESULT = 0
  BY DEF Init, Level
<1>3. DOMAIN stack = {} /\ 2 .. Len(heap) = {}
  BY EmptySeq DEF Init
<1> QED
  BY <1>1, <1>2, <1>3 DEF Sound, Frames, FrameZero, FramesInvariant, SolverMatchesCubes,
     ObligationsAvoidFrames, MicCubesInductive, NoBadAhead, HeapDoomed, Decided, VerdictSound,
     SAFE, UNSAFE

LEMMA AlwaysSound == ASSUME Admissible PROVE Spec => []Sound
<1>1. Init => Sound
  BY SoundInit
<1>2. Sound /\ [Next]_vars => Sound'
  BY SoundNext
<1> QED
  BY <1>1, <1>2, PTL DEF Spec

(* When bad is only asserted by inputs that meet the constraints, the      *)
(* engine publishes SAFE (propagate's fixpoint) only for a circuit that    *)
(* has a closed set of states without bad, and UNSAFE (the bounded checks  *)
(* and rec_block_cube) only for one that has none, whatever the solver     *)
(* answers, the literals dropped, the obligations given up or requeued.    *)
THEOREM VerdictIsSound == ASSUME Admissible PROVE Spec => []VerdictSound
<1>1. Spec => []Sound
  BY AlwaysSound
<1>2. Sound => VerdictSound
  BY DEF Sound
<1> QED
  BY <1>1, <1>2, PTL

(* The frames are those PDR.hpp describes: they hold the initial states,   *)
(* grow, and over-approximate what is reachable in as many steps.          *)
THEOREM FramesAreSound == ASSUME Admissible PROVE Spec => []FramesInvariant
<1>1. Spec => []Sound
  BY AlwaysSound
<1>2. Sound => FramesInvariant
  BY DEF Sound, Frames
<1> QED
  BY <1>1, <1>2, PTL

(* "Ri = Fi + ... + Foo": although add_cube and propagate only ever add    *)
(* clauses to solvers, and propagate moves and shortens cubes, the solver  *)
(* of a frame blocks what the cubes from this frame on block, no more.     *)
THEOREM SolversMatchCubes == ASSUME Admissible PROVE Spec => []SolverMatchesCubes
<1>1. Spec => []Sound
  BY AlwaysSound
<1>2. Sound => SolverMatchesCubes
  BY DEF Sound, Frames
<1> QED
  BY <1>1, <1>2, PTL

(* No obligation rec_block_cube queues meets its frame but in states that  *)
(* are bad themselves.                                                     *)
THEOREM ObligationsSound == ASSUME Admissible PROVE Spec => []ObligationsAvoidFrames
<1>1. Spec => []Sound
  BY AlwaysSound
<1>2. Sound => ObligationsAvoidFrames
  BY DEF Sound
<1> QED
  BY <1>1, <1>2, PTL

(* mic only ever holds inductive cubes without initial states, also the    *)
(* inner mic, whose cube is the member core that every query overwrites.   *)
THEOREM MicCubesStayInductive == ASSUME Admissible PROVE Spec => []MicCubesInductive
<1>1. Spec => []Sound
  BY AlwaysSound
<1>2. Sound => MicCubesInductive
  BY DEF Sound
<1> QED
  BY <1>1, <1>2, PTL

(* The engine implements the promise of module Answer: one verdict, the    *)
(* right one, never taken back, also when another engine is faster and     *)
(* propagate's RESULT = 20 is repeated outside the lock.                   *)
THEOREM EngineImplementsAnswer == ASSUME Admissible PROVE Spec => ImplementsAnswer
<1>1. Spec => []Sound
  BY AlwaysSound
<1>2. Init => A!Init
  <2>1. Safe(ckt) \in BOOLEAN
    BY DEF Safe
  <2> QED
    BY <2>1 DEF Init, A!Init
<1>3. Sound /\ [Next]_vars => [A!Publish]_<<Safe(ckt), RESULT>>
  <2> SUFFICES ASSUME Sound, [Next]_vars PROVE [A!Publish]_<<Safe(ckt), RESULT>>
    OBVIOUS
  <2>1. ckt' = ckt
    BY DEF Next, Engine, vars, check_BMC0, check_BMC1, Interrupted, get_pre_of_bad, NoPreOfBad,
       AllBlocked, Blocked, GiveUp, Predecessor, Counterexample, mic, CTG_down, CtgAdded,
       Generalized, PropagateCube, FixpointFound, NextFrame, NoFixpoint, ProvedSafe, FoundBug,
       OtherEngine, Finished
  <2>2. Safe(ckt)' = Safe(ckt)
    BY <2>1 DEF Safe, Closed, MeetsBad, Initial
  <2>3. Sound'
    BY SoundNext
  <2>4. RESULT' = RESULT \/ (RESULT = 0 /\ RESULT' \in {SAFE, UNSAFE}) \/ RESULT' = SAFE
    BY DEF Next, Engine, vars, check_BMC0, check_BMC1, Interrupted, get_pre_of_bad, NoPreOfBad,
       AllBlocked, Blocked, GiveUp, Predecessor, Counterexample, mic, CTG_down, CtgAdded,
       Generalized, PropagateCube, FixpointFound, NextFrame, NoFixpoint, ProvedSafe, FoundBug,
       OtherEngine, Finished
  <2>5. /\ RESULT \in {0, SAFE, UNSAFE}
        /\ (RESULT = SAFE => Safe(ckt)) /\ (RESULT = UNSAFE => ~Safe(ckt))
        /\ (RESULT' = SAFE => Safe(ckt)) /\ (RESULT' = UNSAFE => ~Safe(ckt))
    BY <2>2, <2>3 DEF Sound, VerdictSound, Typed, TypeOK
  <2> QED
    BY <2>2, <2>4, <2>5 DEF A!Publish, A!SAFE, A!UNSAFE, SAFE, UNSAFE
<1> QED
  BY <1>1, <1>2, <1>3, PTL DEF Spec, ImplementsAnswer, A!Spec

-----------------------------------------------------------------------------
(***************************************************************************)
(* Part 3.  The certificate, the blocking of states, and the witness: the  *)
(* states of the heap lead from one to the next and at last to bad, so the *)
(* chain log_witness follows, of whatever length, does too.                *)
(***************************************************************************)

(* Alone, an engine has no verdict before its own. *)
Alone == ~Parallel /\ pc \notin {"safe", "done"} => RESULT = 0

(* What no lemma of the later frames excludes is, without bad, inductive.  *)
LEMMA CertificateAtFixpoint ==
  ASSUME Sound, FixpointFound, RESULT = 0
  PROVE  CertificateInductive'
<1> DEFINE k == prop.frame
           Inv(x, i) == (\A c \in cert' : ~(c \subseteq x)) /\ <<x, i>> \in ckt.cons \ ckt.bad
<1>0. /\ k \in 1 .. depth /\ size \in Nat /\ size >= 3 /\ BadPreds = {} /\ cubes[k] = {}
      /\ k \in Level \ {0} /\ k + 1 \in Level \ {0} /\ FrameZero /\ FramesInvariant /\ SolverMatchesCubes
  BY DEF Sound, Frames, FixpointFound, FrameDone, Typed, TypeOK, Control, MainLoop, NoBadAhead, Level, depth
<1>1. ckt' = ckt /\ cert' = UNION {cubes[d] : d \in k + 1 .. depth + 1}
  BY DEF FixpointFound
<1> HIDE DEF k
<1>2. \A x \in State : (\A c \in cert' : ~(c \subseteq x)) <=> x \in Unblocked(k + 1)
  <2>1. {j \in Level : j >= k + 1} = k + 1 .. depth + 1
    BY <1>0 DEF Level, depth
  <2> QED
    BY <1>1, <2>1 DEF Unblocked
<1>3. Unblocked(k + 1) = F(k + 1) /\ F(k + 1) = F(k)
  <2>1. F(k) = Unblocked(k) /\ F(k + 1) = Unblocked(k + 1)
    BY <1>0 DEF SolverMatchesCubes, Unblocked
  <2>2. \A j \in Level : j >= k <=> j = k \/ j >= k + 1
    BY <1>0 DEF Level
  <2> QED
    BY <1>0, <2>1, <2>2 DEF Unblocked
<1>4. ASSUME NEW x \in Initial(ckt), NEW i \in Input, <<x, i>> \in ckt.cons PROVE Inv(x, i)
  <2>1. x \in State /\ x \in F(k + 1) /\ <<x, i>> \notin ckt.bad
    BY <1>0, <1>4, InitialNotBad DEF FramesInvariant, Initial
  <2> QED
    BY <1>2, <1>3, <1>4, <2>1
<1>5. ASSUME NEW x \in State, NEW i \in Input, NEW j \in Input,
             Inv(x, i), <<ckt.next[<<x, i>>], j>> \in ckt.cons
      PROVE  Inv(ckt.next[<<x, i>>], j)
  <2> DEFINE y == ckt.next[<<x, i>>]
             m == [pre |-> x, inputs |-> i, primed |-> j]
  <2>1. x \in F(k) /\ y \in State
    BY <1>2, <1>3, <1>5, CircuitType DEF Sound
  <2>2. m \in Steps(k) /\ Succ(m) = y /\ m.primed = j
    BY <1>5, <2>1, StepOf DEF Trans
  <2>3. <<y, j>> \in ckt.cons
    BY <1>5
  <2> HIDE DEF m, y
  <2>4. y \in F(k + 1)
    BY <1>0, <2>2 DEF FramesInvariant
  <2>5. <<y, j>> \notin ckt.bad
    <3>1. CASE k < depth
      BY <1>0, <2>2, <3>1 DEF FramesInvariant
    <3>2. CASE k = depth
      BY <1>0, <2>2, <3>2 DEF BadPreds
    <3> QED
      BY <1>0, <3>1, <3>2 DEF depth
  <2>6. Inv(y, j)
    BY <1>2, <1>3, <2>1, <2>3, <2>4, <2>5
  <2> QED
    BY <2>6 DEF y
<1>6. Initial(ckt)' = Initial(ckt)
  BY <1>1 DEF Initial
<1> QED
  BY <1>1, <1>4, <1>5, <1>6 DEF CertificateInductive

(* The steps that lead to "safe", and those that stay there. *)
LEMMA IntoSafe ==
  ASSUME [Next]_vars, pc' = "safe"
  PROVE  FixpointFound \/ (pc = "safe" /\ UNCHANGED <<ckt, cert>>)
BY DEF Next, Engine, vars, check_BMC0, check_BMC1, Interrupted, get_pre_of_bad, NoPreOfBad,
   AllBlocked, Blocked, GiveUp, Predecessor, Counterexample, mic, CTG_down, DownFails, DownSucceeds,
   BlockCtg, Join, CtgAdded, MicDone, Generalized, PropagateCube, FixpointFound, NextFrame, NoFixpoint,
   FrameDone, ProvedSafe, FoundBug, OtherEngine, Finished

LEMMA ResultNext ==
  ASSUME [Next]_vars
  PROVE  RESULT' = RESULT \/ FixpointFound \/ (pc' = "done" /\ (ProvedSafe \/ FoundBug)) \/ OtherEngine
BY DEF Next, Engine, vars, check_BMC0, check_BMC1, Interrupted, get_pre_of_bad, NoPreOfBad,
   AllBlocked, Blocked, GiveUp, Predecessor, Counterexample, mic, CTG_down, CtgAdded, Generalized,
   PropagateCube, NextFrame, NoFixpoint, ProvedSafe, FoundBug, Finished

LEMMA SafeStays ==
  ASSUME [Next]_vars, pc \in {"safe", "done"}
  PROVE  pc' \in {"safe", "done"}
BY DEF Next, Engine, vars, check_BMC0, check_BMC1, Interrupted, get_pre_of_bad, NoPreOfBad,
   AllBlocked, Blocked, GiveUp, Predecessor, Counterexample, mic, CTG_down, CtgAdded, MicDone,
   Generalized, PropagateCube, FixpointFound, NextFrame, NoFixpoint, FrameDone, ProvedSafe, FoundBug,
   OtherEngine, Finished

LEMMA AloneNext == Alone /\ [Next]_vars => Alone'
<1> SUFFICES ASSUME Alone, [Next]_vars PROVE Alone'
  OBVIOUS
<1> QED
  BY ResultNext, SafeStays DEF Alone, FixpointFound, OtherEngine

LEMMA CertificateNext == Sound /\ Alone /\ CertificateInductive /\ [Next]_vars => CertificateInductive'
<1> SUFFICES ASSUME Sound, Alone, CertificateInductive, [Next]_vars, pc' = "safe", RESULT' = SAFE, ~Parallel
             PROVE  CertificateInductive'
  BY DEF CertificateInductive
<1>1. CASE FixpointFound
  <2>1. RESULT = 0
    BY <1>1 DEF Alone, FixpointFound, FrameDone
  <2> QED
    BY <1>1, <2>1, CertificateAtFixpoint
<1>2. CASE pc = "safe" /\ UNCHANGED <<ckt, cert>> /\ ~FixpointFound
  <2>1. RESULT' = RESULT
    BY <1>2, ResultNext DEF OtherEngine
  <2> QED
    BY <1>2, <2>1 DEF CertificateInductive, Initial
<1> QED
  BY <1>1, <1>2, IntoSafe

(* The cubes propagate writes into the certificate, with bad and the       *)
(* constraints, are an inductive invariant of every circuit an engine      *)
(* proves alone: the frames above the empty one are enough.                *)
THEOREM CertificateIsInductive == ASSUME Admissible PROVE Spec => []CertificateInductive
<1>1. Spec => []Sound
  BY AlwaysSound
<1>2. Init => Alone /\ CertificateInductive
  BY DEF Init, Alone, CertificateInductive
<1>3. Sound /\ Alone /\ CertificateInductive /\ [Next]_vars => (Alone /\ CertificateInductive)'
  BY AloneNext, CertificateNext
<1> QED
  BY <1>1, <1>2, <1>3, PTL DEF Spec

-----------------------------------------------------------------------------
(***************************************************************************)
(* rec_block_cube's own call: the root, state 2, is an obligation of depth *)
(* 1.  Only obligations beyond the depth of the round are given up, and    *)
(* only such depths are recorded as failed; so the root is pending below   *)
(* the top frame until a lemma blocks it there.                            *)
(***************************************************************************)
Blocking == {"block", "mic", "down"}

FailedBeyond(h, d) == \A n \in 1 .. Len(h) : h[n].failed_depth = 0 \/ h[n].failed_depth > d

RootOut == \A x \in F(depth) : ~(heap[2].latches \subseteq x)

RootPending ==
  \/ \E o \in queue : o.state = 2 /\ o.frame_k = depth - 1
  \/ pc \in {"mic", "down"} /\ obl.state = 2 /\ obl.frame_k >= depth - 1

Root ==
  pc \in Blocking =>
    /\ Len(heap) >= 2
    /\ FailedBeyond(heap, depth)
    /\ \A o \in queue : o.state = 2 => o.depth = 1
    /\ pc \in {"mic", "down"} /\ obl.state = 2 => obl.depth = 1
    /\ RootPending \/ RootOut

LEMMA PunishBeyond ==
  ASSUME NEW h \in Seq(StateRecord), NEW n \in 1 .. Len(h), NEW v \in Nat, NEW d, FailedBeyond(h, d)
  PROVE  /\ FailedBeyond([h EXCEPT ![n].failed = v], d)
         /\ v > d => FailedBeyond([h EXCEPT ![n].failed_depth = v], d)
<1> DEFINE a == [h[n] EXCEPT !.failed = v]
           b == [h[n] EXCEPT !.failed_depth = v]
<1>1. h[n] \in StateRecord
  BY ElementOfSeq
<1>2. /\ a \in StateRecord /\ a.failed_depth = h[n].failed_depth
      /\ b \in StateRecord /\ b.failed_depth = v
  BY <1>1 DEF StateRecord
<1> HIDE DEF a, b
<1>3. /\ Len([h EXCEPT ![n] = a]) = Len(h)
      /\ \A j \in 1 .. Len(h) : [h EXCEPT ![n] = a][j] = IF j = n THEN a ELSE h[j]
  BY <1>2, ExceptSeq
<1>4. /\ Len([h EXCEPT ![n] = b]) = Len(h)
      /\ \A j \in 1 .. Len(h) : [h EXCEPT ![n] = b][j] = IF j = n THEN b ELSE h[j]
  BY <1>2, ExceptSeq
<1>5. /\ [h EXCEPT ![n].failed = v] = [h EXCEPT ![n] = a]
      /\ [h EXCEPT ![n].failed_depth = v] = [h EXCEPT ![n] = b]
  BY DEF a, b
<1>6. FailedBeyond([h EXCEPT ![n] = a], d)
  BY <1>2, <1>3 DEF FailedBeyond
<1>7. v > d => FailedBeyond([h EXCEPT ![n] = b], d)
  BY <1>2, <1>4 DEF FailedBeyond
<1> QED
  BY <1>5, <1>6, <1>7

(* The frames shrink or stay, the latches of the root stay. *)
LEMMA RootOutStays ==
  ASSUME Typed, Len(heap) >= 2, SameHeap, size' = size, F(depth)' \subseteq F(depth), RootOut
  PROVE  RootOut'
<1>1. Len(heap) \in Nat
  BY LenProperties DEF Typed, TypeOK
<1>2. depth' = depth /\ heap'[2].latches = heap[2].latches
  BY <1>1 DEF depth, SameHeap
<1> QED
  BY <1>2 DEF RootOut

LEMMA RootGetPre == Sound /\ get_pre_of_bad => Root'
<1> SUFFICES ASSUME Sound, get_pre_of_bad PROVE Root'
  OBVIOUS
<1>1. PICK a, b : /\ heap' = <<a, b>> /\ a.failed_depth = 0 /\ b.failed_depth = 0
  BY DEF get_pre_of_bad, NewState
<1>2. Len(heap') = 2 /\ FailedBeyond(heap, depth)'
  BY <1>1 DEF FailedBeyond
<1>3. /\ queue' = {[state |-> 2, frame_k |-> depth - 1, depth |-> 1]} /\ pc' = "block" /\ depth' = depth
  BY DEF get_pre_of_bad, depth, frameVars
<1>4. RootPending'
  BY <1>3 DEF RootPending
<1> QED
  BY <1>2, <1>3, <1>4 DEF Root

LEMMA RootBlockedStep == \A o \in queue : Sound /\ Root /\ Blocked(o) => Root'
<1> SUFFICES ASSUME NEW o \in queue, Sound, Root, Blocked(o) PROVE Root'
  OBVIOUS
<1>1. /\ pc = "block" /\ pc' = "mic" /\ queue' = queue \ {o} /\ obl' = o
      /\ UNCHANGED <<ckt, size, cubes, solver, heap>> /\ depth' = depth
  BY DEF Blocked, frameVars, depth
<1>2. RootOut' = RootOut
  BY <1>1 DEF RootOut, F
<1>3. RootPending => RootPending'
  <2> SUFFICES ASSUME RootPending PROVE RootPending'
    OBVIOUS
  <2>1. PICK r \in queue : r.state = 2 /\ r.frame_k = depth - 1
    BY <1>1 DEF RootPending
  <2>2. CASE r = o
    <3>1. size \in Nat /\ depth - 1 \in Int
      BY DEF Sound, Typed, TypeOK, depth
    <3> QED
      BY <1>1, <2>1, <2>2, <3>1 DEF RootPending
  <2>3. CASE r # o
    BY <1>1, <2>1, <2>3 DEF RootPending
  <2> QED
    BY <2>2, <2>3
<1>4. Len(heap') >= 2 /\ FailedBeyond(heap, depth)'
  BY <1>1 DEF Root, Blocking, FailedBeyond
<1> QED
  BY <1>1, <1>2, <1>3, <1>4 DEF Root, Blocking

LEMMA RootGiveUp == \A o \in queue : Sound /\ Root /\ GiveUp(o) => Root'
<1> SUFFICES ASSUME NEW o \in queue, Sound, Root, GiveUp(o) PROVE Root'
  OBVIOUS
<1> DEFINE s  == heap[o.state]
           fd == IF s.failed_depth # 0 /\ s.failed_depth <= Reach(o) THEN s.failed_depth ELSE Reach(o)
           h  == [heap EXCEPT ![o.state].failed_depth = fd]
<1>1. /\ pc = "block" /\ pc' = "block" /\ queue' = queue \ {o} /\ GivenUp(o)
      /\ UNCHANGED <<ckt, size, cubes, solver>> /\ depth' = depth
  BY DEF GiveUp, frameVars, depth
<1>2. o \in ObligationRecord /\ heap \in Seq(StateRecord) /\ size \in Nat
  BY DEF Sound, Typed, TypeOK
<1>3. /\ o.state \in 1 .. Len(heap) /\ o.frame_k \in 0 .. depth /\ o.depth \in Nat /\ Len(heap) \in Nat
      /\ s \in StateRecord /\ s.next \in 0 .. Len(heap) /\ s.failed_depth \in Nat /\ Len(heap) >= 2
  <2>1. Len(heap) \in Nat
    BY <1>2, LenProperties
  <2> QED
    BY <1>1, <1>2, <2>1, ObligationType DEF StateRecord, Sound, Root, Blocking
<1>4. Reach(o) \in Nat /\ depth \in Int
  BY <1>2, <1>3 DEF Reach, depth
<1>5. s.failed_depth = 0 \/ s.failed_depth > depth
  BY <1>1, <1>3 DEF Root, Blocking, FailedBeyond
<1>6. fd \in Nat /\ fd > depth
  BY <1>1, <1>3, <1>4, <1>5 DEF GivenUp
<1>7. Reach(o) > depth
  BY <1>1, <1>3, <1>4, <1>5 DEF GivenUp
<1> HIDE DEF fd
<1>8. FailedBeyond(h, depth) /\ SameStates(h, heap)
  BY <1>1, <1>2, <1>3, <1>6, PunishBeyond, PunishType DEF Root, Blocking
<1> HIDE DEF h
<1>9. FailedBeyond(heap', depth)
  <2>1. CASE s.next = 0
    BY <1>8, <2>1 DEF GiveUp, h, fd
  <2>2. CASE s.next # 0
    <3>1. s.next \in 1 .. Len(h) /\ heap' = [h EXCEPT ![s.next].failed_depth = fd] /\ h \in Seq(StateRecord)
      BY <1>3, <1>8, <2>2 DEF GiveUp, h, fd, SameStates
    <3> HIDE DEF s
    <3> QED
      BY <1>6, <1>8, <3>1, PunishBeyond
  <2> QED
    BY <2>1, <2>2
<1>10. SameHeap
  BY GiveUpHeap DEF Sound, SameStates, SameHeap
<1>11. RootOut => RootOut'
  <2>1. F(depth)' = F(depth)
    BY <1>1 DEF F
  <2> QED
    BY <1>1, <1>3, <1>10, <2>1, RootOutStays DEF Sound
<1>12. RootPending => RootPending'
  <2> SUFFICES ASSUME RootPending PROVE RootPending'
    OBVIOUS
  <2>1. PICK r \in queue : r.state = 2 /\ r.frame_k = depth - 1
    BY <1>1 DEF RootPending
  <2>2. r.depth = 1
    BY <1>1, <2>1 DEF Root, Blocking
  <2>3. r # o
    BY <1>4, <1>7, <2>1, <2>2 DEF Reach
  <2> QED
    BY <1>1, <2>1, <2>3 DEF RootPending
<1> QED
  BY <1>1, <1>3, <1>9, <1>10, <1>11, <1>12 DEF Root, Blocking, SameHeap

LEMMA RootPredecessor == \A o \in queue : Sound /\ Root /\ Predecessor(o) => Root'
<1> SUFFICES ASSUME NEW o \in queue, Sound, Root, Predecessor(o) PROVE Root'
  OBVIOUS
<1>1. /\ pc = "block" /\ pc' = "block" /\ UNCHANGED <<ckt, size, cubes, solver>> /\ depth' = depth
      /\ queue' = queue \cup {[state |-> Len(heap'), frame_k |-> o.frame_k - 1, depth |-> o.depth + 1]}
  BY DEF Predecessor, frameVars, depth
<1>2. heap \in Seq(StateRecord) /\ Len(heap) \in Nat /\ Len(heap) >= 2
  BY <1>1, LenProperties DEF Sound, Typed, TypeOK, Root, Blocking
<1>3. PICK m \in Into(o.frame_k, Latches(o), Latches(o)) : \E p \in Lifted(m, Latches(o)) :
        heap' = Append(heap, NewState(p, m.inputs, o.state))
  BY DEF Predecessor
<1>4. PICK p \in Lifted(m, Latches(o)) : heap' = Append(heap, NewState(p, m.inputs, o.state))
  BY <1>3
<1>5. PICK n : n = NewState(p, m.inputs, o.state)
  OBVIOUS
<1>6. n \in StateRecord /\ n.failed_depth = 0
  <2>1. m \in Model
    BY QueryType
  <2>2. p \in Cube /\ m.inputs \in Input /\ o.state \in Nat
    BY <1>2, <2>1, LiftedType, ObligationType DEF Model, Sound, Typed, TypeOK
  <2> QED
    BY <1>5, <2>2, NewStateType DEF NewState
<1>7. /\ Len(heap') = Len(heap) + 1 /\ heap'[Len(heap) + 1] = n
      /\ \A j \in 1 .. Len(heap) : heap'[j] = heap[j]
  BY <1>2, <1>4, <1>5, <1>6, AppendProperties
<1>8. FailedBeyond(heap', depth)
  <2>1. FailedBeyond(heap, depth)
    BY <1>1 DEF Root, Blocking
  <2>2. \A j \in 1 .. Len(heap) + 1 : j \in 1 .. Len(heap) \/ j = Len(heap) + 1
    BY <1>2
  <2> QED
    BY <1>6, <1>7, <2>1, <2>2 DEF FailedBeyond
<1>9. heap'[2] = heap[2] /\ Len(heap') # 2
  BY <1>2, <1>7
<1>10. RootOut' = RootOut
  BY <1>1, <1>9 DEF RootOut, F
<1>11. RootPending => RootPending'
  BY <1>1 DEF RootPending
<1>12. \A r \in queue' : r.state = 2 => r.depth = 1
  <2>1. \A r \in queue : r.state = 2 => r.depth = 1
    BY <1>1 DEF Root, Blocking
  <2>2. PICK q : q = [state |-> Len(heap'), frame_k |-> o.frame_k - 1, depth |-> o.depth + 1]
    OBVIOUS
  <2>3. queue' = queue \cup {q} /\ q.state # 2
    BY <1>1, <1>9, <2>2
  <2> QED
    BY <2>1, <2>3
<1> QED
  BY <1>1, <1>2, <1>7, <1>8, <1>10, <1>11, <1>12 DEF Root, Blocking

(* Generalization leaves the queue and the heap alone and shrinks frames. *)
LEMMA RootMic ==
  ASSUME Sound, Root, pc \in {"mic", "down"}, pc' \in {"mic", "down"}, UNCHANGED <<size, heap, queue, obl>>,
         F(depth)' \subseteq F(depth)
  PROVE  Root'
<1>1. depth' = depth /\ SameHeap
  BY DEF depth, SameHeap
<1>2. RootOut => RootOut'
  BY <1>1, RootOutStays DEF Sound, Root, Blocking
<1>3. RootPending => RootPending'
  BY <1>1 DEF RootPending
<1> QED
  BY <1>1, <1>2, <1>3 DEF Root, Blocking

LEMMA RootDown == Sound /\ Root /\ (mic \/ CTG_down) => Root'
<1> SUFFICES ASSUME Sound, Root, mic \/ CTG_down PROVE Root'
  OBVIOUS
<1>1. /\ pc \in {"mic", "down"} /\ pc' \in {"mic", "down"}
      /\ UNCHANGED <<ckt, size, cubes, solver, heap, queue, obl>>
  BY DEF mic, CTG_down, DownFails, DownSucceeds, BlockCtg, Join, frameVars, blockVars
<1>2. F(depth)' = F(depth)
  BY <1>1 DEF F, depth
<1> QED
  BY <1>1, <1>2, RootMic

LEMMA RootCtgAdded == Sound /\ Root /\ CtgAdded => Root'
<1> SUFFICES ASSUME Sound, Root, CtgAdded PROVE Root'
  OBVIOUS
<1>1. /\ pc = "mic" /\ rec_depth = 2 /\ Len(stack) = 2 /\ act = stack[2]
      /\ act \in Activation /\ core \in Cube /\ size \in Nat /\ size >= 3
  BY ActType DEF CtgAdded, MicDone, Sound, Typed, TypeOK, Control, MainLoop, rec_depth, act
<1>2. act.k \in Level /\ act.k + 1 \in Level \ {0} /\ (act.k + 1) - 1 = act.k /\ depth \in Level
  BY <1>1 DEF Activation, Level, depth
<1>3. ~is_init(core) /\ is_inductive((act.k + 1) - 1, core)
  BY <1>1, <1>2, MicCubes
<1>4. Strengthen(core, act.k + 1)
  BY <1>1, <1>2, <1>3, AddCubeFrames DEF CtgAdded, Sound
<1>5. UNCHANGED <<size, heap, queue, obl>> /\ pc' = "down" /\ depth' = depth
  BY <1>4 DEF CtgAdded, blockVars, Strengthen, depth
<1>6. F(depth)' \subseteq F(depth)
  BY <1>2, <1>4, <1>5 DEF Strengthen
<1> QED
  BY <1>1, <1>5, <1>6, RootMic

LEMMA RootGeneralized == Sound /\ Root /\ Generalized => Root'
<1> SUFFICES ASSUME Sound, Root, Generalized PROVE Root'
  OBVIOUS
<1>1. /\ pc = "mic" /\ rec_depth = 1 /\ act = stack[1] /\ act \in Activation
      /\ obl \in ObligationRecord /\ size \in Nat /\ size >= 3
      /\ act.k = obl.frame_k /\ act.cube \subseteq Latches(obl)
  BY ActType DEF Generalized, MicDone, Sound, Typed, TypeOK, Control, MainLoop, act
<1>2. /\ act.cube \in Cube /\ obl.frame_k \in 0 .. depth /\ obl.state \in 1 .. Len(heap)
      /\ heap \in Seq(StateRecord) /\ Len(heap) \in Nat /\ Len(heap) >= 2 /\ depth \in Level \ {0}
      /\ heap[obl.state].next \in 0 .. Len(heap)
  <2>1. heap \in Seq(StateRecord) /\ Len(heap) \in Nat /\ Len(heap) >= 2
    BY <1>1, LenProperties DEF Sound, Typed, TypeOK, Root, Blocking
  <2>2. /\ obl.frame_k \in 0 .. depth /\ obl.state \in 1 .. Len(heap)
        /\ heap[obl.state].next \in 0 .. Len(heap)
    BY <1>1, <2>1, ObligationType DEF Sound
  <2>3. act.cube \in Cube /\ depth \in Level \ {0}
    BY <1>1 DEF Activation, Level, depth
  <2> QED
    BY <2>1, <2>2, <2>3
<1>3. PICK k \in obl.frame_k + 1 .. depth + 1 :
        /\ PushesTo(act.cube, obl.frame_k + 1, k)
        /\ queue' = IF Requeued(heap[obl.state].latches, k)
                    THEN queue \cup {[state |-> obl.state, frame_k |-> k, depth |-> obl.depth]}
                    ELSE queue
        /\ add_cube(act.cube, k)
  BY DEF Generalized
<1>4. k \in Level \ {0} /\ (k = obl.frame_k + 1 \/ k - 1 \in obl.frame_k + 1 .. k - 1)
  BY <1>1, <1>2 DEF Level, depth
<1>5. ~is_init(act.cube) /\ is_inductive(k - 1, act.cube)
  <2>1. ~is_init(act.cube) /\ is_inductive(obl.frame_k, act.cube)
    BY <1>1, MicCubes
  <2>2. CASE k = obl.frame_k + 1
    <3>1. k - 1 = obl.frame_k
      BY <1>2, <2>2
    <3> QED
      BY <2>1, <3>1
  <2>3. CASE k - 1 \in obl.frame_k + 1 .. k - 1
    BY <1>3, <2>1, <2>3 DEF PushesTo
  <2> QED
    BY <1>4, <2>2, <2>3
<1>6. Strengthen(act.cube, k) /\ size' = size /\ depth' = depth
  BY <1>2, <1>3, <1>4, <1>5, AddCubeFrames DEF Generalized, Sound, Strengthen, depth
<1>7. pc' = "block" /\ SameHeap
  BY GeneralizedHeap DEF Generalized, Sound, SameStates, SameHeap
<1>8. FailedBeyond(heap', depth)
  <2>1. FailedBeyond(heap, depth)
    BY <1>1 DEF Root, Blocking
  <2>2. heap' = heap \/ \E n \in 1 .. Len(heap), v \in Nat : heap' = [heap EXCEPT ![n].failed = v]
    <3> DEFINE s == heap[obl.state]
               v == Saturate(heap[s.next].failed + Punishment(Cardinality(act.cube)))
    <3>1. CASE s.next = 0
      BY <3>1 DEF Generalized
    <3>2. CASE s.next # 0
      <4>1. s.next \in 1 .. Len(heap) /\ heap' = [heap EXCEPT ![s.next].failed = v]
        BY <1>2, <3>2 DEF Generalized
      <4> HIDE DEF s
      <4>2. heap[s.next] \in StateRecord
        BY <1>2, <4>1, ElementOfSeq
      <4>3. v \in Nat
        BY <4>2, OptionsAssumption DEF Saturate, Punishment, StateRecord
      <4> QED
        BY <4>1, <4>3
    <3> QED
      BY <3>1, <3>2
  <2>3. ASSUME NEW n \in 1 .. Len(heap), NEW v \in Nat, heap' = [heap EXCEPT ![n].failed = v]
        PROVE  FailedBeyond(heap', depth)
    <3>1. FailedBeyond([heap EXCEPT ![n].failed = v], depth)
      BY <1>2, <2>1, PunishBeyond
    <3> QED
      BY <2>3, <3>1
  <2> QED
    BY <2>1, <2>2, <2>3
<1>9. \A r \in queue' : r.state = 2 => r.depth = 1
  <2>1. obl.state = 2 => obl.depth = 1
    BY <1>1 DEF Root, Blocking
  <2>2. \A r \in queue : r.state = 2 => r.depth = 1
    BY <1>1 DEF Root, Blocking
  <2> QED
    BY <1>3, <2>1, <2>2
<1>10. RootPending \/ RootOut => RootPending' \/ RootOut'
  <2>1. CASE RootOut
    <3>1. F(depth)' \subseteq F(depth)
      BY <1>2, <1>6 DEF Strengthen
    <3> QED
      BY <1>2, <1>6, <1>7, <2>1, <3>1, RootOutStays DEF Sound
  <2>2. CASE \E r \in queue : r.state = 2 /\ r.frame_k = depth - 1
    <3>1. queue \subseteq queue'
      BY <1>3
    <3> QED
      BY <1>6, <2>2, <3>1 DEF RootPending
  <2>3. CASE obl.state = 2 /\ obl.frame_k >= depth - 1
    <3>1. depth \in 1 .. k
      BY <1>1, <1>2, <1>3, <2>3 DEF Level, depth
    <3>2. \A x \in F(depth)' : ~(act.cube \subseteq x)
      BY <1>2, <1>6, <3>1 DEF Strengthen
    <3>3. heap'[2].latches = heap[2].latches /\ act.cube \subseteq heap[2].latches
      BY <1>1, <1>2, <1>7, <2>3 DEF SameHeap, Latches
    <3> QED
      BY <1>6, <3>2, <3>3 DEF RootOut
  <2> QED
    BY <2>1, <2>2, <2>3 DEF RootPending
<1> QED
  BY <1>1, <1>2, <1>6, <1>7, <1>8, <1>9, <1>10 DEF Root, Blocking, SameHeap

LEMMA RootNext == Sound /\ Root /\ [Next]_vars => Root'
<1> SUFFICES ASSUME Sound, Root, [Next]_vars PROVE Root'
  OBVIOUS
<1>1. CASE OtherEngine \/ Finished \/ UNCHANGED vars
  <2>1. UNCHANGED <<ckt, pc, size, cubes, solver, heap, queue, obl>>
    BY <1>1 DEF OtherEngine, Finished, vars, frameVars, blockVars
  <2>2. depth' = depth /\ F(depth)' = F(depth)
    BY <2>1 DEF F, depth
  <2> QED
    BY <2>1, <2>2 DEF Root, RootPending, RootOut, FailedBeyond
<1>2. CASE \/ check_BMC0 \/ check_BMC1 \/ Interrupted \/ NoPreOfBad \/ AllBlocked
           \/ PropagateCube \/ FixpointFound \/ NextFrame \/ NoFixpoint \/ ProvedSafe \/ FoundBug
           \/ \E o \in queue : Counterexample(o)
  <2>1. pc' \notin Blocking
    BY <1>2 DEF check_BMC0, check_BMC1, Interrupted, NoPreOfBad, AllBlocked, PropagateCube,
       FixpointFound, NextFrame, NoFixpoint, FrameDone, ProvedSafe, FoundBug, Counterexample, Blocking
  <2> QED
    BY <2>1 DEF Root
<1> QED
  BY <1>1, <1>2, RootGetPre, RootBlockedStep, RootGiveUp, RootPredecessor, RootDown, RootCtgAdded,
     RootGeneralized
  DEF Next, Engine

(* When rec_block_cube returns with an empty queue, the state one step     *)
(* from bad it was called for is out of the top frame: get_pre_of_bad does *)
(* not find it again, although chains of obligations are given up (-pr or  *)
(* not, punished or not) on the way.                                       *)
THEOREM RootIsBlocked == ASSUME Admissible PROVE Spec => RootBlocked
<1>1. Spec => []Sound
  BY AlwaysSound
<1>2. Init => Root
  BY DEF Init, Root, Blocking
<1>3. Sound /\ Root /\ [Next]_vars => Root'
  BY RootNext
<1>4. Sound /\ Root /\ [Next]_vars =>
        [pc = "block" /\ pc' = "loop" /\ RESULT = 0 =>
           \A x \in F(depth) : ~(heap[2].latches \subseteq x)]_vars
  <2> SUFFICES ASSUME Sound, Root, [Next]_vars, pc = "block", pc' = "loop", RESULT = 0 PROVE RootOut
    BY DEF RootOut
  <2>1. AllBlocked
    BY DEF Next, Engine, vars, check_BMC0, check_BMC1, Interrupted, get_pre_of_bad, NoPreOfBad,
       Blocked, GiveUp, Predecessor, Counterexample, mic, CTG_down, CtgAdded, MicDone, Generalized,
       PropagateCube, FixpointFound, NextFrame, NoFixpoint, FrameDone, ProvedSafe, FoundBug,
       OtherEngine, Finished
  <2>2. queue = {}
    BY <2>1 DEF AllBlocked
  <2> QED
    BY <2>2 DEF Root, Blocking, RootPending
<1> QED
  BY <1>1, <1>2, <1>3, <1>4, PTL DEF Spec, RootBlocked

-----------------------------------------------------------------------------
(* The witness. *)
(* The inputs of the sequence w, applied from the assignment z, meet the   *)
(* constraints and reach bad.                                              *)
Run(z, w, n, r) ==
  /\ r \in [1 .. n -> State] /\ r[1] = z
  /\ \A i \in 1 .. n - 1 : r[i + 1] = ckt.next[<<r[i], w[i].inputs>>]

Reaches(z, w) ==
  \E n \in 1 .. Len(w) : \E r \in [1 .. n -> State] :
    /\ Run(z, w, n, r)
    /\ <<r[n], w[n].inputs>> \in ckt.bad
    /\ \A m \in 1 .. n : <<r[m], w[m].inputs>> \in ckt.cons

(* What the state n of the heap promises of every assignment of its cube.  *)
Leads(c, h, n) ==
  /\ h[n].next >= 1
  /\ \A z \in State : h[n].latches \subseteq z =>
       \/ <<z, h[n].inputs>> \in c.bad
       \/ LET y == c.next[<<z, h[n].inputs>>]
          IN /\ <<z, h[n].inputs>> \in c.cons
             /\ h[n].next = 1 => <<y, h[1].inputs>> \in c.bad \cap c.cons
             /\ h[n].next > 1 => h[h[n].next].latches \subseteq y

HeapLeads == \A n \in 2 .. Len(heap) : Leads(ckt, heap, n)

-----------------------------------------------------------------------------
LEMMA SingletonCons ==
  ASSUME NEW r \in StateRecord, NEW w \in Seq(StateRecord)
  PROVE  /\ <<r>> \o w \in Seq(StateRecord) /\ Len(<<r>> \o w) = Len(w) + 1
         /\ (<<r>> \o w)[1] = r /\ Len(w) \in Nat
         /\ \A i \in 1 .. Len(w) : (<<r>> \o w)[i + 1] = w[i]
<1>1. <<r>> \in Seq(StateRecord) /\ Len(<<r>>) = 1 /\ <<r>>[1] = r /\ Len(w) \in Nat
  BY LenProperties
<1> DEFINE a == <<r>>
<1> HIDE DEF a
<1>2. /\ a \o w \in Seq(StateRecord) /\ Len(a \o w) = Len(a) + Len(w)
      /\ \A i \in 1 .. Len(a) + Len(w) : (a \o w)[i] = IF i <= Len(a) THEN a[i] ELSE w[i - Len(a)]
  BY <1>1, ConcatProperties DEF a
<1>3. \A i \in 1 .. Len(w) : i + 1 \in 1 .. 1 + Len(w) /\ ~(i + 1 <= 1) /\ (i + 1) - 1 = i
  BY <1>1
<1> QED
  BY <1>1, <1>2, <1>3 DEF a

(* Bad at once, or a step and bad from there. *)
LEMMA ReachesNow ==
  ASSUME NEW z \in State, NEW r \in StateRecord, NEW w \in Seq(StateRecord),
         <<z, r.inputs>> \in ckt.bad \cap ckt.cons
  PROVE  Reaches(z, <<r>> \o w)
<1> DEFINE v == <<r>> \o w
<1>1. 1 \in 1 .. Len(v) /\ v[1] = r
  BY SingletonCons
<1> HIDE DEF v
<1> DEFINE q == [i \in 1 .. 1 |-> z]
<1>2. q \in [1 .. 1 -> State] /\ Run(z, v, 1, q) /\ q[1] = z
  BY DEF Run
<1>3. \A m \in 1 .. 1 : m = 1
  OBVIOUS
<1> HIDE DEF q
<1> QED
  BY <1>1, <1>2, <1>3 DEF Reaches, v

LEMMA ReachesStep ==
  ASSUME NEW z \in State, NEW r \in StateRecord, NEW w \in Seq(StateRecord),
         <<z, r.inputs>> \in ckt.cons, Reaches(ckt.next[<<z, r.inputs>>], w)
  PROVE  Reaches(z, <<r>> \o w)
<1> DEFINE y == ckt.next[<<z, r.inputs>>]
<1> DEFINE v == <<r>> \o w
<1>1. /\ Len(v) = Len(w) + 1 /\ v[1] = r /\ Len(w) \in Nat
      /\ \A i \in 1 .. Len(w) : v[i + 1] = w[i]
  BY SingletonCons
<1> HIDE DEF v
<1>a. PICK n \in 1 .. Len(w) : \E p \in [1 .. n -> State] :
        /\ Run(y, w, n, p)
        /\ <<p[n], w[n].inputs>> \in ckt.bad
        /\ \A m \in 1 .. n : <<p[m], w[m].inputs>> \in ckt.cons
  BY DEF Reaches
<1>2. PICK p \in [1 .. n -> State] :
        /\ Run(y, w, n, p)
        /\ <<p[n], w[n].inputs>> \in ckt.bad
        /\ \A m \in 1 .. n : <<p[m], w[m].inputs>> \in ckt.cons
  BY <1>a
<1> HIDE DEF y
<1> DEFINE q == [i \in 1 .. n + 1 |-> IF i = 1 THEN z ELSE p[i - 1]]
<1>3. n \in Nat /\ n >= 1 /\ n + 1 \in 1 .. Len(v) /\ n <= Len(w)
  BY <1>1
<1>4. q \in [1 .. n + 1 -> State] /\ q[1] = z /\ \A i \in 1 .. n : q[i + 1] = p[i]
  <2>1. \A i \in 1 .. n + 1 : i # 1 => i - 1 \in 1 .. n
    BY <1>3
  <2>2. \A i \in 1 .. n : i + 1 \in 1 .. n + 1 /\ i + 1 # 1 /\ (i + 1) - 1 = i
    BY <1>3
  <2>3. 1 \in 1 .. n + 1
    BY <1>3
  <2> QED
    BY <2>1, <2>2, <2>3
<1> HIDE DEF q
<1>5. \A i \in 1 .. n + 1 : i = 1 \/ (i - 1 \in 1 .. n /\ (i - 1) + 1 = i)
  BY <1>3
<1>6. Run(z, v, n + 1, q)
  <2> SUFFICES ASSUME NEW i \in 1 .. (n + 1) - 1
               PROVE  q[i + 1] = ckt.next[<<q[i], v[i].inputs>>]
    BY <1>4 DEF Run
  <2>1. i \in 1 .. n /\ q[i + 1] = p[i]
    BY <1>3, <1>4
  <2>2. CASE i = 1
    BY <1>1, <1>2, <1>4, <2>1, <2>2 DEF Run, y
  <2>3. CASE i # 1
    <3>1. PICK k \in 1 .. n - 1 : i = k + 1 /\ k \in 1 .. n /\ k \in 1 .. Len(w)
      <4>1. i - 1 \in 1 .. n - 1 /\ i = (i - 1) + 1 /\ i - 1 \in 1 .. n /\ i - 1 \in 1 .. Len(w)
        BY <1>3, <2>1, <2>3
      <4> QED
        BY <4>1
    <3>2. p[k + 1] = ckt.next[<<p[k], w[k].inputs>>]
      BY <1>2 DEF Run
    <3>3. q[i] = p[k] /\ v[i] = w[k]
      BY <1>1, <1>4, <3>1
    <3> QED
      BY <2>1, <3>1, <3>2, <3>3
  <2> QED
    BY <2>2, <2>3
<1>7. <<q[n + 1], v[n + 1].inputs>> \in ckt.bad
  <2>1. n \in 1 .. n /\ n \in 1 .. Len(w)
    BY <1>3
  <2>2. q[n + 1] = p[n] /\ v[n + 1] = w[n]
    BY <1>1, <1>4, <2>1
  <2> QED
    BY <1>2, <2>2
<1>8. ASSUME NEW m \in 1 .. n + 1 PROVE <<q[m], v[m].inputs>> \in ckt.cons
  <2>1. CASE m = 1
    BY <1>1, <1>4, <2>1
  <2>2. CASE m # 1
    <3>1. PICK k \in 1 .. n : m = k + 1 /\ k \in 1 .. Len(w)
      <4>1. m - 1 \in 1 .. n /\ m = (m - 1) + 1 /\ m - 1 \in 1 .. Len(w)
        BY <1>3, <2>2
      <4> QED
        BY <4>1
    <3> QED
      BY <1>1, <1>2, <1>4, <3>1
  <2> QED
    BY <2>1, <2>2
<1> QED
  BY <1>3, <1>4, <1>6, <1>7, <1>8 DEF Reaches, v

-----------------------------------------------------------------------------
(* log_witness's chain is defined for every heap whose states point back.  *)
Linked(h) == h \in Seq(StateRecord) /\ \A n \in DOMAIN h : h[n].next < n

LinkedStates(h) == \A n \in 1 .. Len(h) : h[n] \in StateRecord /\ h[n].next \in 0 .. n - 1

LEMMA LinkedType ==
  ASSUME NEW h, Linked(h)
  PROVE  LinkedStates(h) /\ Len(h) \in Nat
<1>1. h \in Seq(StateRecord) /\ Len(h) \in Nat /\ DOMAIN h = 1 .. Len(h)
  BY LenProperties DEF Linked
<1>2. \A n \in 1 .. Len(h) : h[n] \in StateRecord /\ h[n].next < n
  BY <1>1, ElementOfSeq DEF Linked
<1>3. \A n \in 1 .. Len(h) : h[n].next \in Nat
  BY <1>2 DEF StateRecord
<1> QED
  BY <1>1, <1>2, <1>3 DEF LinkedStates

ChainUpTo(h, k, f) == f = [n \in 0 .. k |-> IF n = 0 THEN << >> ELSE <<h[n]>> \o f[h[n].next]]

LEMMA ChainDefined ==
  ASSUME NEW h, Linked(h)
  PROVE  ChainUpTo(h, Len(h), Chain(h))
<1> DEFINE S == {k \in Nat : k <= Len(h) => \E f : ChainUpTo(h, k, f)}
<1>1. Len(h) \in Nat /\ LinkedStates(h)
  BY LinkedType
<1>2. 0 \in S
  <2>1. ChainUpTo(h, 0, [n \in 0 .. 0 |-> << >>])
    <3>1. \A n \in 0 .. 0 : n = 0
      OBVIOUS
    <3> QED
      BY <3>1 DEF ChainUpTo
  <2> QED
    BY <2>1
<1>3. ASSUME NEW k \in Nat, k \in S PROVE k + 1 \in S
  <2> SUFFICES ASSUME k + 1 <= Len(h) PROVE \E f : ChainUpTo(h, k + 1, f)
    OBVIOUS
  <2>1. PICK f : ChainUpTo(h, k, f)
    BY <1>1, <1>3
  <2> DEFINE g == [n \in 0 .. k + 1 |-> IF n = k + 1 THEN <<h[k + 1]>> \o f[h[k + 1].next] ELSE f[n]]
  <2>2. \A n \in 0 .. k + 1 : n # 0 => h[n].next \in 0 .. k /\ h[n].next # k + 1 /\ h[n].next \in 0 .. k + 1
    BY <1>1 DEF LinkedStates
  <2>3. ASSUME NEW n \in 0 .. k + 1
        PROVE  g[n] = IF n = 0 THEN << >> ELSE <<h[n]>> \o g[h[n].next]
    <3>1. CASE n = k + 1
      <4>1. n # 0 /\ g[n] = <<h[n]>> \o f[h[n].next]
        BY <3>1
      <4>2. g[h[n].next] = f[h[n].next]
        BY <2>2, <4>1
      <4> QED
        BY <4>1, <4>2
    <3>2. CASE n # k + 1
      <4>1. n \in 0 .. k /\ g[n] = f[n]
        BY <3>2
      <4>2. f[n] = IF n = 0 THEN << >> ELSE <<h[n]>> \o f[h[n].next]
        BY <2>1, <4>1 DEF ChainUpTo
      <4>3. n # 0 => g[h[n].next] = f[h[n].next]
        BY <2>2
      <4> QED
        BY <4>1, <4>2, <4>3
    <3> QED
      BY <3>1, <3>2
  <2>4. g = [n \in 0 .. k + 1 |-> g[n]]
    OBVIOUS
  <2> HIDE DEF g
  <2>5. ChainUpTo(h, k + 1, g)
    BY <2>3, <2>4 DEF ChainUpTo
  <2> QED
    BY <2>5
<1> HIDE DEF S
<1>4. Len(h) \in S
  BY <1>1, <1>2, <1>3, SetInduction
<1>5. \E f : ChainUpTo(h, Len(h), f)
  BY <1>1, <1>4 DEF S
<1> QED
  BY <1>5 DEF Chain, ChainUpTo

LEMMA ChainStep ==
  ASSUME NEW h, Linked(h), NEW n \in 1 .. Len(h)
  PROVE  Chain(h)[n] = <<h[n]>> \o Chain(h)[h[n].next]
<1>1. Len(h) \in Nat
  BY LinkedType
<1>2. n \in 0 .. Len(h) /\ n # 0
  BY <1>1
<1>3. ChainUpTo(h, Len(h), Chain(h))
  BY ChainDefined
<1> DEFINE f == Chain(h)
<1> HIDE DEF f
<1> QED
  BY <1>2, <1>3 DEF ChainUpTo, f

LEMMA ChainEnd ==
  ASSUME NEW h, Linked(h)
  PROVE  Chain(h)[0] = << >>
<1>1. 0 \in 0 .. Len(h)
  BY LinkedType
<1>3. ChainUpTo(h, Len(h), Chain(h))
  BY ChainDefined
<1> DEFINE f == Chain(h)
<1> HIDE DEF f
<1> QED
  BY <1>1, <1>3 DEF ChainUpTo, f

LEMMA ChainType ==
  ASSUME NEW h, Linked(h)
  PROVE  \A n \in 0 .. Len(h) : Chain(h)[n] \in Seq(StateRecord)
<1> DEFINE S == {n \in Nat : n <= Len(h) => Chain(h)[n] \in Seq(StateRecord)}
<1>1. Len(h) \in Nat /\ LinkedStates(h)
  BY LinkedType
<1>2. ASSUME NEW n \in Nat, \A m \in 0 .. n - 1 : m \in S PROVE n \in S
  <2> SUFFICES ASSUME n <= Len(h) PROVE Chain(h)[n] \in Seq(StateRecord)
    OBVIOUS
  <2>1. CASE n = 0
    <3>1. Chain(h)[n] = << >>
      BY <2>1, ChainEnd
    <3> QED
      BY <3>1
  <2>2. CASE n # 0
    <3>1. n \in 1 .. Len(h)
      BY <1>1, <2>2
    <3>2. h[n] \in StateRecord /\ h[n].next \in 0 .. n - 1
      BY <1>1, <3>1 DEF LinkedStates
    <3>3. h[n].next \in S /\ h[n].next <= Len(h)
      BY <1>1, <1>2, <3>1, <3>2
    <3>4. Chain(h)[h[n].next] \in Seq(StateRecord)
      BY <3>3
    <3>5. <<h[n]>> \o Chain(h)[h[n].next] \in Seq(StateRecord)
      BY <3>2, <3>4, SingletonCons
    <3>6. Chain(h)[n] = <<h[n]>> \o Chain(h)[h[n].next]
      BY <3>1, ChainStep
    <3> QED
      BY <3>5, <3>6
  <2> QED
    BY <2>1, <2>2
<1> HIDE DEF S
<1>3. \A n \in Nat : n \in S
  BY <1>2, SetStrongInduction
<1> QED
  BY <1>1, <1>3 DEF S

(* From every assignment of a state of the heap, the chain's inputs reach bad. *)
LEMMA ChainReaches ==
  ASSUME Typed, BadIsAdmissible(ckt), NEW h, Linked(h), \A n \in 2 .. Len(h) : Leads(ckt, h, n)
  PROVE  \A n \in 2 .. Len(h) : \A z \in State :
           h[n].latches \subseteq z => Reaches(z, Chain(h)[n])
<1> DEFINE P(n) == \A z \in State : h[n].latches \subseteq z => Reaches(z, Chain(h)[n])
<1> DEFINE S == {n \in Nat : n \in 2 .. Len(h) => P(n)}
<1>1. Len(h) \in Nat /\ LinkedStates(h)
  BY LinkedType
<1>2. ASSUME NEW n \in Nat, \A m \in 0 .. n - 1 : m \in S PROVE n \in S
  <2> SUFFICES ASSUME n \in 2 .. Len(h), NEW z \in State, h[n].latches \subseteq z
               PROVE  Reaches(z, Chain(h)[n])
    OBVIOUS
  <2> DEFINE k == h[n].next
  <2> DEFINE y == ckt.next[<<z, h[n].inputs>>]
  <2>1. n \in 1 .. Len(h) /\ h[n] \in StateRecord /\ k \in 0 .. n - 1 /\ h[n].inputs \in Input
    BY <1>1 DEF LinkedStates, StateRecord
  <2>2. k \in 0 .. Len(h)
    BY <1>1, <2>1
  <2>3. Chain(h)[n] = <<h[n]>> \o Chain(h)[k] /\ Chain(h)[k] \in Seq(StateRecord)
    BY <2>1, <2>2, ChainStep, ChainType
  <2>4. CASE <<z, h[n].inputs>> \in ckt.bad
    BY <2>1, <2>3, <2>4, ReachesNow DEF BadIsAdmissible
  <2>5. CASE <<z, h[n].inputs>> \notin ckt.bad
    <3>1. /\ k >= 1 /\ <<z, h[n].inputs>> \in ckt.cons
          /\ k = 1 => <<y, h[1].inputs>> \in ckt.bad \cap ckt.cons
          /\ k > 1 => h[k].latches \subseteq y
      BY <2>5 DEF Leads
    <3>2. y \in State
      BY <2>1, CircuitType
    <3>3. Reaches(y, Chain(h)[k])
      <4>1. CASE k = 1
        <5>1. 1 \in 1 .. Len(h) /\ h[1] \in StateRecord /\ h[1].next = 0
          <6>1. 1 \in 1 .. Len(h)
            BY <1>1
          <6>2. h[1] \in StateRecord /\ h[1].next \in 0 .. 1 - 1
            BY <1>1, <6>1 DEF LinkedStates
          <6> QED
            BY <6>1, <6>2
        <5>2. Chain(h)[1] = <<h[1]>> \o Chain(h)[0] /\ Chain(h)[0] \in Seq(StateRecord)
          <6>1. 0 \in 0 .. Len(h)
            BY <1>1
          <6> QED
            BY <5>1, <6>1, ChainStep, ChainType
        <5> HIDE DEF y
        <5> QED
          BY <3>1, <3>2, <4>1, <5>1, <5>2, ReachesNow
      <4>2. CASE k > 1
        <5>1. k \in S /\ k \in 2 .. Len(h)
          BY <1>1, <1>2, <2>1, <4>2
        <5>2. P(k)
          BY <5>1
        <5> QED
          BY <3>1, <3>2, <4>2, <5>2
      <4> QED
        BY <2>1, <3>1, <4>1, <4>2
    <3> QED
      BY <2>1, <2>3, <3>1, <3>3, ReachesStep
  <2> QED
    BY <2>4, <2>5
<1> HIDE DEF S
<1>3. \A n \in Nat : n \in S
  BY <1>2, SetStrongInduction
<1> QED
  BY <1>1, <1>3 DEF S

-----------------------------------------------------------------------------
(* The simulation WitnessReal makes, of the circuit c and the witness w. *)
RunUpTo(c, w, k, f) ==
  f = [n \in 1 .. k |-> IF n = 1 THEN w[1].latches ELSE c.next[<<f[n - 1], w[n - 1].inputs>>]]

Simulated(c, w) == CHOOSE f : RunUpTo(c, w, Len(w), f)

IsWitness(c, w) ==
  w # << >> =>
    /\ w[1].latches \in State /\ c.init \subseteq w[1].latches
    /\ \E n \in 1 .. Len(w) :
         /\ <<Simulated(c, w)[n], w[n].inputs>> \in c.bad
         /\ \A m \in 1 .. n : <<Simulated(c, w)[m], w[m].inputs>> \in c.cons

LEMMA WitnessRealIs == /\ WitnessReal <=> IsWitness(ckt, cex)
                       /\ WitnessReal' <=> IsWitness(ckt', cex')
BY DEF WitnessReal, IsWitness, Simulated, RunUpTo

LEMMA SimulationDefined ==
  ASSUME NEW c, NEW w, Len(w) \in Nat
  PROVE  RunUpTo(c, w, Len(w), Simulated(c, w))
<1> DEFINE S == {k \in Nat : \E f : RunUpTo(c, w, k, f)}
<1>1. 0 \in S
  <2>1. RunUpTo(c, w, 0, [n \in 1 .. 0 |-> 0])
    <3>1. \A n : n \notin 1 .. 0
      OBVIOUS
    <3> QED
      BY <3>1 DEF RunUpTo
  <2> QED
    BY <2>1
<1>2. ASSUME NEW k \in Nat, k \in S PROVE k + 1 \in S
  <2>1. PICK f : RunUpTo(c, w, k, f)
    BY <1>2
  <2> DEFINE g == [n \in 1 .. k + 1 |->
                     IF n = k + 1
                     THEN IF n = 1 THEN w[1].latches ELSE c.next[<<f[n - 1], w[n - 1].inputs>>]
                     ELSE f[n]]
  <2>2. ASSUME NEW n \in 1 .. k + 1
        PROVE  g[n] = IF n = 1 THEN w[1].latches ELSE c.next[<<g[n - 1], w[n - 1].inputs>>]
    <3>1. n # 1 => n - 1 \in 1 .. k + 1 /\ n - 1 # k + 1
      OBVIOUS
    <3>2. n # 1 => g[n - 1] = f[n - 1]
      BY <3>1
    <3>3. CASE n = k + 1
      BY <3>2, <3>3
    <3>4. CASE n # k + 1
      <4>1. n \in 1 .. k /\ g[n] = f[n]
        BY <3>4
      <4>2. f[n] = IF n = 1 THEN w[1].latches ELSE c.next[<<f[n - 1], w[n - 1].inputs>>]
        BY <2>1, <4>1 DEF RunUpTo
      <4> QED
        BY <3>2, <4>1, <4>2
    <3> QED
      BY <3>3, <3>4
  <2>3. g = [n \in 1 .. k + 1 |-> g[n]]
    OBVIOUS
  <2> HIDE DEF g
  <2>4. RunUpTo(c, w, k + 1, g)
    BY <2>2, <2>3 DEF RunUpTo
  <2> QED
    BY <2>4
<1> HIDE DEF S
<1>3. Len(w) \in S
  BY <1>1, <1>2, SetInduction
<1>4. \E f : RunUpTo(c, w, Len(w), f)
  BY <1>3 DEF S
<1> QED
  BY <1>4 DEF Simulated

(* The simulation is the run. *)
LEMMA WitnessOfRun ==
  ASSUME NEW w \in Seq(StateRecord), w[1].latches \in State, ckt.init \subseteq w[1].latches,
         Reaches(w[1].latches, w)
  PROVE  IsWitness(ckt, w)
<1> DEFINE f == Simulated(ckt, w)
<1>1. Len(w) \in Nat /\ RunUpTo(ckt, w, Len(w), f)
  BY LenProperties, SimulationDefined
<1> HIDE DEF f
<1>a. PICK n \in 1 .. Len(w) : \E r \in [1 .. n -> State] :
        /\ Run(w[1].latches, w, n, r)
        /\ <<r[n], w[n].inputs>> \in ckt.bad
        /\ \A m \in 1 .. n : <<r[m], w[m].inputs>> \in ckt.cons
  BY DEF Reaches
<1>2. PICK r \in [1 .. n -> State] :
        /\ Run(w[1].latches, w, n, r)
        /\ <<r[n], w[n].inputs>> \in ckt.bad
        /\ \A m \in 1 .. n : <<r[m], w[m].inputs>> \in ckt.cons
  BY <1>a
<1> DEFINE S == {k \in Nat : k + 1 \in 1 .. n => f[k + 1] = r[k + 1]}
<1>3. 0 \in S
  <2>1. 1 \in 1 .. Len(w)
    BY <1>1
  <2>2. f[1] = w[1].latches
    BY <1>1, <2>1 DEF RunUpTo
  <2> QED
    BY <1>2, <2>2 DEF Run
<1>4. ASSUME NEW k \in Nat, k \in S PROVE k + 1 \in S
  <2> SUFFICES ASSUME (k + 1) + 1 \in 1 .. n PROVE f[(k + 1) + 1] = r[(k + 1) + 1]
    OBVIOUS
  <2> DEFINE j == k + 1
  <2>1. /\ j \in 1 .. n - 1 /\ j \in 1 .. n /\ j + 1 \in 1 .. Len(w) /\ j + 1 # 1
        /\ (j + 1) - 1 = j
    BY <1>1
  <2>2. f[j] = r[j]
    BY <1>4, <2>1
  <2> HIDE DEF j
  <2>3. f[j + 1] = ckt.next[<<f[j], w[j].inputs>>]
    BY <1>1, <2>1 DEF RunUpTo
  <2>4. r[j + 1] = ckt.next[<<r[j], w[j].inputs>>]
    BY <1>2, <2>1 DEF Run
  <2> QED
    BY <2>2, <2>3, <2>4 DEF j
<1> HIDE DEF S
<1>5. \A k \in Nat : k \in S
  BY <1>3, <1>4, SetInduction
<1>6. ASSUME NEW m \in 1 .. n PROVE f[m] = r[m]
  <2>1. m - 1 \in Nat /\ (m - 1) + 1 = m
    OBVIOUS
  <2> QED
    BY <1>5, <2>1 DEF S
<1>7. n \in 1 .. n
  BY <1>1
<1> QED
  BY <1>2, <1>6, <1>7 DEF IsWitness, f

-----------------------------------------------------------------------------
(* The bounded checks before the frames, and the counterexample of rec_block_cube. *)
LEMMA WitnessBMC0 == Typed /\ check_BMC0 /\ cex' # cex => WitnessReal'
<1> SUFFICES ASSUME Typed, check_BMC0, cex' # cex PROVE IsWitness(ckt', cex')
  BY WitnessRealIs
<1>1. PICK m \in Model : /\ ckt.init \subseteq m.pre /\ <<m.pre, m.inputs>> \in ckt.cons \cap ckt.bad
                         /\ cex' = <<NewState(m.pre, m.inputs, 0)>>
  BY DEF check_BMC0
<1> DEFINE s == NewState(m.pre, m.inputs, 0)
<1>2. m.pre \in State /\ m.pre \in Cube /\ m.inputs \in Input
  BY StateAssumption DEF Model
<1>3. s \in StateRecord /\ s.latches = m.pre /\ s.inputs = m.inputs
  BY <1>2, NewStateType DEF NewState
<1> HIDE DEF s
<1>4. cex' = <<s>> \o << >> /\ << >> \in Seq(StateRecord)
  BY <1>1 DEF s
<1>5. Reaches(m.pre, <<s>> \o << >>)
  BY <1>1, <1>2, <1>3, <1>4, ReachesNow
<1>6. cex' \in Seq(StateRecord) /\ cex'[1].latches = m.pre
  BY <1>1, <1>3 DEF s
<1>7. ckt' = ckt
  BY DEF check_BMC0
<1> QED
  BY <1>1, <1>2, <1>4, <1>5, <1>6, <1>7, WitnessOfRun

LEMMA WitnessBMC1 == Typed /\ check_BMC1 /\ cex' # cex => WitnessReal'
<1> SUFFICES ASSUME Typed, check_BMC1, cex' # cex PROVE IsWitness(ckt', cex')
  BY WitnessRealIs
<1>1. PICK m \in Model : /\ ckt.init \subseteq m.pre
                         /\ Trans(ckt, m.pre, m.inputs, m.primed)
                         /\ <<Succ(m), m.primed>> \in ckt.bad
                         /\ cex' = << NewState(m.pre, m.inputs, 0), NewState(Succ(m), m.primed, 0) >>
  BY DEF check_BMC1
<1> DEFINE s == NewState(m.pre, m.inputs, 0)
<1> DEFINE t == NewState(Succ(m), m.primed, 0)
<1>2. /\ m.pre \in State /\ m.pre \in Cube /\ m.inputs \in Input /\ m.primed \in Input
      /\ Succ(m) \in State /\ Succ(m) \in Cube
      /\ Succ(m) = ckt.next[<<m.pre, m.inputs>>]
  BY StateAssumption, SuccType, CircuitType DEF Model, Succ
<1>3. /\ s \in StateRecord /\ s.latches = m.pre /\ s.inputs = m.inputs
      /\ t \in StateRecord /\ t.inputs = m.primed
  BY <1>2, NewStateType DEF NewState
<1>a. <<m.pre, m.inputs>> \in ckt.cons /\ <<Succ(m), m.primed>> \in ckt.bad \cap ckt.cons
  BY <1>1, <1>2 DEF Trans
<1> HIDE DEF s, t
<1> DEFINE u == <<t>> \o << >>
<1>b. << >> \in Seq(StateRecord)
  OBVIOUS
<1>4. u = <<t>> /\ u \in Seq(StateRecord)
  BY <1>3
<1>5. Reaches(Succ(m), u)
  BY <1>2, <1>3, <1>a, <1>b, ReachesNow
<1> HIDE DEF u
<1>6. Reaches(m.pre, <<s>> \o u)
  BY <1>2, <1>3, <1>4, <1>5, <1>a, ReachesStep
<1>7. cex' = <<s>> \o u
  BY <1>1, <1>3, <1>4 DEF s, t
<1>8. cex' \in Seq(StateRecord) /\ cex'[1].latches = m.pre
  BY <1>3, <1>4, <1>7, SingletonCons
<1>9. ckt' = ckt
  BY DEF check_BMC1
<1> QED
  BY <1>1, <1>2, <1>6, <1>7, <1>8, <1>9, WitnessOfRun

LEMMA WitnessCounterexample ==
  \A o \in queue : Sound /\ HeapLeads /\ Counterexample(o) => WitnessReal'
<1> SUFFICES ASSUME NEW o \in queue, Sound, HeapLeads, Counterexample(o) PROVE IsWitness(ckt', cex')
  BY WitnessRealIs
<1>1. PICK m \in Into(0, Latches(o), Latches(o)) :
        cex' = <<NewState(m.pre, m.inputs, o.state)>> \o Chain(heap)[o.state]
  BY DEF Counterexample
<1>2. m \in Steps(0) /\ Latches(o) \subseteq Succ(m)
  BY DEF Into
<1>3. /\ m.pre \in State /\ m.inputs \in Input /\ ckt.init \subseteq m.pre /\ m.pre \in Cube
      /\ <<m.pre, m.inputs>> \in ckt.cons /\ Succ(m) = ckt.next[<<m.pre, m.inputs>>]
      /\ Succ(m) \in State
  BY <1>2, StepParts, StepFromF0, StateAssumption, CircuitType DEF Sound
<1>4. o.state \in 2 .. Len(heap) /\ o.state \in 0 .. Len(heap) /\ o.state \in Nat
  BY ObligationType, LenProperties DEF Sound, Typed, TypeOK
<1>5. Linked(heap) /\ Typed /\ BadIsAdmissible(ckt)
  BY DEF Linked, Sound, Typed, TypeOK
<1> DEFINE s == NewState(m.pre, m.inputs, o.state)
<1> DEFINE u == Chain(heap)[o.state]
<1>6. s \in StateRecord /\ s.latches = m.pre /\ s.inputs = m.inputs
  BY <1>3, <1>4, NewStateType DEF NewState
<1>7. u \in Seq(StateRecord)
  BY <1>4, <1>5, ChainType
<1>8. Reaches(Succ(m), u)
  BY <1>2, <1>3, <1>4, <1>5, ChainReaches DEF HeapLeads, Latches
<1> HIDE DEF s, u
<1>9. Reaches(m.pre, <<s>> \o u)
  BY <1>3, <1>6, <1>7, <1>8, ReachesStep
<1>10. cex' = <<s>> \o u
  BY <1>1 DEF s, u
<1>11. cex' \in Seq(StateRecord) /\ cex'[1].latches = m.pre
  BY <1>6, <1>7, <1>10, SingletonCons
<1>12. ckt' = ckt
  BY DEF Counterexample
<1> QED
  BY <1>3, <1>9, <1>10, <1>11, <1>12, WitnessOfRun

-----------------------------------------------------------------------------
(* The heap: what a lifted state promises, and that it keeps its promise.  *)
LEMMA LeadsGetPre == Sound /\ get_pre_of_bad => HeapLeads'
<1> SUFFICES ASSUME Sound, get_pre_of_bad PROVE HeapLeads'
  OBVIOUS
<1>a. PICK m \in BadPreds : \E p \in LiftedBad(m) :
        heap' = << NewState(Succ(m), m.primed, 0), NewState(p, m.inputs, 1) >>
  BY DEF get_pre_of_bad
<1>1. PICK p \in LiftedBad(m) :
        heap' = << NewState(Succ(m), m.primed, 0), NewState(p, m.inputs, 1) >>
  BY <1>a
<1>2. /\ Len(heap') = 2 /\ heap'[2].latches = p /\ heap'[2].inputs = m.inputs /\ heap'[2].next = 1
      /\ heap'[1].inputs = m.primed /\ ckt' = ckt
  BY <1>1 DEF NewState, get_pre_of_bad
<1>3. \A z \in State : p \subseteq z => LiftsToBad(z, m.inputs, m.primed)
  BY DEF LiftedBad
<1>4. Leads(ckt', heap', 2)
  BY <1>2, <1>3 DEF Leads, LiftsToBad
<1>5. \A n \in 2 .. Len(heap') : n = 2
  BY <1>2
<1> QED
  BY <1>4, <1>5 DEF HeapLeads

LEMMA LeadsPredecessor == \A o \in queue : Sound /\ HeapLeads /\ Predecessor(o) => HeapLeads'
<1> SUFFICES ASSUME NEW o \in queue, Sound, HeapLeads, Predecessor(o) PROVE HeapLeads'
  OBVIOUS
<1>1. o.state \in 2 .. Len(heap) /\ o.state \in 1 .. Len(heap) /\ Len(heap) \in Nat
  BY ObligationType, LenProperties DEF Sound, Typed, TypeOK
<1>a. PICK m \in Into(o.frame_k, Latches(o), Latches(o)) : \E p \in Lifted(m, Latches(o)) :
        heap' = Append(heap, NewState(p, m.inputs, o.state))
  BY DEF Predecessor
<1>2. PICK p \in Lifted(m, Latches(o)) : heap' = Append(heap, NewState(p, m.inputs, o.state))
  BY <1>a
<1> DEFINE s == NewState(p, m.inputs, o.state)
<1>3. s \in StateRecord /\ s.latches = p /\ s.inputs = m.inputs /\ s.next = o.state
  <2>1. m \in Model
    BY QueryType
  <2>2. p \in Cube /\ m.inputs \in Input /\ o.state \in Nat
    BY <1>1, <2>1, LiftedType DEF Model
  <2> QED
    BY <2>2, NewStateType DEF NewState
<1> HIDE DEF s
<1>4. /\ Len(heap') = Len(heap) + 1 /\ heap'[Len(heap) + 1] = s
      /\ \A j \in 1 .. Len(heap) : heap'[j] = heap[j]
  BY <1>2, <1>3, AppendProperties DEF s, Sound, Typed, TypeOK
<1>5. ckt' = ckt
  BY DEF Predecessor
<1>6. \A z \in State : p \subseteq z => LiftsTo(z, m.inputs, m.primed, heap[o.state].latches)
  BY DEF Lifted, Latches
<1> SUFFICES ASSUME NEW n \in 2 .. Len(heap') PROVE Leads(ckt', heap', n)
  BY DEF HeapLeads
<1>7. CASE n = Len(heap) + 1
  <2>1. /\ heap'[n].latches = p /\ heap'[n].inputs = m.inputs /\ heap'[n].next = o.state
        /\ heap'[o.state].latches = heap[o.state].latches
    BY <1>1, <1>3, <1>4, <1>7
  <2>2. o.state >= 1 /\ o.state # 1
    BY <1>1
  <2> QED
    BY <1>5, <1>6, <2>1, <2>2 DEF Leads, LiftsTo
<1>8. CASE n # Len(heap) + 1
  <2>1. n \in 2 .. Len(heap) /\ n \in 1 .. Len(heap) /\ 1 \in 1 .. Len(heap)
    BY <1>1, <1>4, <1>8
  <2>2. Leads(ckt, heap, n)
    BY <2>1 DEF HeapLeads
  <2>3. heap[n].next \in 1 .. Len(heap)
    <3>1. Linked(heap)
      BY DEF Linked, Sound, Typed, TypeOK
    <3>2. heap[n].next \in 0 .. n - 1
      BY <2>1, <3>1, LinkedType DEF LinkedStates
    <3> QED
      BY <1>1, <2>1, <2>2, <3>2 DEF Leads
  <2>4. heap'[n] = heap[n] /\ heap'[1] = heap[1] /\ heap'[heap[n].next] = heap[heap[n].next]
    BY <1>4, <2>1, <2>3
  <2> QED
    BY <1>5, <2>2, <2>4 DEF Leads
<1> QED
  BY <1>7, <1>8

LEMMA LeadsSameStates ==
  ASSUME Typed, HeapLeads, SameStates(heap', heap), ckt' = ckt
  PROVE  HeapLeads'
<1>1. Len(heap') = Len(heap) /\ Len(heap) \in Nat
  BY LenProperties DEF SameStates, Typed, TypeOK
<1> SUFFICES ASSUME NEW n \in 2 .. Len(heap) PROVE Leads(ckt', heap', n)
  BY <1>1 DEF HeapLeads
<1>2. Leads(ckt, heap, n) /\ n \in 1 .. Len(heap) /\ 1 \in 1 .. Len(heap)
  BY <1>1 DEF HeapLeads
<1>3. heap[n].next \in 1 .. Len(heap)
  <2>1. Linked(heap)
    BY DEF Linked, Typed, TypeOK
  <2>2. heap[n].next \in 0 .. n - 1
    BY <1>2, <2>1, LinkedType DEF LinkedStates
  <2> QED
    BY <1>1, <1>2, <2>2 DEF Leads
<1>4. /\ heap'[n].latches = heap[n].latches /\ heap'[n].inputs = heap[n].inputs
      /\ heap'[n].next = heap[n].next /\ heap'[1].inputs = heap[1].inputs
      /\ heap'[heap[n].next].latches = heap[heap[n].next].latches
  BY <1>2, <1>3 DEF SameStates
<1> QED
  BY <1>2, <1>4 DEF Leads

LEMMA WitnessNext == Sound /\ HeapLeads /\ WitnessReal /\ [Next]_vars => HeapLeads' /\ WitnessReal'
<1> SUFFICES ASSUME Sound, HeapLeads, WitnessReal, [Next]_vars PROVE HeapLeads' /\ WitnessReal'
  OBVIOUS
<1>1. /\ ckt' = ckt
      /\ heap' = heap \/ get_pre_of_bad \/ Generalized \/ NoFixpoint
           \/ \E o \in queue : GiveUp(o) \/ Predecessor(o)
      /\ cex' = cex \/ check_BMC0 \/ check_BMC1 \/ \E o \in queue : Counterexample(o)
  BY DEF Next, Engine, vars, blockVars, check_BMC0, check_BMC1, Interrupted, get_pre_of_bad, NoPreOfBad,
     AllBlocked, Blocked, GiveUp, Predecessor, Counterexample, mic, CTG_down, CtgAdded,
     Generalized, PropagateCube, FixpointFound, NextFrame, NoFixpoint, ProvedSafe, FoundBug,
     OtherEngine, Finished
<1>2. HeapLeads'
  <2>1. CASE heap' = heap
    BY <1>1, <2>1 DEF HeapLeads, Leads
  <2>2. CASE NoFixpoint
    <3>1. heap' = << >> /\ 2 .. Len(heap') = {}
      BY <2>2 DEF NoFixpoint
    <3> QED
      BY <3>1 DEF HeapLeads
  <2>3. CASE Generalized \/ \E o \in queue : GiveUp(o)
    BY <1>1, <2>3, GeneralizedHeap, GiveUpHeap, LeadsSameStates DEF Sound
  <2> QED
    BY <1>1, <2>1, <2>2, <2>3, LeadsGetPre, LeadsPredecessor
<1>3. WitnessReal'
  <2>1. CASE cex' = cex
    BY <1>1, <2>1, WitnessRealIs
  <2>2. CASE cex' # cex
    BY <1>1, <2>2, WitnessBMC0, WitnessBMC1, WitnessCounterexample DEF Sound
  <2> QED
    BY <2>1, <2>2
<1> QED
  BY <1>2, <1>3

(* Every witness show_witness prints is a run of the circuit: from its     *)
(* first latches, which are initial, its inputs meet the constraints and   *)
(* reach bad, whatever was lifted away from the states in between and      *)
(* however long the chain of obligations is.                               *)
THEOREM WitnessIsReal == ASSUME Admissible PROVE Spec => []WitnessReal
<1>1. Spec => []Sound
  BY AlwaysSound
<1>2. Init => HeapLeads /\ WitnessReal
  <2>1. Init => 2 .. Len(heap) = {} /\ cex = << >>
    BY EmptySeq DEF Init
  <2> QED
    BY <2>1 DEF HeapLeads, WitnessReal
<1>3. Sound /\ HeapLeads /\ WitnessReal /\ [Next]_vars => (HeapLeads /\ WitnessReal)'
  BY WitnessNext
<1> QED
  BY <1>1, <1>2, <1>3, PTL DEF Spec
=============================================================================
