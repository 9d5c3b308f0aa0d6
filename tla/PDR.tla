-------------------------------- MODULE PDR --------------------------------
(***************************************************************************)
(* One PDR engine (PDR.cpp): the frames and their solvers, the queue of    *)
(* proof obligations, generalization with counterexamples to               *)
(* generalization, propagation, and the verdict it publishes in RESULT.    *)
(*                                                                         *)
(* SAT queries are sets: a satisfiable query returns any of its models, an *)
(* unsatisfiable one any subset of its assumptions that is a core.  The    *)
(* order in which literals are assumed or dropped (the heuristic counts,   *)
(* or random_shuffle) only selects among these.                            *)
(***************************************************************************)
EXTENDS Circuit, Sequences

CONSTANTS
  UsePr,       \* option -pr: re-enqueue only obligations that hold a lemma
  Parallel,    \* other engines may publish a verdict meanwhile
  CtgTries,    \* option_ctg_tries (3)
  MaxJoins,    \* option_max_joins (2^20)
  PunishSizes, \* cube sizes above which a successor is punished (<<10, 20, 30>>)
  PunishLimit, \* punishment at which an obligation is given up (5)
  EsfDepth,    \* depth above which propagate starts late (20)
  EsfPeriod    \* at this period it starts at frame 1 all the same (5)

ASSUME OptionsAssumption ==
  /\ UsePr \in BOOLEAN /\ Parallel \in BOOLEAN
  /\ CtgTries \in Nat /\ MaxJoins \in Nat
  /\ PunishSizes \in [1..3 -> Nat] /\ PunishLimit \in Nat \ {0}
  /\ EsfDepth \in Nat /\ EsfPeriod \in Nat \ {0}

SAFE   == 20
UNSAFE == 10

VARIABLES
  ckt,      \* the circuit (the base class Aiger)
  pc,       \* where the thread is in check()
  size,     \* frames.size()
  cubes,    \* frames[k].cubes
  solver,   \* the cubes whose negations were added to frames[k].solver
  heap,     \* the State objects of this call of rec_block_cube
  queue,    \* obligation_queue
  obl,      \* the obligation rec_block_cube works on
  core,     \* PDR::core
  stack,    \* activations of mic, each with the CTG_down it is in
  prop,     \* propagate: the frame and the cubes it has not visited yet
  top,      \* top_frame_cannot_reach_bad
  esf,      \* earliest_strengthened_frame
  cex,      \* cex_states
  cert,     \* the cubes of the certificate
  RESULT    \* the shared verdict

frameVars == <<size, cubes, solver, esf>>
blockVars == <<heap, queue, obl>>
vars == <<ckt, pc, frameVars, blockVars, core, stack, prop, top, cex, cert, RESULT>>

depth == size - 2

(***************************************************************************)
(* Queries.                                                                *)
(***************************************************************************)

F(k) ==   \* the assignments frames[k].solver admits
  {x \in State : (k = 0 => ckt.init \subseteq x) /\ \A c \in solver[k] : ~(c \subseteq x)}

Model == [pre : State, inputs : Input, primed : Input]   \* latches, inputs, inputs'

Succ(m) == ckt.next[<<m.pre, m.inputs>>]

Steps(k) ==  \* models of frames[k].solver
  {m \in Model : m.pre \in F(k) /\ Trans(ckt, m.pre, m.inputs, m.primed)}

Into(k, c, d) ==  \* models of frames[k].solver /\ -c /\ d'
  {m \in Steps(k) : ~(c \subseteq m.pre) /\ d \subseteq Succ(m)}

is_init(c) == \E x \in Initial(ckt) : c \subseteq x

is_inductive(k, c) == Into(k, c, c) = {}

(* Mutant: the core is kept even when it holds an initial state. *)
CoresWithInit(k, c) == {d \in SUBSET c : Into(k, c, d) = {}}

Cores(k, c) ==  \* what is_inductive(.., gen_core = true) may leave in core
  {IF is_init(d) THEN c ELSE d : d \in {d \in SUBSET c : Into(k, c, d) = {}}}

BadPreds ==  \* models of frames[depth].solver /\ bad'
  {m \in Steps(depth) : <<Succ(m), m.primed>> \in ckt.bad}

(***************************************************************************)
(* extract_state_from_sat: the assumptions are the inputs now and next and *)
(* the latches of the model m; the lift solver holds the transition        *)
(* relation and -bad, and is asked for                                     *)
(*    -constraints \/ -constraints' \/ -succ'   (-bad' for a first CTI).   *)
(***************************************************************************)
(* Mutant: the clause leaves out -constraints. *)
LiftsToUnconstrained(z, i, j, succ) ==
  \/ <<z, i>> \in ckt.bad
  \/ /\ <<ckt.next[<<z, i>>], j>> \in ckt.cons
     /\ succ \subseteq ckt.next[<<z, i>>]

LiftsTo(z, i, j, succ) ==
  \/ <<z, i>> \in ckt.bad
  \/ /\ <<z, i>> \in ckt.cons
     /\ <<ckt.next[<<z, i>>], j>> \in ckt.cons
     /\ succ \subseteq ckt.next[<<z, i>>]

LiftsToBad(z, i, j) ==
  \/ <<z, i>> \in ckt.bad
  \/ /\ <<z, i>> \in ckt.cons
     /\ <<ckt.next[<<z, i>>], j>> \in ckt.cons \cap ckt.bad

Lifted(m, succ) ==
  {p \in SUBSET m.pre : \A z \in State : p \subseteq z => LiftsTo(z, m.inputs, m.primed, succ)}

LiftedBad(m) ==
  {p \in SUBSET m.pre : \A z \in State : p \subseteq z => LiftsToBad(z, m.inputs, m.primed)}

NewState(latches, inputs, next) ==
  [latches |-> latches, inputs |-> inputs, next |-> next, failed |-> 0, failed_depth |-> 0]

(***************************************************************************)
(* Frames.                                                                 *)
(***************************************************************************)
new_frame(f, n) == [k \in 0 .. n |-> IF k < n THEN f[k] ELSE {}]

CubesWith(c, k) == [cubes EXCEPT ![k] = @ \cup {c}]

(* Mutant: the clause reaches the solver of its own frame only. *)
SolverWithOne(c, k, to_all) ==
  IF c \in cubes[k] THEN solver ELSE [solver EXCEPT ![k] = @ \cup {c}]

SolverWith(c, k, to_all) ==
  IF c \in cubes[k] THEN solver
  ELSE [i \in DOMAIN solver |->
          IF i = k \/ (to_all /\ i \in 1 .. k - 1) THEN solver[i] \cup {c} ELSE solver[i]]

add_cube(c, k) ==   \* add_cube(cube, k, true, false)
  /\ cubes' = CubesWith(c, k)
  /\ solver' = SolverWith(c, k, TRUE)
  /\ esf' = IF k < esf THEN k ELSE esf
  /\ UNCHANGED size

(* The loops "for(i = k; i <= depth(); ++i) if(!is_inductive(i)) break" end at n. *)
PushesTo(c, k, n) ==
  /\ n = depth + 1 \/ ~is_inductive(n, c)
  /\ \A i \in k .. n - 1 : is_inductive(i, c)

-----------------------------------------------------------------------------
(***************************************************************************)
(* check(): the two bounded checks that precede the frames.                *)
(***************************************************************************)
check_BMC0 ==
  LET models == {m \in Model : ckt.init \subseteq m.pre /\ <<m.pre, m.inputs>> \in ckt.cons \cap ckt.bad}
  IN /\ pc = "bmc0"
     /\ \/ \E m \in models :
             /\ cex' = <<NewState(m.pre, m.inputs, 0)>>
             /\ pc' = "found"
             /\ UNCHANGED frameVars
        \/ /\ models = {}
           /\ size' = 1
           /\ cubes' = [k \in 0 .. 0 |-> {}] /\ solver' = [k \in 0 .. 0 |-> {}]
           /\ pc' = "bmc1"
           /\ UNCHANGED <<cex, esf>>
     /\ UNCHANGED <<ckt, blockVars, core, stack, prop, top, cert, RESULT>>

check_BMC1 ==
  LET models == {m \in Model : /\ ckt.init \subseteq m.pre
                               /\ Trans(ckt, m.pre, m.inputs, m.primed)
                               /\ <<Succ(m), m.primed>> \in ckt.bad}
  IN /\ pc = "bmc1"
     /\ \/ \E m \in models :
             /\ cex' = << NewState(m.pre, m.inputs, 0), NewState(Succ(m), m.primed, 0) >>
             /\ pc' = "found"
             /\ UNCHANGED <<frameVars, top>>
        \/ /\ models = {}   \* F1 and, at the head of the main loop, F2
           /\ size' = 3
           /\ cubes' = new_frame(new_frame(cubes, 1), 2)
           /\ solver' = new_frame(new_frame(solver, 1), 2)
           /\ esf' = 1 /\ top' = TRUE
           /\ pc' = "loop"
           /\ UNCHANGED cex
     /\ UNCHANGED <<ckt, blockVars, core, stack, prop, cert, RESULT>>

(***************************************************************************)
(* The head of the main loop, and get_pre_of_bad.                          *)
(***************************************************************************)
Interrupted ==
  /\ pc = "loop" /\ RESULT # 0
  /\ pc' = "done"
  /\ UNCHANGED <<ckt, frameVars, blockVars, core, stack, prop, top, cex, cert, RESULT>>

get_pre_of_bad ==
  /\ pc = "loop" /\ RESULT = 0
  /\ \E m \in BadPreds : \E p \in LiftedBad(m) :
       heap' = << NewState(Succ(m), m.primed, 0), NewState(p, m.inputs, 1) >>
  /\ queue' = {[state |-> 2, frame_k |-> depth - 1, depth |-> 1]}
  /\ top' = FALSE
  /\ pc' = "block"
  /\ UNCHANGED <<ckt, frameVars, obl, core, stack, prop, cex, cert, RESULT>>

StartFrame ==
  IF top THEN depth
  ELSE IF depth % EsfPeriod # 0 /\ depth > EsfDepth THEN esf ELSE 1

(* Mutant: the frames are propagated although a predecessor of bad is left. *)
NoPreOfBadUnchecked ==
  /\ pc = "loop" /\ RESULT = 0
  /\ prop' = [frame |-> StartFrame, todo |-> cubes[StartFrame]]
  /\ pc' = "propagate"
  /\ UNCHANGED <<ckt, frameVars, blockVars, core, stack, top, cex, cert, RESULT>>

(* Mutant: the head of the loop does not look at RESULT. *)
NoPreOfBadUninterrupted ==
  /\ pc = "loop" /\ BadPreds = {}
  /\ prop' = [frame |-> StartFrame, todo |-> cubes[StartFrame]]
  /\ pc' = "propagate"
  /\ UNCHANGED <<ckt, frameVars, blockVars, core, stack, top, cex, cert, RESULT>>

NoPreOfBad ==
  /\ pc = "loop" /\ RESULT = 0 /\ BadPreds = {}
  /\ prop' = [frame |-> StartFrame, todo |-> cubes[StartFrame]]
  /\ pc' = "propagate"
  /\ UNCHANGED <<ckt, frameVars, blockVars, core, stack, top, cex, cert, RESULT>>

-----------------------------------------------------------------------------
NewMic(c, k) ==   \* a call of mic(c, k, ..)
  [cube |-> c, k |-> k, todo |-> c, required |-> {}, mic_failed |-> 0,
   cand |-> {}, lit |-> 0, ctg_ct |-> 0, join_ct |-> 0]

(***************************************************************************)
(* rec_block_cube: one iteration of its loop per action, the query on the  *)
(* least obligation first (Obligation::operator<).                         *)
(***************************************************************************)
Before(a, b) ==
  \/ a.frame_k < b.frame_k
  \/ a.frame_k = b.frame_k /\ a.depth < b.depth
  \/ a.frame_k = b.frame_k /\ a.depth = b.depth /\ a.state <= b.state

Least(o) == o \in queue /\ \A b \in queue : Before(o, b)

Latches(o) == heap[o.state].latches

AllBlocked ==
  /\ pc = "block" /\ (queue = {} \/ RESULT # 0)
  /\ pc' = "loop"
  /\ UNCHANGED <<ckt, frameVars, blockVars, core, stack, prop, top, cex, cert, RESULT>>

(* Mutant: the obligation is not erased. *)
BlockedNotErased(o) ==
  /\ pc = "block" /\ RESULT = 0 /\ Least(o)
  /\ is_inductive(o.frame_k, Latches(o))
  /\ core' \in Cores(o.frame_k, Latches(o))
  /\ queue' = queue
  /\ obl' = o
  /\ stack' = <<NewMic(core', o.frame_k)>>
  /\ pc' = "mic"
  /\ UNCHANGED <<ckt, frameVars, heap, prop, top, cex, cert, RESULT>>

Blocked(o) ==   \* the obligation is inductive: generalize its core
  /\ pc = "block" /\ RESULT = 0 /\ Least(o)
  /\ is_inductive(o.frame_k, Latches(o))
  /\ core' \in Cores(o.frame_k, Latches(o))
  /\ queue' = queue \ {o}
  /\ obl' = o
  /\ stack' = <<NewMic(core', o.frame_k)>>
  /\ pc' = "mic"
  /\ UNCHANGED <<ckt, frameVars, heap, prop, top, cex, cert, RESULT>>

(* use_punishment: an obligation past the depth of this round whose         *)
(* successors proved hard is dropped, and so is the chain it belongs to.    *)
Reach(o) == o.depth + o.frame_k

(* Mutant: a punished obligation is given up within this round's depth too. *)
GivenUpEarly(o) ==
  \/ heap[o.state].failed_depth # 0 /\ heap[o.state].failed_depth <= Reach(o)
  \/ heap[o.state].failed >= PunishLimit

GivenUp(o) ==
  \/ heap[o.state].failed_depth # 0 /\ heap[o.state].failed_depth <= Reach(o)
  \/ heap[o.state].failed >= PunishLimit /\ Reach(o) > depth

GiveUp(o) ==
  LET s  == heap[o.state]
      fd == IF s.failed_depth # 0 /\ s.failed_depth <= Reach(o) THEN s.failed_depth ELSE Reach(o)
      h  == [heap EXCEPT ![o.state].failed_depth = fd]
  IN /\ pc = "block" /\ RESULT = 0 /\ Least(o)
     /\ ~is_inductive(o.frame_k, s.latches)
     /\ GivenUp(o)
     /\ queue' = queue \ {o}
     /\ heap' = IF s.next = 0 THEN h ELSE [h EXCEPT ![s.next].failed_depth = fd]
     /\ UNCHANGED <<ckt, pc, frameVars, obl, core, stack, prop, top, cex, cert, RESULT>>

(* Mutant: the predecessor is queued at the frame of its successor. *)
PredecessorSameFrame(o) ==
  /\ pc = "block" /\ RESULT = 0 /\ Least(o)
  /\ o.frame_k > 0 /\ ~GivenUp(o)
  /\ \E m \in Into(o.frame_k, Latches(o), Latches(o)) : \E p \in Lifted(m, Latches(o)) :
       heap' = Append(heap, NewState(p, m.inputs, o.state))
  /\ queue' = queue \cup {[state |-> Len(heap'), frame_k |-> o.frame_k, depth |-> o.depth + 1]}
  /\ UNCHANGED <<ckt, pc, frameVars, obl, core, stack, prop, top, cex, cert, RESULT>>

Predecessor(o) ==
  /\ pc = "block" /\ RESULT = 0 /\ Least(o)
  /\ o.frame_k > 0 /\ ~GivenUp(o)
  /\ \E m \in Into(o.frame_k, Latches(o), Latches(o)) : \E p \in Lifted(m, Latches(o)) :
       heap' = Append(heap, NewState(p, m.inputs, o.state))
  /\ queue' = queue \cup {[state |-> Len(heap'), frame_k |-> o.frame_k - 1, depth |-> o.depth + 1]}
  /\ UNCHANGED <<ckt, pc, frameVars, obl, core, stack, prop, top, cex, cert, RESULT>>

(* log_witness: the states from s along next. *)
Chain(h) ==
  LET chain[n \in 0 .. Len(h)] == IF n = 0 THEN << >> ELSE <<h[n]>> \o chain[h[n].next]
  IN chain

Counterexample(o) ==
  /\ pc = "block" /\ RESULT = 0 /\ Least(o)
  /\ o.frame_k = 0 /\ ~GivenUp(o)
  /\ \E m \in Into(0, Latches(o), Latches(o)) :
       cex' = <<NewState(m.pre, m.inputs, o.state)>> \o Chain(heap)[o.state]
  /\ pc' = "found"
  /\ UNCHANGED <<ckt, frameVars, blockVars, core, stack, prop, top, cert, RESULT>>

(***************************************************************************)
(* mic and CTG_down.  The activation of mic that rec_block_cube makes      *)
(* works on a copy of the core; the one CTG_down makes is handed           *)
(* "Cube &ctg = core", so its cube is the member core itself, which every  *)
(* successful is_inductive(.., true) overwrites.                           *)
(***************************************************************************)
option_ctg_max_depth == 1

rec_depth == Len(stack)
act == stack[rec_depth]
MicCube == IF rec_depth = 1 THEN act.cube ELSE core

SetAct(a) == [stack EXCEPT ![rec_depth] = a]

mic ==   \* the next literal of tmp_cube
  /\ pc = "mic"
  /\ \E l \in act.todo :
       LET a == [act EXCEPT !.todo = @ \ {l}]
       IN IF l \notin MicCube
          THEN /\ stack' = SetAct([a EXCEPT !.mic_failed = 0])
               /\ UNCHANGED pc
          ELSE /\ stack' = SetAct([a EXCEPT !.lit = l, !.cand = MicCube \ {l},
                                            !.ctg_ct = 0, !.join_ct = 0])
               /\ pc' = "down"
  /\ UNCHANGED <<ckt, frameVars, blockVars, core, prop, top, cex, cert, RESULT>>

(* CTG_down returned false: the literal is required, or mic gives up. *)
DownFails ==
  LET n == act.mic_failed + 1
  IN /\ stack' = SetAct(IF n > CtgTries
                        THEN [act EXCEPT !.mic_failed = n, !.todo = {}]
                        ELSE [act EXCEPT !.mic_failed = n, !.required = @ \cup {act.lit}])
     /\ pc' = "mic"
     /\ UNCHANGED <<frameVars, core>>

DownSucceeds ==
  /\ core' \in Cores(act.k, act.cand)
  /\ stack' = SetAct([act EXCEPT !.cube = core', !.cand = core', !.mic_failed = 0])
  /\ pc' = "mic"
  /\ UNCHANGED frameVars

(* Mutant: the ctg is generalized at the level where it stopped being inductive. *)
BlockCtgAbove(p) ==
  /\ core' \in Cores(act.k - 1, p)
  /\ \E i \in act.k .. depth + 1 :
       /\ PushesTo(core', act.k, i)
       /\ stack' = Append(SetAct([act EXCEPT !.ctg_ct = @ + 1]), NewMic(core', i))
  /\ pc' = "mic"
  /\ UNCHANGED frameVars

(* The ctg p is inductive relative to the frame below: generalize it too. *)
BlockCtg(p) ==
  /\ core' \in Cores(act.k - 1, p)
  /\ \E i \in act.k .. depth + 1 :
       /\ PushesTo(core', act.k, i)
       /\ stack' = Append(SetAct([act EXCEPT !.ctg_ct = @ + 1]), NewMic(core', i - 1))
  /\ pc' = "mic"
  /\ UNCHANGED frameVars

Join(p) ==
  /\ stack' = SetAct([act EXCEPT !.cand = @ \cap p, !.ctg_ct = 0, !.join_ct = @ + 1])
  /\ UNCHANGED <<pc, frameVars, core>>

CtgBlockable(p) ==
  /\ act.ctg_ct < CtgTries /\ act.k > 1
  /\ ~is_init(p) /\ is_inductive(act.k - 1, p)

JoinBreaks(p) == act.join_ct >= MaxJoins \/ (act.cand \ p) \cap act.required # {}

CTG_down ==
  /\ pc = "down"
  /\ \/ is_init(act.cand) /\ DownFails
     \/ ~is_init(act.cand) /\ is_inductive(act.k, act.cand) /\ DownSucceeds
     \/ /\ ~is_init(act.cand)
        /\ ~is_inductive(act.k, act.cand) /\ rec_depth > option_ctg_max_depth
        /\ DownFails
     \/ /\ ~is_init(act.cand)
        /\ rec_depth <= option_ctg_max_depth
        /\ \E m \in Into(act.k, act.cand, act.cand) : \E p \in Lifted(m, act.cand) :
             \/ CtgBlockable(p) /\ BlockCtg(p)
             \/ ~CtgBlockable(p) /\ JoinBreaks(p) /\ DownFails
             \/ ~CtgBlockable(p) /\ ~JoinBreaks(p) /\ Join(p)
  /\ UNCHANGED <<ckt, blockVars, prop, top, cex, cert, RESULT>>

MicDone == pc = "mic" /\ act.todo = {}

CtgAdded ==   \* the inner mic returns: add_cube(ctg, i), and CTG_down goes on
  /\ MicDone /\ rec_depth > 1
  /\ add_cube(core, act.k + 1)
  /\ stack' = SubSeq(stack, 1, rec_depth - 1)
  /\ pc' = "down"
  /\ UNCHANGED <<ckt, blockVars, core, prop, top, cex, cert, RESULT>>

(***************************************************************************)
(* The rest of rec_block_cube's iteration once generalize has returned:    *)
(* punish the successor of a large cube, push the cube, add it, and        *)
(* re-enqueue the obligation at the level reached.                         *)
(***************************************************************************)
Punishment(n) ==
  IF n > PunishSizes[3] THEN 5 ELSE IF n > PunishSizes[2] THEN 3
  ELSE IF n > PunishSizes[1] THEN 1 ELSE 0

Saturate(n) == IF n > PunishLimit THEN PunishLimit ELSE n  \* only >= PunishLimit is ever asked

Vars(c) == {l \in Lit : l \in c \/ -l \in c}

HoldsLemma(la, k) ==   \* includes(.., abs_compare): the signs are not compared
  \E lemma \in cubes[k] : Cardinality(lemma) <= Cardinality(la) /\ Vars(lemma) \subseteq Vars(la)

(* Mutant: the obligation is requeued at the frame Foo too. *)
RequeuedAtFoo(la, k) == k <= depth + 1 /\ (~UsePr \/ HoldsLemma(la, k))

Requeued(la, k) == k <= depth /\ (~UsePr \/ HoldsLemma(la, k))

Generalized ==
  LET c == act.cube
      s == heap[obl.state]
  IN /\ MicDone /\ rec_depth = 1
     /\ heap' = IF s.next = 0 THEN heap
                ELSE [heap EXCEPT ![s.next].failed = Saturate(@ + Punishment(Cardinality(c)))]
     /\ \E k \in obl.frame_k + 1 .. depth + 1 :
          /\ PushesTo(c, obl.frame_k + 1, k)
          /\ queue' = IF Requeued(s.latches, k)
                      THEN queue \cup {[state |-> obl.state, frame_k |-> k, depth |-> obl.depth]}
                      ELSE queue
          /\ add_cube(c, k)
     /\ stack' = << >>
     /\ pc' = "block"
     /\ UNCHANGED <<ckt, obl, core, prop, top, cex, cert, RESULT>>

-----------------------------------------------------------------------------
(***************************************************************************)
(* propagate: the cubes of a frame in the order of Cube_CMP, smaller first.*)
(***************************************************************************)
PropagateCube ==
  /\ pc = "propagate"
  /\ \E c \in prop.todo :
       /\ \A d \in prop.todo : Cardinality(c) <= Cardinality(d)
       /\ prop' = [prop EXCEPT !.todo = @ \ {c}]
       /\ \/ /\ is_inductive(prop.frame, c)
             /\ core' \in Cores(prop.frame, c)
             /\ cubes' = [CubesWith(core', prop.frame + 1) EXCEPT ![prop.frame] = @ \ {c}]
             /\ solver' = SolverWith(core', prop.frame + 1, Cardinality(core') < Cardinality(c))
          \/ /\ ~is_inductive(prop.frame, c)
             /\ UNCHANGED <<core, cubes, solver>>
  /\ UNCHANGED <<ckt, pc, size, esf, blockVars, stack, top, cex, cert, RESULT>>

FrameDone == pc = "propagate" /\ prop.todo = {}

(* Mutant: the certificate leaves out the frame the cubes were moved to. *)
FixpointFoundBeyond ==
  /\ FrameDone /\ cubes[prop.frame] = {}
  /\ IF RESULT # 0
     THEN UNCHANGED <<cert, RESULT>>
     ELSE /\ RESULT' = SAFE
          /\ cert' = UNION {cubes[d] : d \in prop.frame + 2 .. depth + 1}
  /\ pc' = "safe"
  /\ UNCHANGED <<ckt, frameVars, blockVars, core, stack, prop, top, cex>>

(* The frame is empty: under result_mutex, publish unless a verdict is there. *)
FixpointFound ==
  /\ FrameDone /\ cubes[prop.frame] = {}
  /\ IF RESULT # 0
     THEN UNCHANGED <<cert, RESULT>>
     ELSE /\ RESULT' = SAFE
          /\ cert' = UNION {cubes[d] : d \in prop.frame + 1 .. depth + 1}
  /\ pc' = "safe"
  /\ UNCHANGED <<ckt, frameVars, blockVars, core, stack, prop, top, cex>>

(* Mutant: propagate returns true as soon as another engine has a verdict. *)
NextFrameInterrupted ==
  /\ FrameDone /\ cubes[prop.frame] # {} /\ prop.frame < depth
  /\ prop' = [frame |-> prop.frame + 1, todo |-> cubes[prop.frame + 1]]
  /\ pc' = IF RESULT # 0 THEN "safe" ELSE pc
  /\ UNCHANGED <<ckt, frameVars, blockVars, core, stack, top, cex, cert, RESULT>>

NextFrame ==
  /\ FrameDone /\ cubes[prop.frame] # {} /\ prop.frame < depth
  /\ prop' = [frame |-> prop.frame + 1, todo |-> cubes[prop.frame + 1]]
  /\ UNCHANGED <<ckt, pc, frameVars, blockVars, core, stack, top, cex, cert, RESULT>>

(* propagate returned false: push a frame.  The State objects of earlier   *)
(* calls of rec_block_cube are never released nor used again; forget them. *)
NoFixpoint ==
  /\ FrameDone /\ cubes[prop.frame] # {} /\ prop.frame = depth
  /\ size' = size + 1
  /\ cubes' = new_frame(cubes, size) /\ solver' = new_frame(solver, size)
  /\ esf' = size - 1
  /\ top' = TRUE
  /\ heap' = << >>
  /\ pc' = "loop"
  /\ UNCHANGED <<ckt, queue, obl, core, stack, prop, cex, cert, RESULT>>

(***************************************************************************)
(* Verdicts.  check() assigns RESULT = 20 after propagate, outside the     *)
(* mutex; the counterexample is published under it.                        *)
(***************************************************************************)
ProvedSafe ==
  /\ pc = "safe"
  /\ RESULT' = SAFE
  /\ pc' = "done"
  /\ UNCHANGED <<ckt, frameVars, blockVars, core, stack, prop, top, cex, cert>>

FoundBug ==
  /\ pc = "found"
  /\ RESULT' = IF RESULT = 0 THEN UNSAFE ELSE RESULT
  /\ pc' = "done"
  /\ UNCHANGED <<ckt, frameVars, blockVars, core, stack, prop, top, cex, cert>>

(* Another engine publishes the verdict that is the right one. *)
OtherEngine ==
  /\ Parallel /\ RESULT = 0 /\ pc # "done"
  /\ RESULT' = IF Safe(ckt) THEN SAFE ELSE UNSAFE
  /\ UNCHANGED <<ckt, pc, frameVars, blockVars, core, stack, prop, top, cex, cert>>

Finished == pc = "done" /\ UNCHANGED vars

Init ==
  /\ ckt \in Circuits
  /\ pc = "bmc0"
  /\ size = 0 /\ cubes = [k \in 0 .. -1 |-> {}] /\ solver = [k \in 0 .. -1 |-> {}] /\ esf = 0
  /\ heap = << >> /\ queue = {} /\ obl = [state |-> 0, frame_k |-> 0, depth |-> 0]
  /\ core = {} /\ stack = << >>
  /\ prop = [frame |-> 0, todo |-> {}]
  /\ top = FALSE
  /\ cex = << >> /\ cert = {}
  /\ RESULT = 0

Engine ==
  \/ check_BMC0 \/ check_BMC1
  \/ Interrupted \/ get_pre_of_bad \/ NoPreOfBad
  \/ AllBlocked
  \/ \E o \in queue : Blocked(o) \/ GiveUp(o) \/ Predecessor(o) \/ Counterexample(o)
  \/ mic \/ CTG_down \/ CtgAdded \/ Generalized
  \/ PropagateCube \/ FixpointFound \/ NextFrame \/ NoFixpoint
  \/ ProvedSafe \/ FoundBug

Next == Engine \/ OtherEngine \/ Finished

Spec == Init /\ [][Next]_vars
FairSpec == Spec /\ WF_vars(Engine)

-----------------------------------------------------------------------------
(***************************************************************************)
(* Properties.                                                             *)
(***************************************************************************)
Level == 0 .. size - 1

StateRecord ==
  [latches : Cube, inputs : Input, next : Nat, failed : Nat, failed_depth : Nat]

ObligationRecord == [state : 2 .. Len(heap), frame_k : 0 .. depth, depth : Nat]

Activation ==
  [cube : Cube, k : 0 .. depth, todo : Cube, required : SUBSET (Lit \cup {0}),
   mic_failed : Nat, cand : Cube, lit : Lit \cup {0}, ctg_ct : 0 .. CtgTries, join_ct : 0 .. MaxJoins]

(* The state of an engine: frames F0 .. Foo, a heap of states each of      *)
(* which points to an older one, obligations for frames below Foo, and at  *)
(* most one activation of mic within another.                              *)
TypeOK ==
  /\ ckt \in Circuits
  /\ pc \in {"bmc0", "bmc1", "loop", "block", "mic", "down", "propagate", "safe", "found", "done"}
  /\ size \in Nat
  /\ cubes \in [Level -> SUBSET Cube] /\ solver \in [Level -> SUBSET Cube]
  /\ esf \in Nat
  /\ heap \in Seq(StateRecord) /\ \A n \in DOMAIN heap : heap[n].next < n
  /\ queue \subseteq ObligationRecord
  /\ core \in Cube
  /\ stack \in Seq(Activation) /\ Len(stack) <= 2
  /\ prop \in [frame : Nat, todo : SUBSET Cube]
  /\ top \in BOOLEAN
  /\ cert \subseteq Cube
  /\ RESULT \in {0, SAFE, UNSAFE}

(* PDR.hpp: "R0 = I; Ri -> Ri+1; Ri -> -Bad".  Every frame holds the       *)
(* initial states, holds the frame before it and every step out of it, and *)
(* no step out of a frame below depth() meets bad.                         *)
FramesInvariant ==
  /\ \A k \in Level : Initial(ckt) \subseteq F(k)
  /\ \A j, k \in Level \ {0} : j <= k => F(j) \subseteq F(k)
  /\ \A k \in Level : k + 1 \in Level =>
       \A m \in Steps(k) :
         /\ Succ(m) \in F(k + 1)
         /\ k < depth => <<Succ(m), m.primed>> \notin ckt.bad

(* PDR.hpp: "Ri = Fi + ... + Foo".  The solver of a frame blocks exactly   *)
(* what the cubes of this frame and of the later ones block, although      *)
(* propagate moves and shortens cubes without retracting a clause.         *)
SolverMatchesCubes ==
  \A k \in Level \ {0} :
    F(k) = {x \in State : \A j \in Level : j >= k => \A c \in cubes[j] : ~(c \subseteq x)}

(* A frame below depth() holds none of the states of a queued obligation   *)
(* but such as are bad themselves, so no obligation is an initial state.   *)
ObligationsAvoidFrames ==
  \A o \in queue : \A x \in F(o.frame_k) :
    Latches(o) \subseteq x => \E i \in Input : <<x, i>> \in ckt.bad \cap ckt.cons

(* While mic drops literals and CTG_down adds lemmas underneath, every     *)
(* cube being generalized excludes the initial states and stays inductive  *)
(* relative to its frame; the inner one is the member core.                *)
MicCubesInductive ==
  \A n \in DOMAIN stack :
    LET c == IF n = 1 THEN stack[n].cube ELSE core
    IN ~is_init(c) /\ is_inductive(stack[n].k, c)

(* A verdict is the right one. *)
VerdictSound ==
  /\ RESULT = SAFE => Safe(ckt)
  /\ RESULT = UNSAFE => ~Safe(ckt)

(* show_witness prints the latches of the first state and the inputs of    *)
(* all.  Simulated on the circuit from that initial state they reach bad,  *)
(* and meet the constraints up to there (a lifted state may be bad itself, *)
(* and then bad comes before the last input).                              *)
WitnessReal ==
  LET run[n \in 1 .. Len(cex)] ==
        IF n = 1 THEN cex[1].latches ELSE ckt.next[<<run[n - 1], cex[n - 1].inputs>>]
  IN cex # << >> =>
       /\ cex[1].latches \in State /\ ckt.init \subseteq cex[1].latches
       /\ \E n \in 1 .. Len(cex) :
            /\ <<run[n], cex[n].inputs>> \in ckt.bad
            /\ \A m \in 1 .. n : <<run[m], cex[m].inputs>> \in ckt.cons

(* The certificate's invariant (no cube of cert, no bad, the constraints)  *)
(* holds initially and is preserved by every constrained step.             *)
CertificateInductive ==
  LET Inv(x, i) == (\A c \in cert : ~(c \subseteq x)) /\ <<x, i>> \in ckt.cons \ ckt.bad
  IN pc = "safe" /\ RESULT = SAFE /\ ~Parallel =>
       /\ \A x \in Initial(ckt), i \in Input : <<x, i>> \in ckt.cons => Inv(x, i)
       /\ \A x \in State, i, j \in Input :
            Inv(x, i) /\ <<ckt.next[<<x, i>>], j>> \in ckt.cons => Inv(ckt.next[<<x, i>>], j)

(* When rec_block_cube has emptied the queue the state one step from bad   *)
(* it was called for is blocked, whatever was given up or not requeued.    *)
RootBlocked ==
  [][pc = "block" /\ pc' = "loop" /\ RESULT = 0 =>
       \A x \in F(depth) : ~(heap[2].latches \subseteq x)]_vars

(* check: assert(obligation_queue.size() == 0) before propagate.  A verdict *)
(* of another engine makes rec_block_cube return with obligations queued,  *)
(* but then the head of the loop sees that verdict too.                    *)
QueueEmptyAtPropagate == pc = "propagate" => queue = {}

(* The engine publishes one verdict, the right one, also when another      *)
(* engine has published first and propagate's unlocked RESULT = 20 follows.*)
A == INSTANCE Answer WITH safe <- Safe(ckt)
ImplementsAnswer == A!Spec

(* check() returns. *)
Terminates == <>(pc = "done")

=============================================================================
