----------------------------- MODULE Portfolio -----------------------------
(***************************************************************************)
(* main.cpp: the main thread starts the engines, joins them and prints the *)
(* answer; the engines share the verdict RESULT, the lock result_mutex and *)
(* the counter they draw their thread_index from.                          *)
(*                                                                         *)
(* The circuit appears as First[p]: the frames in which bad p can be       *)
(* asserted for the first time.  A BMC engine's solver holds -bad of every *)
(* earlier frame, checked or skipped, so its query in frame k is           *)
(* satisfiable exactly when k is in First[p].  A PDR engine decides        *)
(* whether First[p] is empty; module PDR shows that it does.               *)
(***************************************************************************)
EXTENDS Integers, FiniteSets

CONSTANTS
  PdrThread,     \* option -pdr: the PDR threads
  BmcThread,     \* option -bmc, or with -findbug one thread per property
  find_bug_only, \* option -findbug
  num_property,
  propertyIndex, \* option -pindex
  nframes,       \* option -findbug's bound
  Circuits       \* the functions First considered

Thread == PdrThread \cup BmcThread
Frame == 1 .. nframes + 1
Property == 0 .. num_property - 1

ASSUME OptionsAssumption ==
  /\ PdrThread \cap BmcThread = {}
  /\ IsFiniteSet(BmcThread) /\ IsFiniteSet(PdrThread)
  /\ find_bug_only \in BOOLEAN
  /\ nframes \in Nat
  /\ num_property \in Nat \ {0}
  /\ propertyIndex \in Property
  /\ find_bug_only => PdrThread = {} /\ Cardinality(BmcThread) = num_property

ASSUME CircuitsAssumption == Circuits \subseteq [Property -> SUBSET Nat]

SAFE   == 20
UNSAFE == 10

VARIABLES
  First,          \* the circuit
  pc,             \* where each thread is
  main,           \* where the main thread is
  started,        \* the threads pthread_create has started
  current,        \* current_bmc_execution
  index,          \* each BMC thread's thread_index
  bmc_frame_k,    \* each BMC thread's frame
  RESULT,         \* the shared verdict
  result_mutex,   \* the threads that hold the lock: none or one
  printed,        \* the threads that printed a witness or a certificate
  answer          \* what main printed at the end

vars == <<First, pc, main, started, current, index, bmc_frame_k, RESULT, result_mutex, printed, answer>>

-----------------------------------------------------------------------------
(***************************************************************************)
(* The main thread.                                                        *)
(***************************************************************************)
(* Mutant: the threads are started with the entry point of the other engine. *)
pthread_createSwapped(t) ==
  /\ main = "create" /\ t \in Thread \ started
  /\ t \in BmcThread => PdrThread \subseteq started
  /\ started' = started \cup {t}
  /\ pc' = [pc EXCEPT ![t] = IF t \in PdrThread THEN "read" ELSE "pdr"]
  /\ UNCHANGED <<First, main, current, index, bmc_frame_k, RESULT, result_mutex, printed, answer>>

pthread_create(t) ==
  /\ main = "create" /\ t \in Thread \ started
  /\ t \in BmcThread => PdrThread \subseteq started
  /\ started' = started \cup {t}
  /\ pc' = [pc EXCEPT ![t] = IF t \in BmcThread THEN "read" ELSE "pdr"]
  /\ UNCHANGED <<First, main, current, index, bmc_frame_k, RESULT, result_mutex, printed, answer>>

AllStarted ==
  /\ main = "create" /\ started = Thread
  /\ main' = "join"
  /\ UNCHANGED <<First, pc, started, current, index, bmc_frame_k, RESULT, result_mutex, printed, answer>>

(* The last pthread_join returns; the answer is chosen by RESULT. *)
Answered ==
  IF find_bug_only
  THEN IF RESULT # UNSAFE THEN "2" ELSE "1"
  ELSE IF RESULT # UNSAFE THEN "no output asserted" ELSE "unsafe"

PrintAnswer ==
  /\ main = "join" /\ \A t \in Thread : pc[t] = "exit"
  /\ answer' = Answered
  /\ main' = "end"
  /\ UNCHANGED <<First, pc, started, current, index, bmc_frame_k, RESULT, result_mutex, printed>>

-----------------------------------------------------------------------------
(***************************************************************************)
(* A BMC thread.  current_bmc_execution++ is a read and a write of a plain *)
(* int, with no lock: other threads step in between.                       *)
(***************************************************************************)
Goto(t, l) == pc' = [pc EXCEPT ![t] = l]

(* Mutant: ++current_bmc_execution, "start from 1". *)
ReadIndexFromOne(t) ==
  /\ pc[t] = "read"
  /\ index' = [index EXCEPT ![t] = current + 1]
  /\ Goto(t, "write")
  /\ UNCHANGED <<First, main, started, current, bmc_frame_k, RESULT, result_mutex, printed, answer>>

ReadIndex(t) ==
  /\ pc[t] = "read"
  /\ index' = [index EXCEPT ![t] = current]
  /\ Goto(t, "write")
  /\ UNCHANGED <<First, main, started, current, bmc_frame_k, RESULT, result_mutex, printed, answer>>

WriteIndex(t) ==
  /\ pc[t] = "write"
  /\ current' = index[t] + 1
  /\ bmc_frame_k' = [bmc_frame_k EXCEPT ![t] = 1]
  /\ Goto(t, "frame")
  /\ UNCHANGED <<First, main, started, index, RESULT, result_mutex, printed, answer>>

max_thread_index == IF find_bug_only THEN 1 ELSE Cardinality(BmcThread)

Checked(t) == IF find_bug_only THEN index[t] ELSE propertyIndex   \* the property of unfold()

(* check(): the head of the loop. *)
LoopEnds(t) ==
  /\ pc[t] = "frame"
  /\ bmc_frame_k[t] > nframes + 1 \/ RESULT # 0
  /\ Goto(t, "exit")
  /\ UNCHANGED <<First, main, started, current, index, bmc_frame_k, RESULT, result_mutex, printed, answer>>

LoopGoesOn(t) ==
  /\ pc[t] = "frame"
  /\ bmc_frame_k[t] <= nframes + 1 /\ RESULT = 0
  /\ Goto(t, "solve")
  /\ UNCHANGED <<First, main, started, current, index, bmc_frame_k, RESULT, result_mutex, printed, answer>>

(* Mutant: frames are dealt out as if they were numbered from 0. *)
SkipsShifted(t) == max_thread_index # 1 /\ (bmc_frame_k[t] + 1) % max_thread_index # index[t]

Skips(t) == max_thread_index # 1 /\ bmc_frame_k[t] % max_thread_index # index[t]

(* solve_one_frame returns 20: the frame is skipped or the query unsatisfiable. *)
NothingInFrame(t) ==
  /\ pc[t] = "solve"
  /\ Skips(t) \/ bmc_frame_k[t] \notin First[Checked(t)]
  /\ bmc_frame_k' = [bmc_frame_k EXCEPT ![t] = @ + 1]
  /\ Goto(t, "frame")
  /\ UNCHANGED <<First, main, started, current, index, RESULT, result_mutex, printed, answer>>

AssertedInFrame(t) ==
  /\ pc[t] = "solve"
  /\ ~Skips(t) /\ bmc_frame_k[t] \in First[Checked(t)]
  /\ Goto(t, "found")
  /\ UNCHANGED <<First, main, started, current, index, bmc_frame_k, RESULT, result_mutex, printed, answer>>

(* terminate_callback stops the solver, which then returns 0. *)
Terminated(t) ==
  /\ pc[t] = "solve" /\ RESULT # 0 /\ ~Skips(t)
  /\ Goto(t, "exit")
  /\ UNCHANGED <<First, main, started, current, index, bmc_frame_k, RESULT, result_mutex, printed, answer>>

-----------------------------------------------------------------------------
(***************************************************************************)
(* A PDR thread runs until it has its own verdict or sees another's.       *)
(***************************************************************************)
(* Mutant: the engine proves a property whose bug lies beyond the frames explored. *)
PdrDecidesEarly(t) ==
  /\ pc[t] = "pdr"
  /\ Goto(t, IF 1 \notin First[propertyIndex] THEN "proved" ELSE "found")
  /\ UNCHANGED <<First, main, started, current, index, bmc_frame_k, RESULT, result_mutex, printed, answer>>

(* Mutant: the engine never recognises a fixpoint and goes on for ever. *)
PdrDecidesNever(t) ==
  /\ pc[t] = "pdr"
  /\ Goto(t, IF First[propertyIndex] = {} THEN "pdr" ELSE "found")
  /\ UNCHANGED <<First, main, started, current, index, bmc_frame_k, RESULT, result_mutex, printed, answer>>

PdrDecides(t) ==
  /\ pc[t] = "pdr"
  /\ Goto(t, IF First[propertyIndex] = {} THEN "proved" ELSE "found")
  /\ UNCHANGED <<First, main, started, current, index, bmc_frame_k, RESULT, result_mutex, printed, answer>>

PdrInterrupted(t) ==
  /\ pc[t] = "pdr" /\ RESULT # 0
  /\ Goto(t, "exit")
  /\ UNCHANGED <<First, main, started, current, index, bmc_frame_k, RESULT, result_mutex, printed, answer>>

-----------------------------------------------------------------------------
(***************************************************************************)
(* Publishing a verdict: take the lock, test RESULT, write and print,      *)
(* release.  propagate's verdict is written once more after the lock is    *)
(* released.                                                               *)
(***************************************************************************)
(* Mutant: the verdict is published without the lock. *)
LockNone(t) ==
  /\ pc[t] \in {"found", "proved"}
  /\ result_mutex' = {t}
  /\ Goto(t, IF pc[t] = "found" THEN "test10" ELSE "test20")
  /\ UNCHANGED <<First, main, started, current, index, bmc_frame_k, RESULT, printed, answer>>

Lock(t) ==
  /\ pc[t] \in {"found", "proved"} /\ result_mutex = {}
  /\ result_mutex' = {t}
  /\ Goto(t, IF pc[t] = "found" THEN "test10" ELSE "test20")
  /\ UNCHANGED <<First, main, started, current, index, bmc_frame_k, RESULT, printed, answer>>

TestResult(t) ==
  /\ pc[t] \in {"test10", "test20"}
  /\ Goto(t, IF RESULT = 0 THEN IF pc[t] = "test10" THEN "set10" ELSE "set20"
             ELSE IF pc[t] = "test10" THEN "unlock10" ELSE "unlock20")
  /\ UNCHANGED <<First, main, started, current, index, bmc_frame_k, RESULT, result_mutex, printed, answer>>

Publish(t) ==
  /\ pc[t] \in {"set10", "set20"}
  /\ RESULT' = IF pc[t] = "set10" THEN UNSAFE ELSE SAFE
  /\ printed' = printed \cup {t}
  /\ Goto(t, IF pc[t] = "set10" THEN "unlock10" ELSE "unlock20")
  /\ UNCHANGED <<First, main, started, current, index, bmc_frame_k, result_mutex, answer>>

Unlock(t) ==
  /\ pc[t] \in {"unlock10", "unlock20"}
  /\ result_mutex' = {}
  /\ Goto(t, IF pc[t] = "unlock10" THEN "exit" ELSE "again")
  /\ UNCHANGED <<First, main, started, current, index, bmc_frame_k, RESULT, printed, answer>>

SetAgain(t) ==
  /\ pc[t] = "again"
  /\ RESULT' = SAFE
  /\ Goto(t, "exit")
  /\ UNCHANGED <<First, main, started, current, index, bmc_frame_k, result_mutex, printed, answer>>

-----------------------------------------------------------------------------
Init ==
  /\ First \in Circuits
  /\ pc = [t \in Thread |-> "none"]
  /\ main = "create"
  /\ started = {}
  /\ current = 0
  /\ index = [t \in BmcThread |-> 0]
  /\ bmc_frame_k = [t \in BmcThread |-> 0]
  /\ RESULT = 0
  /\ result_mutex = {}
  /\ printed = {}
  /\ answer = "none"

Bmc(t) ==
  \/ ReadIndex(t) \/ WriteIndex(t)
  \/ LoopEnds(t) \/ LoopGoesOn(t)
  \/ NothingInFrame(t) \/ AssertedInFrame(t) \/ Terminated(t)

Pdr(t) == PdrDecides(t) \/ PdrInterrupted(t)

Verdict(t) == Lock(t) \/ TestResult(t) \/ Publish(t) \/ Unlock(t) \/ SetAgain(t)

Main == (\E t \in Thread : pthread_create(t)) \/ AllStarted \/ PrintAnswer

Done == main = "end" /\ UNCHANGED vars

Next ==
  \/ Main
  \/ \E t \in BmcThread : Bmc(t)
  \/ \E t \in PdrThread : Pdr(t)
  \/ \E t \in Thread : Verdict(t)
  \/ Done

Spec == Init /\ [][Next]_vars

(* Every thread is scheduled, and solver calls and PDR's rounds return.  A *)
(* thread takes the lock once, so weak fairness of the lock is enough.      *)
Fairness ==
  /\ WF_vars(Main)
  /\ \A t \in BmcThread : WF_vars(Bmc(t))
  /\ \A t \in PdrThread : WF_vars(Pdr(t))
  /\ \A t \in Thread : WF_vars(Verdict(t))

FairSpec == Spec /\ Fairness

-----------------------------------------------------------------------------
(***************************************************************************)
(* Properties.                                                             *)
(***************************************************************************)
BmcLabel == {"read", "write", "frame", "solve"}
LockLabel == {"test10", "test20", "set10", "set20", "unlock10", "unlock20"}
Label == {"none", "exit", "pdr", "found", "proved", "again"} \cup BmcLabel \cup LockLabel

(* The state of the portfolio; only PDR threads prove, only BMC threads    *)
(* count frames.                                                           *)
TypeOK ==
  /\ First \in Circuits
  /\ pc \in [Thread -> Label]
  /\ \A t \in PdrThread : pc[t] \notin BmcLabel
  /\ \A t \in BmcThread : pc[t] \notin {"pdr", "proved", "test20", "set20", "unlock20", "again"}
  /\ main \in {"create", "join", "end"}
  /\ started \subseteq Thread
  /\ current \in Nat
  /\ index \in [BmcThread -> Nat] /\ bmc_frame_k \in [BmcThread -> Nat]
  /\ RESULT \in {0, SAFE, UNSAFE}
  /\ result_mutex \subseteq Thread
  /\ printed \subseteq Thread

(* Whether the property, or with -findbug every property, holds. *)
Holds == IF find_bug_only THEN \A p \in Property : First[p] = {} ELSE First[propertyIndex] = {}

(* However the threads interleave, and although check() writes RESULT = 20 *)
(* once more outside the lock, one verdict is published and it is right.   *)
A == INSTANCE Answer WITH safe <- Holds
ImplementsAnswer == A!Spec

(* A witness or a certificate is printed once, by the thread whose verdict *)
(* is RESULT, and there is no verdict without one.                         *)
OneWitness ==
  /\ \A t, u \in printed : t = u
  /\ RESULT # 0 => printed # {}

(* The race on current_bmc_execution may give two threads one index, but   *)
(* never one that is out of the range of allbad or of the residues the     *)
(* frames are dealt out by.                                                *)
IndexInRange ==
  \A t \in BmcThread :
    pc[t] \notin {"none", "read"} => index[t] \in 0 .. Cardinality(BmcThread) - 1

InCharge(t, k) == max_thread_index = 1 \/ k % max_thread_index = index[t]

(* A BMC thread that has gone past a frame it is in charge of, or has left *)
(* its loop, leaves no bug of that frame unreported, though the threads    *)
(* skip and assume away each other's frames: when main prints, every bug   *)
(* in a frame some thread was in charge of has been found.                 *)
CoveredBugFound ==
  \A t \in BmcThread : \A k \in Frame \cap First[Checked(t)] :
    InCharge(t, k) /\ (bmc_frame_k[t] > k \/ pc[t] = "exit") => RESULT = UNSAFE

(* README: "Run single-threaded BMC for each property up to nframes steps" *)
(* and "Set the number of BMC threads": a bug within the bound is found.   *)
EveryBugFound ==
  main = "end" =>
    \A p \in Property :
      (find_bug_only \/ p = propertyIndex) /\ Frame \cap First[p] # {} => RESULT = UNSAFE

(* main prints an answer: the threads all stop. *)
Answers == <>(main = "end")

=============================================================================
