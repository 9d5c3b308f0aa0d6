-------------------------- MODULE PortfolioProofs --------------------------
(***************************************************************************)
(* Proofs about the portfolio, for any number of threads, properties and   *)
(* frames, and every circuit.                                              *)
(***************************************************************************)
EXTENDS Portfolio, FiniteSetTheorems, TLAPS

LEMMA FirstFixed == ASSUME [Next]_vars PROVE First' = First
BY DEF Next, vars, Main, pthread_create, AllStarted, PrintAnswer, Bmc, ReadIndex, WriteIndex, LoopEnds,
   LoopGoesOn, NothingInFrame, AssertedInFrame, Terminated, Pdr, PdrDecides, PdrInterrupted, Verdict,
   Lock, TestResult, Publish, Unlock, SetAgain, Done

LEMMA TypeInit == Init => TypeOK
BY OptionsAssumption DEF Init, TypeOK, Thread, Label, BmcLabel, LockLabel

LEMMA TypeNext == TypeOK /\ [Next]_vars => TypeOK'
<1> SUFFICES ASSUME TypeOK, [Next]_vars PROVE TypeOK'
  OBVIOUS
<1> USE OptionsAssumption DEF TypeOK, Label, BmcLabel, LockLabel, Thread, Goto
<1>1. CASE UNCHANGED vars
  BY <1>1 DEF vars
<1>2. CASE Main
  BY <1>2 DEF Main, pthread_create, AllStarted, PrintAnswer
<1>3. ASSUME NEW t \in BmcThread, Bmc(t) PROVE TypeOK'
  <2>1. CASE ReadIndex(t)
    BY <2>1 DEF ReadIndex
  <2>2. CASE WriteIndex(t)
    BY <2>2 DEF WriteIndex
  <2>3. CASE LoopEnds(t) \/ LoopGoesOn(t) \/ AssertedInFrame(t) \/ Terminated(t)
    BY <2>3 DEF LoopEnds, LoopGoesOn, AssertedInFrame, Terminated
  <2>4. CASE NothingInFrame(t)
    BY <2>4 DEF NothingInFrame
  <2> QED
    BY <1>3, <2>1, <2>2, <2>3, <2>4 DEF Bmc
<1>4. ASSUME NEW t \in PdrThread, Pdr(t) PROVE TypeOK'
  BY <1>4 DEF Pdr, PdrDecides, PdrInterrupted
<1>5. ASSUME NEW t \in Thread, Verdict(t) PROVE TypeOK'
  <2>1. CASE Lock(t)
    BY <2>1 DEF Lock
  <2>2. CASE TestResult(t)
    BY <2>2 DEF TestResult
  <2>3. CASE Publish(t)
    BY <2>3 DEF Publish
  <2>4. CASE Unlock(t)
    BY <2>4 DEF Unlock
  <2>5. CASE SetAgain(t)
    BY <2>5 DEF SetAgain
  <2> QED
    BY <1>5, <2>1, <2>2, <2>3, <2>4, <2>5 DEF Verdict
<1> QED
  BY <1>1, <1>2, <1>3, <1>4, <1>5 DEF Next, Done

(* Every thread stays on the code of its own engine, and the variables the *)
(* threads share keep their types, for any number of threads.              *)
THEOREM PortfolioTypeCorrect == Spec => []TypeOK
BY TypeInit, TypeNext, PTL DEF Spec

-----------------------------------------------------------------------------
(***************************************************************************)
(* A thread does nothing before it is created, and when main has printed   *)
(* the answer no thread is left.                                           *)
(***************************************************************************)
Joins ==
  /\ \A t \in Thread \ started : pc[t] = "none"
  /\ main = "end" => \A t \in Thread : pc[t] = "exit"

LEMMA JoinsNext == TypeOK /\ Joins /\ [Next]_vars => Joins'
<1> SUFFICES ASSUME TypeOK, Joins, [Next]_vars PROVE Joins'
  OBVIOUS
<1>1. CASE UNCHANGED vars
  BY <1>1 DEF Joins, vars
<1>2. CASE Main
  BY <1>2 DEF Joins, Main, pthread_create, AllStarted, PrintAnswer, TypeOK
<1>3. ASSUME NEW t \in Thread, pc[t] \notin {"none", "exit"}, NEW l, Goto(t, l), UNCHANGED <<main, started>>
      PROVE  Joins'
  BY <1>3 DEF Joins, Goto, TypeOK
<1>4. ASSUME NEW t \in BmcThread, Bmc(t) PROVE Joins'
  BY <1>3, <1>4 DEF Bmc, ReadIndex, WriteIndex, LoopEnds, LoopGoesOn, NothingInFrame, AssertedInFrame,
     Terminated, Thread
<1>5. ASSUME NEW t \in PdrThread, Pdr(t) PROVE Joins'
  BY <1>3, <1>5 DEF Pdr, PdrDecides, PdrInterrupted, Thread
<1>6. ASSUME NEW t \in Thread, Verdict(t) PROVE Joins'
  BY <1>3, <1>6 DEF Verdict, Lock, TestResult, Publish, Unlock, SetAgain
<1> QED
  BY <1>1, <1>2, <1>4, <1>5, <1>6 DEF Next, Done

-----------------------------------------------------------------------------
(***************************************************************************)
(* The race on current_bmc_execution.  A thread writes back the value it   *)
(* read plus one, however stale that is, so the counter never exceeds the  *)
(* number of threads that have written it.                                 *)
(***************************************************************************)
Written == {t \in BmcThread : pc[t] \notin {"none", "read", "write"}}

Indices ==
  /\ current <= Cardinality(Written)
  /\ \A t \in BmcThread : pc[t] = "write" => index[t] <= Cardinality(Written)
  /\ IndexInRange

LEMMA WrittenFinite == IsFiniteSet(Written) /\ Cardinality(Written) \in Nat /\ Cardinality(BmcThread) \in Nat
BY OptionsAssumption, FS_Subset, FS_CardinalityType DEF Written

LEMMA WrittenBelow ==
  ASSUME NEW t \in BmcThread, t \notin Written PROVE Cardinality(Written) <= Cardinality(BmcThread) - 1
<1>1. Cardinality(BmcThread \ {t}) = Cardinality(BmcThread) - 1 /\ IsFiniteSet(BmcThread \ {t})
  BY OptionsAssumption, FS_RemoveElement
<1>2. Written \in SUBSET (BmcThread \ {t})
  BY DEF Written
<1> QED
  BY <1>1, <1>2, FS_Subset

LEMMA IndicesInit == Init => Indices
<1> SUFFICES ASSUME Init PROVE Indices
  OBVIOUS
<1>1. \A t \in BmcThread : pc[t] = "none"
  BY DEF Init, Thread
<1> QED
  BY <1>1, WrittenFinite DEF Init, Indices, IndexInRange

LEMMA IndicesNext == TypeOK /\ Joins /\ Indices /\ [Next]_vars => Indices'
<1> SUFFICES ASSUME TypeOK, Joins, Indices, [Next]_vars PROVE Indices'
  OBVIOUS
<1>1. ASSUME NEW t \in BmcThread, ReadIndex(t) PROVE Indices'
  <2>1. Written' = Written /\ t \notin Written
    BY <1>1 DEF Written, ReadIndex, Goto, TypeOK, Thread
  <2>2. current <= Cardinality(BmcThread) - 1
    BY <2>1, WrittenFinite, WrittenBelow DEF Indices, TypeOK
  <2> QED
    BY <1>1, <2>1, <2>2, WrittenFinite DEF Indices, IndexInRange, ReadIndex, Goto, TypeOK, Thread
<1>2. ASSUME NEW t \in BmcThread, WriteIndex(t) PROVE Indices'
  <2>1. Written' = Written \cup {t} /\ t \notin Written
    BY <1>2 DEF Written, WriteIndex, Goto, TypeOK, Thread
  <2>2. Cardinality(Written') = Cardinality(Written) + 1
    BY <2>1, WrittenFinite, FS_AddElement
  <2> QED
    BY <1>2, <2>2, WrittenFinite DEF Indices, IndexInRange, WriteIndex, Goto, TypeOK, Thread
<1>3. ASSUME UNCHANGED <<current, index>>,
             \A t \in BmcThread : /\ (pc'[t] \in {"none", "read"}) <=> (pc[t] \in {"none", "read"})
                                  /\ (pc'[t] = "write") <=> (pc[t] = "write")
      PROVE  Indices'
  <2>1. \A t \in BmcThread : pc'[t] \in {"none", "read", "write"} <=> pc[t] \in {"none", "read", "write"}
    BY <1>3
  <2>2. Written' = Written
    BY <2>1 DEF Written
  <2> QED
    BY <1>3, <2>2 DEF Indices, IndexInRange
<1>4. CASE UNCHANGED vars
  BY <1>3, <1>4 DEF vars
<1>5. CASE Main
  <2>1. ASSUME NEW t \in Thread, pthread_create(t) PROVE pc[t] = "none"
    BY <2>1 DEF Joins, pthread_create
  <2> QED
    BY <1>3, <1>5, <2>1 DEF Main, pthread_create, AllStarted, PrintAnswer, TypeOK, Thread
<1>6. ASSUME NEW t \in BmcThread, Bmc(t), ~ReadIndex(t), ~WriteIndex(t) PROVE Indices'
  BY <1>3, <1>6 DEF Bmc, LoopEnds, LoopGoesOn, NothingInFrame, AssertedInFrame, Terminated, Goto, TypeOK, Thread
<1>7. ASSUME NEW t \in PdrThread, Pdr(t) PROVE Indices'
  BY <1>3, <1>7, OptionsAssumption DEF Pdr, PdrDecides, PdrInterrupted, Goto, TypeOK, Thread
<1>8. ASSUME NEW t \in Thread, Verdict(t) PROVE Indices'
  BY <1>3, <1>8 DEF Verdict, Lock, TestResult, Publish, Unlock, SetAgain, Goto, TypeOK, Thread
<1> QED
  BY <1>1, <1>2, <1>4, <1>5, <1>6, <1>7, <1>8 DEF Next, Done

-----------------------------------------------------------------------------
(***************************************************************************)
(* The verdict.  The lock admits one thread; a thread that is going to     *)
(* publish has the right verdict; who has passed the test of RESULT finds  *)
(* it unchanged when it writes, and who has left the lock leaves a verdict *)
(* behind, so that the write outside the lock repeats it.                  *)
(***************************************************************************)
Verdicts ==
  /\ \A t \in Thread : (t \in result_mutex) <=> (pc[t] \in LockLabel)
  /\ \A t, u \in result_mutex : t = u
  /\ \A t \in Thread : pc[t] \in {"found", "test10", "set10"} => ~Holds
  /\ \A t \in Thread : pc[t] \in {"proved", "test20", "set20", "unlock20", "again"} => Holds
  /\ \A t \in Thread : pc[t] \in {"set10", "set20"} => RESULT = 0
  /\ \A t \in Thread : pc[t] \in {"unlock10", "unlock20", "again"} => RESULT # 0
  /\ RESULT = SAFE => Holds
  /\ RESULT = UNSAFE => ~Holds
  /\ OneWitness
  /\ printed # {} => RESULT # 0

LEMMA CheckedIsProperty ==
  ASSUME TypeOK, Indices, NEW t \in BmcThread, pc[t] \notin {"none", "read"}
  PROVE  /\ Checked(t) \in Property
         /\ First[Checked(t)] # {} => ~Holds
<1>1. Checked(t) \in Property
  BY OptionsAssumption DEF Checked, Property, Indices, IndexInRange
<1> QED
  BY <1>1 DEF Holds, Checked

LEMMA HoldsFixed == ASSUME [Next]_vars PROVE Holds' = Holds
BY FirstFixed DEF Holds

LEMMA VerdictsInit == Init => Verdicts
BY DEF Init, Verdicts, OneWitness, LockLabel, SAFE, UNSAFE

LEMMA VerdictsNext == TypeOK /\ Joins /\ Indices /\ Verdicts /\ [Next]_vars => Verdicts'
<1> SUFFICES ASSUME TypeOK, Joins, Indices, Verdicts, [Next]_vars PROVE Verdicts'
  OBVIOUS
<1>0. Holds' = Holds
  BY HoldsFixed
<1>1. CASE UNCHANGED vars
  BY <1>0, <1>1 DEF Verdicts, OneWitness, vars
<1>2. CASE Main
  BY <1>0, <1>2 DEF Verdicts, OneWitness, Joins, Main, pthread_create, AllStarted, PrintAnswer, LockLabel, TypeOK
<1>3. ASSUME NEW t \in BmcThread, Bmc(t) PROVE Verdicts'
  <2>1. CASE AssertedInFrame(t)
    BY <1>0, <2>1, CheckedIsProperty DEF AssertedInFrame, Verdicts, OneWitness, Goto, LockLabel, TypeOK, Thread
  <2>2. CASE ~AssertedInFrame(t)
    BY <1>0, <1>3, <2>2 DEF Bmc, ReadIndex, WriteIndex, LoopEnds, LoopGoesOn, NothingInFrame, Terminated,
       Verdicts, OneWitness, Goto, LockLabel, TypeOK, Thread
  <2> QED
    BY <2>1, <2>2
<1>4. ASSUME NEW t \in PdrThread, Pdr(t) PROVE Verdicts'
  <2>1. First[propertyIndex] = {} <=> Holds
    BY <1>4, OptionsAssumption DEF Holds
  <2> QED
    BY <1>0, <1>4, <2>1 DEF Pdr, PdrDecides, PdrInterrupted, Verdicts, OneWitness, Goto, LockLabel, TypeOK, Thread
<1>5. ASSUME NEW t \in Thread, Verdict(t) PROVE Verdicts'
  <2> USE <1>0 DEF Verdicts, OneWitness, Goto, LockLabel, TypeOK, SAFE, UNSAFE
  <2>1. CASE Lock(t)
    BY <2>1 DEF Lock
  <2>2. CASE TestResult(t)
    BY <2>2 DEF TestResult
  <2>3. CASE Publish(t)
    BY <2>3 DEF Publish
  <2>4. CASE Unlock(t)
    BY <2>4 DEF Unlock
  <2>5. CASE SetAgain(t)
    BY <2>5 DEF SetAgain
  <2> QED
    BY <1>5, <2>1, <2>2, <2>3, <2>4, <2>5 DEF Verdict
<1> QED
  BY <1>1, <1>2, <1>3, <1>4, <1>5 DEF Next, Done

-----------------------------------------------------------------------------
(***************************************************************************)
(* A BMC thread's frames: the frames behind it hold no first bug it is in  *)
(* charge of, and it leaves only at the bound or when there is a verdict.  *)
(***************************************************************************)
Covered ==
  \A t \in Written :
    /\ \A k \in 1 .. bmc_frame_k[t] - 1 : k \in First[Checked(t)] => ~InCharge(t, k)
    /\ pc[t] = "exit" => RESULT # 0 \/ bmc_frame_k[t] > nframes + 1

LEMMA CoveredNext == TypeOK /\ Joins /\ Verdicts /\ Covered /\ [Next]_vars => Covered'
<1> DEFINE Good(u) == /\ \A k \in 1 .. bmc_frame_k[u] - 1 : k \in First[Checked(u)] => ~InCharge(u, k)
                      /\ pc[u] = "exit" => RESULT # 0 \/ bmc_frame_k[u] > nframes + 1
<1> SUFFICES ASSUME TypeOK, Joins, Verdicts, Covered, [Next]_vars,
                    NEW u \in BmcThread, pc'[u] \notin {"none", "read", "write"}
             PROVE  Good(u)'
  BY DEF Covered, Written
<1>0. First' = First
  BY FirstFixed
<1>1. RESULT # 0 => RESULT' # 0
  BY DEF Next, vars, Main, pthread_create, AllStarted, PrintAnswer, Bmc, ReadIndex, WriteIndex, LoopEnds,
     LoopGoesOn, NothingInFrame, AssertedInFrame, Terminated, Pdr, PdrDecides, PdrInterrupted, Verdict,
     Lock, TestResult, Publish, Unlock, SetAgain, Done, SAFE, UNSAFE
<1>2. ASSUME u \in Written, bmc_frame_k'[u] = bmc_frame_k[u], index'[u] = index[u],
             pc'[u] = "exit" => pc[u] = "exit" \/ RESULT' # 0 \/ bmc_frame_k[u] > nframes + 1
      PROVE  Good(u)'
  BY <1>0, <1>1, <1>2 DEF Covered, Checked, InCharge
<1>3. CASE UNCHANGED vars
  BY <1>2, <1>3 DEF vars, Written
<1>4. CASE Main
  BY <1>2, <1>4 DEF Main, pthread_create, AllStarted, PrintAnswer, Joins, Written, TypeOK, Thread
<1>5. ASSUME NEW t \in BmcThread, Bmc(t) PROVE Good(u)'
  <2> USE DEF TypeOK, Thread, Goto
  <2>1. CASE ReadIndex(t)
    BY <1>2, <2>1 DEF ReadIndex, Written
  <2>2. CASE WriteIndex(t) /\ t # u
    BY <1>2, <2>2 DEF WriteIndex, Written
  <2>3. CASE WriteIndex(t) /\ t = u
    <3>1. bmc_frame_k'[u] = 1 /\ pc'[u] = "frame"
      BY <2>3 DEF WriteIndex
    <3> QED
      BY <3>1
  <2>4. CASE LoopEnds(t) \/ LoopGoesOn(t) \/ AssertedInFrame(t) \/ Terminated(t)
    BY <1>2, <2>4 DEF LoopEnds, LoopGoesOn, AssertedInFrame, Terminated, Written
  <2>5. CASE NothingInFrame(t) /\ t # u
    BY <1>2, <2>5 DEF NothingInFrame, Written
  <2>6. CASE NothingInFrame(t) /\ t = u
    <3>1. bmc_frame_k'[u] = bmc_frame_k[u] + 1 /\ bmc_frame_k[u] \in Nat /\ pc'[u] = "frame" /\ index' = index
      BY <2>6 DEF NothingInFrame
    <3>2. bmc_frame_k[u] \in First[Checked(u)] => ~InCharge(u, bmc_frame_k[u])
      BY <2>6 DEF NothingInFrame, Skips, InCharge
    <3>3. \A k \in 1 .. bmc_frame_k[u] - 1 : k \in First[Checked(u)] => ~InCharge(u, k)
      BY <2>6 DEF NothingInFrame, Covered, Written
    <3>4. Checked(u)' = Checked(u) /\ \A k : InCharge(u, k)' = InCharge(u, k)
      BY <3>1 DEF Checked, InCharge
    <3> QED
      BY <1>0, <3>1, <3>2, <3>3, <3>4
  <2> QED
    BY <1>5, <2>1, <2>2, <2>3, <2>4, <2>5, <2>6 DEF Bmc
<1>6. ASSUME NEW t \in PdrThread, Pdr(t) PROVE Good(u)'
  BY <1>2, <1>6, OptionsAssumption DEF Pdr, PdrDecides, PdrInterrupted, Written, Goto, TypeOK, Thread
<1>7. ASSUME NEW t \in Thread, Verdict(t) PROVE Good(u)'
  BY <1>2, <1>7 DEF Verdict, Lock, TestResult, Publish, Unlock, SetAgain, Written, Verdicts, Goto, TypeOK, Thread, SAFE
<1> QED
  BY <1>3, <1>4, <1>5, <1>6, <1>7 DEF Next, Done

(* A BMC thread has no frame before it has its index.                      *)
Unframed == \A t \in BmcThread : pc[t] \in {"none", "read", "write"} => bmc_frame_k[t] = 0

LEMMA UnframedNext == TypeOK /\ Joins /\ Unframed /\ [Next]_vars => Unframed'
<1> SUFFICES ASSUME TypeOK, Joins, Unframed, [Next]_vars,
                    NEW u \in BmcThread, pc'[u] \in {"none", "read", "write"}
             PROVE  bmc_frame_k'[u] = 0
  BY DEF Unframed
<1> USE DEF Unframed, TypeOK, Thread, Goto
<1>1. CASE UNCHANGED vars
  BY <1>1 DEF vars
<1>2. CASE Main
  BY <1>2 DEF Main, pthread_create, AllStarted, PrintAnswer, Joins
<1>3. ASSUME NEW t \in BmcThread, Bmc(t) PROVE bmc_frame_k'[u] = 0
  BY <1>3 DEF Bmc, ReadIndex, WriteIndex, LoopEnds, LoopGoesOn, NothingInFrame, AssertedInFrame, Terminated
<1>4. ASSUME NEW t \in PdrThread, Pdr(t) PROVE bmc_frame_k'[u] = 0
  BY <1>4, OptionsAssumption DEF Pdr, PdrDecides, PdrInterrupted
<1>5. ASSUME NEW t \in Thread, Verdict(t) PROVE bmc_frame_k'[u] = 0
  BY <1>5 DEF Verdict, Lock, TestResult, Publish, Unlock, SetAgain
<1> QED
  BY <1>1, <1>2, <1>3, <1>4, <1>5 DEF Next, Done

-----------------------------------------------------------------------------
Right == TypeOK /\ Joins /\ Indices /\ Verdicts /\ Covered /\ Unframed

LEMMA AlwaysRight == Spec => []Right
<1>1. Init => Right
  <2>1. Init => Joins /\ Covered /\ Unframed
    BY DEF Init, Joins, Covered, Unframed, Written, Thread
  <2> QED
    BY <2>1, TypeInit, IndicesInit, VerdictsInit DEF Right
<1>2. Right /\ [Next]_vars => Right'
  BY TypeNext, JoinsNext, IndicesNext, VerdictsNext, CoveredNext, UnframedNext DEF Right
<1> QED
  BY <1>1, <1>2, PTL DEF Spec

(* However many BMC threads race on current_bmc_execution, none draws an   *)
(* index outside allbad or outside the residues of the frames.             *)
THEOREM IndexAlwaysInRange == Spec => []IndexInRange
<1>1. Right => IndexInRange
  BY DEF Right, Indices
<1> QED
  BY <1>1, AlwaysRight, PTL

(* However many threads finish together, one witness or certificate is     *)
(* printed, and there is no verdict without it.                            *)
THEOREM WitnessIsUnique == Spec => []OneWitness
<1>1. Right => OneWitness
  BY DEF Right, Verdicts
<1> QED
  BY <1>1, AlwaysRight, PTL

(* With any number of threads and frames, when main prints, a bug in a     *)
(* frame some BMC thread was in charge of has been reported.               *)
THEOREM CoveredBugIsFound == Spec => []CoveredBugFound
<1>1. Right => CoveredBugFound
  <2> SUFFICES ASSUME Right, NEW t \in BmcThread, NEW k \in Frame \cap First[Checked(t)],
                      InCharge(t, k), bmc_frame_k[t] > k \/ pc[t] = "exit", RESULT # UNSAFE
               PROVE  FALSE
    BY DEF CoveredBugFound
  <2>1. k \in Nat \ {0} /\ k <= nframes + 1 /\ nframes \in Nat /\ bmc_frame_k[t] \in Nat
    BY OptionsAssumption DEF Right, TypeOK, Frame
  <2>2. t \in Written
    <3>1. CASE pc[t] = "exit"
      BY <3>1 DEF Written
    <3>2. CASE bmc_frame_k[t] > k
      BY <2>1, <3>2 DEF Right, Unframed, Written
    <3> QED
      BY <3>1, <3>2
  <2>3. RESULT # SAFE
    <3>1. pc[t] \notin {"none", "read"}
      BY <2>2 DEF Written
    <3> QED
      BY <3>1, CheckedIsProperty DEF Right, Verdicts
  <2>4. bmc_frame_k[t] > k
    BY <2>1, <2>2, <2>3 DEF Right, Covered, TypeOK
  <2>5. k \in 1 .. bmc_frame_k[t] - 1
    BY <2>1, <2>4
  <2> QED
    BY <2>2, <2>5 DEF Right, Covered
<1> QED
  BY <1>1, AlwaysRight, PTL

(* The portfolio implements the promise of module Answer: of any number of *)
(* threads one publishes, its verdict is right, and neither another thread *)
(* nor the write outside the lock changes it.                              *)
THEOREM PortfolioImplementsAnswer == Spec => ImplementsAnswer
<1>1. Init => A!Init
  BY DEF Init, A!Init, Holds
<1>2. Right /\ [Next]_vars => [A!Publish]_<<Holds, RESULT>>
  <2> SUFFICES ASSUME Right, [Next]_vars PROVE [A!Publish]_<<Holds, RESULT>>
    OBVIOUS
  <2>1. Holds' = Holds
    BY HoldsFixed
  <2>2. RESULT' = RESULT \/ (RESULT = 0 /\ RESULT' \in {SAFE, UNSAFE}) \/ (RESULT # 0 /\ RESULT' = SAFE)
    BY DEF Right, Verdicts, Next, vars, Main, pthread_create, AllStarted, PrintAnswer, Bmc, ReadIndex,
       WriteIndex, LoopEnds, LoopGoesOn, NothingInFrame, AssertedInFrame, Terminated, Pdr, PdrDecides,
       PdrInterrupted, Verdict, Lock, TestResult, Publish, Unlock, SetAgain, Done
  <2>3. /\ RESULT \in {0, SAFE, UNSAFE}
        /\ (RESULT = SAFE => Holds) /\ (RESULT = UNSAFE => ~Holds)
        /\ (RESULT' = SAFE => Holds) /\ (RESULT' = UNSAFE => ~Holds)
    BY <2>1, VerdictsNext DEF Right, Verdicts, TypeOK
  <2> QED
    BY <2>1, <2>2, <2>3 DEF A!Publish, A!SAFE, A!UNSAFE, SAFE, UNSAFE
<1> QED
  BY <1>1, <1>2, AlwaysRight, PTL DEF Spec, ImplementsAnswer, A!Spec

=============================================================================
