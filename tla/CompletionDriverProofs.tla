----------------------- MODULE CompletionDriverProofs ------------------------
(***************************************************************************)
(* What CompletionDriver promises, for every finite set of readers, every  *)
(* number of reads and both methods.                                       *)
(***************************************************************************)
EXTENDS CompletionDriver, FiniteSetTheorems, TLAPS

\* Readers that may still complete, and the completion the thread has taken
\* and not yet counted.
Busy  == {r \in Readers : rpc[r] \in {"test", "complete"}}
Taken == IF pc \in {"check", "count"} THEN 1 ELSE 0

\* Each read stands for one completion: counted, taken, given, or to be given.
\* The exit function gives one more.
CountInv == readCount + Taken + done + Cardinality(Busy)
              <= reads + (IF phase = "unloaded" THEN 1 ELSE 0)

\* The completion is not initialised until init has initialised it, and until
\* then only a reader that died has completed it.  Nothing can be wiped before.
ReadyInv == /\ ~ready => phase \in {"create", "initcomp", "died"}
            /\ phase = "initcomp" => ~ready
            /\ phase \in {"create", "died"} => (ready <=> method = "static")
            /\ ~ready /\ done # 0 => \E r \in Readers : rpc[r] = "oops"
            /\ wiped => ready

\* Nobody reads any more when exit has begun; the thread leaves only then, and
\* beside the flag of exit.  There is no thread before init has created it.
ExitInv == /\ Exiting => NoReadInProgress
           /\ phase = "exitcomplete" => done = 0
           /\ flag = 2 => Exiting
           /\ pc = "done" => flag = 2
           /\ phase = "create" => pc = "none"

\* A thread that has not been created yet takes no completion away, so that a
\* read waits for it.
WaitInv == flag = 1 /\ pc \in {"none", "wait"} =>
             \/ done > 0
             \/ \E r \in Readers : rpc[r] \in {"test", "complete"}
             \/ wiped /\ \E r \in Readers : rpc[r] = "oops"

IInv == TypeOK /\ CountInv /\ TokensBounded /\ ReadyInv /\ ExitInv /\ WaitInv
-----------------------------------------------------------------------------
\* The sets of readers that are counted are finite.
LEMMA Finite == /\ IsFiniteSet(Busy) /\ Cardinality(Busy) \in Nat
                /\ IsFiniteSet(Pending) /\ Cardinality(Pending) \in Nat
                /\ Cardinality(Readers) \in Nat
<1>1. Busy \in SUBSET Readers /\ Pending \in SUBSET Readers
  BY DEF Busy, Pending
<1> QED
  BY <1>1, ReadersAssumption, FS_Subset, FS_CardinalityType

\* As long as no reader moves, they stay what they are.
LEMMA SameReaders ==
  ASSUME UNCHANGED rpc
  PROVE  Busy' = Busy /\ Pending' = Pending
BY DEF Busy, Pending

\* Nothing has been read when the device file becomes reachable.
LEMMA Start == Init => IInv
<1> SUFFICES ASSUME Init PROVE IInv
  OBVIOUS
<1>1. TypeOK
  <2>1. phase \in Phases /\ method \in Methods /\ done \in Nat /\ flag \in 0..2
    BY DEF Init, Phases
  <2>2. /\ pc \in {"none", "wait", "check", "count", "reset", "done", "oops"}
        /\ readCount \in Nat /\ reads \in 0..MaxReads
    BY MaxReadsAssumption DEF Init
  <2>3. rpc \in [Readers -> {"out", "test", "lock", "complete", "oops"}]
    BY DEF Init
  <2>4. ready \in BOOLEAN /\ wiped \in BOOLEAN
    BY Zenon DEF Init
  <2> QED
    BY <2>1, <2>2, <2>3, <2>4 DEF TypeOK
<1>2. Busy = {} /\ Pending = {}
  BY DEF Init, Busy, Pending
<1>3. CountInv /\ TokensBounded
  BY <1>2, Finite, FS_EmptySet DEF Init, CountInv, Taken, TokensBounded, Exiting
<1>4. ready <=> method = "static"
  BY Zenon DEF Init
<1>5. ReadyInv /\ ExitInv /\ WaitInv
  BY <1>4 DEF Init, ReadyInv, ExitInv, NoReadInProgress, WaitInv, Exiting
<1> QED
  BY <1>1, <1>3, <1>5 DEF IInv

\* The invariant is kept by init: the thread and the completion.
LEMMA InitSteps == IInv /\ (CreateThread \/ CreateDies \/ InitCompletion) => IInv'
<1> SUFFICES ASSUME IInv, CreateThread \/ CreateDies \/ InitCompletion PROVE IInv'
  OBVIOUS
<1> USE Finite DEF IInv, TypeOK, Phases, Exiting
<1>1. Busy' = Busy /\ Pending' = Pending
  BY SameReaders DEF CreateThread, CreateDies, InitCompletion
<1>2. CASE CreateThread
  <2>1. TypeOK' /\ CountInv' /\ TokensBounded'
    BY <1>1, <1>2 DEF CreateThread, CountInv, Taken, TokensBounded
  <2>2. ReadyInv' /\ ExitInv' /\ WaitInv'
    BY <1>2, MethodsAssumption DEF CreateThread, ReadyInv, ExitInv,
                                   NoReadInProgress, WaitInv
  <2> QED
    BY <2>1, <2>2
<1>3. CASE CreateDies
  BY <1>1, <1>3 DEF CreateDies, CountInv, Taken, TokensBounded, ReadyInv, ExitInv,
                    NoReadInProgress, WaitInv
<1>4. CASE InitCompletion
  <2>1. TypeOK' /\ CountInv' /\ TokensBounded'
    BY <1>1, <1>4 DEF InitCompletion, CountInv, Taken, TokensBounded
  <2>2. ReadyInv' /\ ExitInv'
    BY <1>4 DEF InitCompletion, ReadyInv, ExitInv, NoReadInProgress
  <2>3. WaitInv'
    BY <1>4 DEF InitCompletion, ReadyInv, WaitInv
  <2> QED
    BY <2>1, <2>2, <2>3
<1> QED
  BY <1>2, <1>3, <1>4

\* It is kept by wait_function, which uses completions up one by one.
LEMMA ThreadSteps == IInv /\ Thread => IInv'
<1> SUFFICES ASSUME IInv, Thread PROVE IInv'
  OBVIOUS
<1> USE Finite DEF IInv, TypeOK, Exiting
<1>1. UNCHANGED <<phase, method, ready, rpc, reads, wiped>>
  BY DEF Thread, Wait, Check, Count, Reset
<1>2. Busy' = Busy /\ Pending' = Pending
  BY <1>1, SameReaders
<1>3. CASE Wait
  BY <1>1, <1>2, <1>3 DEF Wait, CountInv, Taken, TokensBounded, ReadyInv, ExitInv,
                          NoReadInProgress, WaitInv
<1>4. CASE Check
  BY <1>1, <1>2, <1>4 DEF Check, CountInv, Taken, TokensBounded, ReadyInv, ExitInv,
                          NoReadInProgress, WaitInv
<1>5. CASE Count
  BY <1>1, <1>2, <1>5 DEF Count, CountInv, Taken, TokensBounded, ReadyInv, ExitInv,
                          NoReadInProgress, WaitInv
<1>6. CASE Reset
  BY <1>1, <1>2, <1>6 DEF Reset, CountInv, Taken, TokensBounded, ReadyInv, ExitInv,
                          NoReadInProgress, WaitInv
<1> QED
  BY <1>3, <1>4, <1>5, <1>6 DEF Thread

\* A read sets the flag: one more reader will complete.
LEMMA ReadSets == ASSUME NEW r \in Readers, IInv, ReadSet(r) PROVE IInv'
<1> USE Finite DEF IInv, TypeOK, ReadSet
<1>1. Busy' = Busy \cup {r} /\ r \notin Busy /\ Pending' = Pending
  BY DEF Busy, Pending
<1>2. Cardinality(Busy') = Cardinality(Busy) + 1
  BY <1>1, FS_AddElement
<1>3. TypeOK'
  <2>1. reads' \in 0..MaxReads
    BY MaxReadsAssumption
  <2>2. flag' \in 0..2 /\ rpc' \in [Readers -> {"out", "test", "lock", "complete", "oops"}]
    OBVIOUS
  <2> QED
    BY <2>1, <2>2, Zenon
<1>4. CountInv' /\ TokensBounded'
  BY <1>1, <1>2 DEF CountInv, Taken, TokensBounded, Exiting
<1>5. ReadyInv' /\ ExitInv' /\ WaitInv'
  BY DEF ReadyInv, ExitInv, NoReadInProgress, WaitInv, Exiting
<1> QED
  BY <1>3, <1>4, <1>5

\* It finds that nothing is completed, and there is room for one completion of
\* each reader; or it leaves it to the completion that is there.
LEMMA ReadTests == ASSUME NEW r \in Readers, IInv, ReadTest(r) PROVE IInv'
<1> USE Finite DEF IInv, TypeOK, ReadTest
<1>1. TypeOK' /\ ReadyInv' /\ ExitInv' /\ WaitInv'
  BY DEF ReadyInv, ExitInv, NoReadInProgress, WaitInv, Exiting
<1>2. /\ Cardinality(Busy') <= Cardinality(Busy)
      /\ Busy' \in SUBSET Busy
  <2>1. Busy' \in SUBSET Busy
    BY DEF Busy
  <2> QED
    BY <2>1, FS_Subset
<1>3. Cardinality(Busy') \in Nat
  BY <1>2, FS_Subset, FS_CardinalityType
<1>4. CountInv'
  BY <1>2, <1>3 DEF CountInv, Taken
<1>5. CASE done = 0
  <2>1. Pending' \in SUBSET Readers
    BY DEF Pending
  <2>2. Cardinality(Pending') \in Nat /\ Cardinality(Pending') <= Cardinality(Readers)
    BY <2>1, ReadersAssumption, FS_Subset, FS_CardinalityType
  <2> QED
    BY <1>1, <1>4, <1>5, <2>2 DEF TokensBounded, Exiting
<1>6. CASE done # 0
  <2>1. Pending' = Pending
    BY <1>6 DEF Pending
  <2> QED
    BY <1>1, <1>4, <2>1 DEF TokensBounded, Exiting
<1> QED
  BY <1>5, <1>6

\* It leaves the completion to be, once the spinlock lets it.
LEMMA ReadSkips == ASSUME NEW r \in Readers, IInv, ReadSkip(r) PROVE IInv'
<1> USE DEF IInv, TypeOK, ReadSkip
<1>1. Busy' = Busy /\ Pending' = Pending
  BY DEF Busy, Pending
<1>2. TypeOK' /\ CountInv' /\ TokensBounded'
  BY <1>1 DEF CountInv, Taken, TokensBounded, Exiting
<1>3. ReadyInv' /\ ExitInv' /\ WaitInv'
  BY DEF ReadyInv, ExitInv, NoReadInProgress, WaitInv, Exiting
<1> QED
  BY <1>2, <1>3

\* It completes, or dies on a completion that is all zeros.
LEMMA ReadCompletes == ASSUME NEW r \in Readers, IInv, ReadComplete(r) PROVE IInv'
<1> USE Finite DEF IInv, TypeOK, ReadComplete
<1>1. /\ Busy' = Busy \ {r} /\ r \in Busy
      /\ Pending' = Pending \ {r} /\ r \in Pending
  BY DEF Busy, Pending
<1>2. /\ Cardinality(Busy') = Cardinality(Busy) - 1
      /\ Cardinality(Pending') = Cardinality(Pending) - 1
  BY <1>1, FS_RemoveElement
<1>3. TypeOK'
  OBVIOUS
<1>4. ~Exiting
  BY DEF ExitInv, NoReadInProgress
<1>5. CountInv' /\ TokensBounded'
  BY <1>2, <1>4 DEF CountInv, Taken, TokensBounded, Exiting
<1>6. ReadyInv' /\ ExitInv' /\ WaitInv'
  BY <1>4 DEF ReadyInv, ExitInv, NoReadInProgress, WaitInv, Exiting
<1> QED
  BY <1>3, <1>5, <1>6

\* It is kept by the exit function, which completes only when nothing is.
LEMMA ExitSteps == IInv /\ (ExitFlag \/ ExitTest \/ ExitComplete) => IInv'
<1> SUFFICES ASSUME IInv, ExitFlag \/ ExitTest \/ ExitComplete PROVE IInv'
  OBVIOUS
<1> USE Finite DEF IInv, TypeOK, Phases, Exiting
<1>1. Busy' = Busy /\ Pending' = Pending
  BY SameReaders DEF ExitFlag, ExitTest, ExitComplete
<1>2. CASE ExitFlag
  BY <1>1, <1>2 DEF ExitFlag, CountInv, Taken, TokensBounded, ReadyInv, ExitInv,
                    NoReadInProgress, WaitInv
<1>3. CASE ExitTest
  BY <1>1, <1>3 DEF ExitTest, CountInv, Taken, TokensBounded, ReadyInv, ExitInv,
                    NoReadInProgress, WaitInv
<1>4. CASE ExitComplete
  BY <1>1, <1>4 DEF ExitComplete, CountInv, Taken, TokensBounded, ReadyInv, ExitInv,
                    NoReadInProgress, WaitInv
<1> QED
  BY <1>2, <1>3, <1>4

\* The strengthened invariant holds in every reachable state of the driver.
THEOREM Invariance == Spec => []IInv
<1>1. ASSUME IInv, [Next]_vars PROVE IInv'
  <2>1. CASE UNCHANGED vars
    BY <1>1, <2>1, SameReaders DEF vars, IInv, TypeOK, CountInv, Taken, TokensBounded,
                                   Exiting, ReadyInv, ExitInv,
                                   NoReadInProgress, WaitInv
  <2> QED
    BY <1>1, <2>1, InitSteps, ThreadSteps, ReadSets, ReadTests, ReadSkips, ReadCompletes,
       ExitSteps
    DEF Next
<1> QED
  BY <1>1, Start, PTL DEF Spec

-----------------------------------------------------------------------------
\* Every variable stays in its range.
THEOREM TypeCorrect == Spec => []TypeOK
BY Invariance, PTL DEF IInv

\* While the flag says that a read came, the thread will find a completion or a
\* living reader is still on its way to give one, unless init_completion took
\* back the completion of a reader that died and nobody has read since.
THEOREM Remembering == Spec => []NoReadForgotten
<1>1. IInv => NoReadForgotten
  BY DEF IInv, TypeOK, ExitInv, NoReadInProgress, WaitInv, NoReadForgotten
<1> QED
  BY <1>1, Invariance, PTL

\* The thread announces no more reads than there were, and the completions
\* that pile up are no more than the readers.
THEOREM Announcing == Spec => []AnnouncesReads
<1>1. IInv => AnnouncesReads
  BY Finite DEF IInv, TypeOK, CountInv, Taken, AnnouncesReads
<1> QED
  BY <1>1, Invariance, PTL
=============================================================================
