------------------------ MODULE WaitqueueDriverProofs ------------------------
(***************************************************************************)
(* What WaitqueueDriver promises, for every set of readers, every number   *)
(* of reads and both methods.                                              *)
(***************************************************************************)
EXTENDS WaitqueueDriver, TLAPS

\* A read the thread has not counted yet but may still count.  A flag that is
\* set beside a thread about to reset it will be overwritten.
Owed == IF (flag = 1 /\ pc # "reset") \/ pc = "count" THEN 1 ELSE 0

CountInv == readCount + Owed <= reads

\* The thread looks at the flag a third time only when it was set, and only the
\* thread clears it, after it has counted; there is a thread exactly when init
\* has created it.
FlagInv == /\ pc = "check" => flag # 0
           /\ flag = 2 => phase \in {"exitwake", "unloaded"}
           /\ pc = "done" => phase \in {"exitwake", "unloaded"}
           /\ phase \in {"initqueue", "create", "died"} <=> pc = "none"
           /\ pc = "reset" => readCount > 0

\* The queue head is not initialised only before init_waitqueue_head.
QueueInv == ~queueReady => "dynamic" \in Methods /\ phase = "initqueue"

\* A reader that will wake a thread which is not there yet has left the flag.
WakeInv == pc = "none" /\ (\E r \in Readers : rpc[r] = "wake") => flag = 1

IInv == /\ TypeOK /\ NoLostWakeup /\ DeadReadIsKept
        /\ CountInv /\ FlagInv /\ QueueInv /\ WakeInv

-----------------------------------------------------------------------------
\* Nothing has been read when the device file becomes reachable.
LEMMA Start == Init => IInv
<1> SUFFICES ASSUME Init PROVE IInv
  OBVIOUS
<1>1. TypeOK
  <2>1. phase \in Phases /\ queueReady \in BOOLEAN
    BY DEF Init, Phases
  <2>2. flag \in 0..2 /\ readCount \in Nat /\ reads \in 0..MaxReads
    BY MaxReadsAssumption DEF Init
  <2>3. pc \in ThreadPcs /\ queued \in BOOLEAN
    BY DEF Init, ThreadPcs
  <2>4. rpc \in [Readers -> {"out", "wake", "oops"}]
    BY DEF Init
  <2> QED
    BY <2>1, <2>2, <2>3, <2>4 DEF TypeOK
<1>2. NoLostWakeup /\ CountInv /\ FlagInv
  BY DEF Init, NoLostWakeup, CountInv, Owed, FlagInv
<1>3. QueueInv /\ WakeInv /\ DeadReadIsKept
  BY MethodsAssumption DEF Init, QueueInv, WakeInv, DeadReadIsKept
<1> QED
  BY <1>1, <1>2, <1>3 DEF IInv

\* The invariant is kept by init: the queue head and the thread.
LEMMA InitSteps == IInv /\ (InitQueue \/ CreateThread \/ CreateDies) => IInv'
<1> SUFFICES ASSUME IInv, InitQueue \/ CreateThread \/ CreateDies PROVE IInv'
  OBVIOUS
<1> USE DEF IInv, TypeOK
<1>1. CASE InitQueue
  BY <1>1 DEF InitQueue, Phases, NoLostWakeup, CountInv, Owed, FlagInv, QueueInv,
              WakeInv, DeadReadIsKept
<1>2. CASE CreateThread
  BY <1>2 DEF CreateThread, Phases, ThreadPcs, NoLostWakeup, CountInv, Owed, FlagInv,
              QueueInv, WakeInv, DeadReadIsKept
<1>3. CASE CreateDies
  BY <1>3 DEF CreateDies, Phases, NoLostWakeup, CountInv, Owed, FlagInv, QueueInv,
              WakeInv, DeadReadIsKept
<1> QED
  BY <1>1, <1>2, <1>3

\* It is kept by wait_function.
LEMMA ThreadSteps == IInv /\ Thread => IInv'
<1> SUFFICES ASSUME IInv, Thread PROVE IInv'
  OBVIOUS
<1> USE DEF IInv, TypeOK, ThreadPcs
<1>0. UNCHANGED <<phase, queueReady, rpc, reads>>
  BY DEF Thread, Test, Prepare, Retest, Woken, Check, Count, Reset
<1>1. QueueInv' /\ WakeInv'
  <2>1. pc # "none" /\ pc' # "none"
    BY DEF Thread, Test, Prepare, Retest, Woken, Check, Count, Reset
  <2> QED
    BY <1>0, <2>1 DEF QueueInv, WakeInv
<1>2. CASE Test
  BY <1>0, <1>1, <1>2 DEF Test, NoLostWakeup, CountInv, Owed, FlagInv, DeadReadIsKept
<1>3. CASE Prepare
  BY <1>0, <1>1, <1>3 DEF Prepare, NoLostWakeup, CountInv, Owed, FlagInv, DeadReadIsKept
<1>4. CASE Retest
  BY <1>0, <1>1, <1>4 DEF Retest, NoLostWakeup, CountInv, Owed, FlagInv, DeadReadIsKept
<1>5. CASE Woken
  BY <1>0, <1>1, <1>5 DEF Woken, NoLostWakeup, CountInv, Owed, FlagInv, DeadReadIsKept
<1>6. CASE Check
  BY <1>0, <1>1, <1>6 DEF Check, NoLostWakeup, CountInv, Owed, FlagInv, DeadReadIsKept
<1>7. CASE Count
  BY <1>0, <1>1, <1>7 DEF Count, NoLostWakeup, CountInv, Owed, FlagInv, DeadReadIsKept
<1>8. CASE Reset
  BY <1>0, <1>1, <1>8 DEF Reset, NoLostWakeup, CountInv, Owed, FlagInv, DeadReadIsKept
<1> QED
  BY <1>2, <1>3, <1>4, <1>5, <1>6, <1>7, <1>8 DEF Thread

\* It is kept by dummy_read.
LEMMA ReaderSteps ==
  ASSUME NEW r \in Readers, IInv, ReadSet(r) \/ ReadWake(r)
  PROVE  IInv'
<1> USE MaxReadsAssumption DEF IInv, TypeOK
<1>1. CASE ReadSet(r)
  <2>1. TypeOK'
    BY <1>1 DEF ReadSet
  <2>2. NoLostWakeup'
    BY <1>1 DEF ReadSet, NoLostWakeup
  <2>3. CountInv'
    BY <1>1 DEF ReadSet, CountInv, Owed
  <2>4. FlagInv' /\ QueueInv'
    BY <1>1 DEF ReadSet, FlagInv, QueueInv
  <2>5. WakeInv' /\ DeadReadIsKept'
    BY <1>1 DEF ReadSet, WakeInv, DeadReadIsKept
  <2> QED
    BY <2>1, <2>2, <2>3, <2>4, <2>5
<1>2. CASE ReadWake(r)
  <2>1. TypeOK'
    BY <1>2 DEF ReadWake
  <2>2. NoLostWakeup' /\ CountInv' /\ FlagInv' /\ QueueInv'
    BY <1>2 DEF ReadWake, NoLostWakeup, CountInv, Owed, FlagInv, QueueInv
  <2>3. WakeInv'
    BY <1>2 DEF ReadWake, WakeInv
  <2>4. DeadReadIsKept'
    BY <1>2 DEF ReadWake, DeadReadIsKept, QueueInv, FlagInv, WakeInv
  <2> QED
    BY <2>1, <2>2, <2>3, <2>4
<1> QED
  BY <1>1, <1>2

\* It is kept by the exit function, which replaces the flag a dead reader left.
LEMMA ExitSteps == IInv /\ (ExitFlag \/ ExitWake) => IInv'
<1> SUFFICES ASSUME IInv, ExitFlag \/ ExitWake PROVE IInv'
  OBVIOUS
<1> USE DEF IInv, TypeOK, Phases
<1>1. CASE ExitFlag
  BY <1>1 DEF ExitFlag, NoLostWakeup, CountInv, Owed, FlagInv, QueueInv, WakeInv,
              DeadReadIsKept
<1>2. CASE ExitWake
  BY <1>2 DEF ExitWake, NoReadInProgress, NoLostWakeup, CountInv, Owed, FlagInv, QueueInv,
              WakeInv, DeadReadIsKept
<1> QED
  BY <1>1, <1>2

\* The strengthened invariant holds in every reachable state of the driver.
THEOREM Invariance == Spec => []IInv
<1>1. ASSUME IInv, [Next]_vars PROVE IInv'
  <2>1. CASE UNCHANGED vars
    BY <1>1, <2>1 DEF vars, IInv, TypeOK, NoLostWakeup, CountInv, Owed, FlagInv,
                      QueueInv, WakeInv, DeadReadIsKept
  <2> QED
    BY <1>1, <2>1, InitSteps, ThreadSteps, ReaderSteps, ExitSteps DEF Next
<1> QED
  BY <1>1, Start, PTL DEF Spec

-----------------------------------------------------------------------------
\* Every variable stays in its range.
THEOREM TypeCorrect == Spec => []TypeOK
BY Invariance, PTL DEF IInv

\* The thread never sleeps beside a set flag without a wake-up to come.
THEOREM WakeupNotLost == Spec => []NoLostWakeup
BY Invariance, PTL DEF IInv

\* However reads, the thread and exit overlap on the flag, no read is counted
\* twice.
THEOREM Counting == Spec => []CountsOnlyReads
<1>1. IInv => CountsOnlyReads
  BY DEF IInv, TypeOK, CountInv, Owed, CountsOnlyReads
<1> QED
  BY <1>1, Invariance, PTL

\* wait_function returns only after the exit function has begun.
THEOREM Leaving == Spec => []LeavesOnlyOnExit
<1>1. IInv => LeavesOnlyOnExit
  BY DEF IInv, FlagInv, LeavesOnlyOnExit
<1> QED
  BY <1>1, Invariance, PTL

\* A reader that dies on the queue head of the dynamic method leaves its read
\* for the thread.
THEOREM DeadReads == Spec => []DeadReadIsKept
BY Invariance, PTL DEF IInv
=============================================================================
