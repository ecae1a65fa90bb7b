----------------------------- MODULE KthreadLocks -----------------------------
(***************************************************************************)
(* The drivers that start kernel threads sharing dummy_global_variable:    *)
(*                                                                         *)
(*   "kthread"   one thread, nothing shared                                *)
(*   "mutex"     mutex_init before the threads are started                 *)
(*   "spinlock"  DEFINE_SPINLOCK, and spin_lock_init once more after the   *)
(*               threads have been started                                 *)
(*   "rwlock"    DEFINE_RWLOCK; thread 1 writes, the others read           *)
(*   "atomic"    atomic_inc and test_and_change_bit, no lock               *)
(*                                                                         *)
(* init starts the threads one after the other, the threads loop until     *)
(* kthread_should_stop, exit stops and joins them one after the other.  A  *)
(* thread that cannot be created is an error pointer, which init compares  *)
(* with NULL and takes for a thread.                                       *)
(* dummy_global_variable++ is a load and a store.  The registrations       *)
(* around the threads are those of ModuleLifecycle.                        *)
(***************************************************************************)
EXTENDS Integers, FiniteSets

CONSTANTS N,        \* threads of a driver, 2 in the code
          Modulus,  \* number of values of dummy_global_variable
          Drivers   \* the drivers explored

ASSUME NAssumption       == N \in Nat \ {0}
ASSUME ModulusAssumption == Modulus \in Nat \ {0}
ASSUME DriversAssumption ==
  Drivers \subseteq {"kthread", "mutex", "spinlock", "rwlock", "atomic"}

Threads == 1..N

VARIABLES driver,
          phase,      \* of the module: "lockinit", "spawn", "live", "stopping",
                      \* "unloaded", or "died" (insmod or rmmod followed an
                      \* error pointer)
          turn,       \* the thread init starts next, or exit stops next
          pc,         \* where each thread is in its thread function, "missing"
                      \* when its pointer is an error
          stop,       \* kthread_should_stop() of each thread
          lock,       \* -1 held exclusively, 0 free, k > 0 held by k readers
          counter,    \* dummy_global_variable
          bit,        \* bit 1 of etc_bit_check
          tmp,        \* the value each thread has loaded
          clobbered   \* history: spin_lock_init hit a lock that was held

vars == <<driver, phase, turn, pc, stop, lock, counter, bit, tmp, clobbered>>
threadless == <<driver, phase, turn, stop, clobbered>>

-----------------------------------------------------------------------------
Succ(v) == IF v = Modulus - 1 THEN 0 ELSE v + 1

\* The number of threads the driver starts.
Last == IF driver = "kthread" THEN 1 ELSE N

Reads(t) == driver = "rwlock" /\ t # 1

Init == /\ driver \in Drivers
        /\ phase = IF driver = "mutex" THEN "lockinit" ELSE "spawn"
        /\ turn = 1
        /\ pc = [t \in Threads |-> "none"]
        /\ stop = [t \in Threads |-> FALSE]
        /\ lock = 0
        /\ counter = 0
        /\ bit = 0
        /\ tmp = [t \in Threads |-> 0]
        /\ clobbered = FALSE

-----------------------------------------------------------------------------
(* dummy_driver_init                                                       *)

\* mutex_init before the first thread, spin_lock_init after the last: the
\* lock becomes free whoever holds it.
LockInit == /\ phase = "lockinit"
            /\ lock' = 0
            /\ clobbered' = (clobbered \/ lock # 0)
            /\ phase' = IF driver = "mutex" THEN "spawn" ELSE "live"
            /\ UNCHANGED <<driver, turn, pc, stop, counter, bit, tmp>>

\* init goes on to its next statement.
SpawnNext == /\ turn' = IF turn = Last THEN 1 ELSE turn + 1
             /\ phase' = IF turn # Last THEN "spawn"
                         ELSE IF driver = "spinlock" THEN "lockinit" ELSE "live"
             /\ UNCHANGED <<driver, stop, lock, counter, bit, tmp, clobbered>>

\* kthread_run: the thread exists and will be scheduled some time.
Spawn == /\ phase = "spawn"
         /\ pc' = [pc EXCEPT ![turn] = "created"]
         /\ SpawnNext

\* kthread_run fails with an error pointer, which is not NULL: init goes on.
SpawnMissed == /\ phase = "spawn" /\ driver # "kthread"
               /\ pc' = [pc EXCEPT ![turn] = "missing"]
               /\ SpawnNext

\* The thread driver wakes what kthread_create returned: insmod dies on it.
SpawnDies == /\ phase = "spawn" /\ driver = "kthread"
             /\ pc' = [pc EXCEPT ![turn] = "missing"]
             /\ phase' = "died"
             /\ UNCHANGED <<driver, turn, stop, lock, counter, bit, tmp, clobbered>>

-----------------------------------------------------------------------------
(* thread_function1, thread_function2                                      *)

Goto(t, l) == pc' = [pc EXCEPT ![t] = l]

\* First scheduled; a thread stopped before that never enters its function.
Start(t) == /\ pc[t] = "created"
            /\ Goto(t, IF stop[t] THEN "done" ELSE "loop")
            /\ UNCHANGED <<threadless, lock, counter, bit, tmp>>

\* Mutant: the loop does not look at kthread_should_stop.
LoopForever(t) == /\ pc[t] = "loop"
                  /\ Goto(t, CASE driver = "kthread" -> "sleep"
                               [] driver = "atomic"  -> "inc"
                               [] OTHER              -> "acquire")
                  /\ UNCHANGED <<threadless, lock, counter, bit, tmp>>

Loop(t) == /\ pc[t] = "loop"
           /\ Goto(t, IF stop[t] THEN "done"
                      ELSE CASE driver = "kthread" -> "sleep"
                             [] driver = "atomic"  -> "inc"
                             [] OTHER              -> "acquire")
           /\ UNCHANGED <<threadless, lock, counter, bit, tmp>>

\* Mutant: a reader does not wait for the writer.
AcquireReadAtOnce(t) == /\ pc[t] = "acquire"
                        /\ IF Reads(t) THEN lock' = lock + 1
                                       ELSE lock = 0 /\ lock' = -1
                        /\ Goto(t, "load")
                        /\ UNCHANGED <<threadless, counter, bit, tmp>>

\* Mutant: a writer does not wait for the readers.
AcquireOverReaders(t) == /\ pc[t] = "acquire"
                         /\ lock >= 0
                         /\ lock' = IF Reads(t) THEN lock + 1 ELSE -1
                         /\ Goto(t, "load")
                         /\ UNCHANGED <<threadless, counter, bit, tmp>>

\* mutex_lock, spin_lock, write_lock; read_lock.
Acquire(t) == /\ pc[t] = "acquire"
              /\ IF Reads(t) THEN lock >= 0 /\ lock' = lock + 1
                             ELSE lock = 0 /\ lock' = -1
              /\ Goto(t, "load")
              /\ UNCHANGED <<threadless, counter, bit, tmp>>

Load(t) == /\ pc[t] = "load"
           /\ tmp' = [tmp EXCEPT ![t] = counter]
           /\ Goto(t, IF Reads(t) THEN "release" ELSE "store")
           /\ UNCHANGED <<threadless, lock, counter, bit>>

Store(t) == /\ pc[t] = "store"
            /\ counter' = Succ(tmp[t])
            /\ tmp' = [tmp EXCEPT ![t] = Succ(tmp[t])]
            /\ Goto(t, "release")
            /\ UNCHANGED <<threadless, lock, bit>>

\* Mutant: read_unlock after write_lock.
ReleaseAsReader(t) == /\ pc[t] = "release"
                      /\ lock' = lock - 1
                      /\ Goto(t, "sleep")
                      /\ UNCHANGED <<threadless, counter, bit, tmp>>

\* mutex_unlock, spin_unlock, write_unlock; read_unlock.
Release(t) == /\ pc[t] = "release"
              /\ lock' = IF Reads(t) THEN lock - 1 ELSE 0
              /\ Goto(t, "sleep")
              /\ UNCHANGED <<threadless, counter, bit, tmp>>

\* Mutant: the thread counts on its own and publishes the result.
PublishInc(t) == /\ pc[t] = "inc"
                 /\ counter' = Succ(tmp[t])
                 /\ tmp' = [tmp EXCEPT ![t] = Succ(tmp[t])]
                 /\ Goto(t, "flip")
                 /\ UNCHANGED <<threadless, lock, bit>>

AtomicInc(t) == /\ pc[t] = "inc"
                /\ counter' = Succ(counter)
                /\ Goto(t, "flip")
                /\ UNCHANGED <<threadless, lock, bit, tmp>>

\* test_and_change_bit
FlipBit(t) == /\ pc[t] = "flip"
              /\ bit' = 1 - bit
              /\ Goto(t, "sleep")
              /\ UNCHANGED <<threadless, lock, counter, tmp>>

\* msleep(1000) ends; being asked to stop does not shorten it.
Wake(t) == /\ pc[t] = "sleep"
           /\ Goto(t, "loop")
           /\ UNCHANGED <<threadless, lock, counter, bit, tmp>>

Thread(t) == \/ Start(t) \/ Loop(t) \/ Acquire(t) \/ Load(t) \/ Store(t)
             \/ Release(t) \/ AtomicInc(t) \/ FlipBit(t) \/ Wake(t)

-----------------------------------------------------------------------------
(* dummy_driver_exit                                                       *)

Rmmod == /\ phase = "live"
         /\ phase' = "stopping"
         /\ UNCHANGED <<driver, turn, pc, stop, lock, counter, bit, tmp, clobbered>>

\* kthread_stop: ask, then wait for the thread function to return.
AskStop == /\ phase = "stopping" /\ ~stop[turn] /\ pc[turn] # "missing"
           /\ stop' = [stop EXCEPT ![turn] = TRUE]
           /\ UNCHANGED <<driver, phase, turn, pc, lock, counter, bit, tmp, clobbered>>

\* Mutant: exit asks the thread to stop and does not wait for it.
NotJoined == /\ phase = "stopping" /\ stop[turn]
             /\ turn' = IF turn = Last THEN turn ELSE turn + 1
             /\ phase' = IF turn = Last THEN "unloaded" ELSE "stopping"
             /\ UNCHANGED <<driver, pc, stop, lock, counter, bit, tmp, clobbered>>

Joined == /\ phase = "stopping" /\ stop[turn] /\ pc[turn] = "done"
          /\ turn' = IF turn = Last THEN turn ELSE turn + 1
          /\ phase' = IF turn = Last THEN "unloaded" ELSE "stopping"
          /\ UNCHANGED <<driver, pc, stop, lock, counter, bit, tmp, clobbered>>

\* kthread_stop follows an error pointer: rmmod dies, and the threads it had not
\* come to run on.
StopDies == /\ phase = "stopping" /\ pc[turn] = "missing"
            /\ phase' = "died"
            /\ UNCHANGED <<driver, turn, pc, stop, lock, counter, bit, tmp, clobbered>>

-----------------------------------------------------------------------------
Next == \/ LockInit \/ Spawn \/ SpawnMissed \/ SpawnDies
        \/ Rmmod \/ AskStop \/ Joined \/ StopDies
        \/ \E t \in Threads : Thread(t)

Spec == Init /\ [][Next]_vars

\* Threads and the exit function are scheduled.  mutex_lock and the queued
\* spinlocks serve their waiters in order, so a waiter that finds the lock
\* free again and again gets it.
FairSpec == /\ Spec
            /\ WF_vars(AskStop) /\ WF_vars(Joined) /\ WF_vars(StopDies)
            /\ \A t \in Threads : WF_vars(Thread(t)) /\ SF_vars(Acquire(t))

-----------------------------------------------------------------------------
Phases == {"lockinit", "spawn", "live", "stopping", "unloaded", "died"}
Pcs == {"none", "missing", "created", "loop", "acquire", "load", "store", "release",
        "inc", "flip", "sleep", "done"}

\* Every variable stays in its range.
TypeOK == /\ driver \in Drivers
          /\ phase \in Phases
          /\ turn \in Threads
          /\ pc \in [Threads -> Pcs]
          /\ stop \in [Threads -> BOOLEAN]
          /\ lock \in -1..N
          /\ counter \in 0..(Modulus - 1)
          /\ bit \in 0..1
          /\ tmp \in [Threads -> 0..(Modulus - 1)]
          /\ clobbered \in BOOLEAN

InSection(t) == pc[t] \in {"load", "store", "release"}
Writers == {t \in Threads : InSection(t) /\ ~Reads(t)}
ReadersIn == {t \in Threads : InSection(t) /\ Reads(t)}

\* Whoever updates dummy_global_variable under a lock is alone in the critical
\* section, readers of the rwlock included.  The one thing that breaks this is
\* the spin_lock_init that comes after the threads, when it hits a held lock.
MutualExclusion ==
  ~clobbered => \A t \in Writers, u \in Threads : InSection(u) => u = t

\* Only the spinlock driver re-initialises its lock while threads run.
OnlySpinlockClobbers == clobbered => driver = "spinlock"

\* The value a thread prints before it gives the lock back is the current one:
\* no thread changes the variable under it.
PrintsCurrentValue ==
  ~clobbered => \A t \in Threads : pc[t] = "release" => tmp[t] = counter

\* After the exit function no thread is left in the module's code.
NoThreadOutlivesExit ==
  phase = "unloaded" => \A t \in Threads : pc[t] \in {"none", "done"}

\* insmod and rmmod die only on the error pointer of a thread that could not be
\* created.  An rmmod that does has ended the threads in front of it; those
\* behind it run on, and nobody is left to ask them to stop.
DiesOnMissing ==
  phase = "died" =>
    /\ pc[turn] = "missing"
    /\ \A t \in Threads : t < turn => pc[t] = "done"
    /\ \A t \in turn + 1..Last : pc[t] # "done" /\ ~stop[t]

\* Every thread of the atomic driver adds one and then flips the bit: the two
\* agree on parity up to the threads that are between the two operations.
BitFollowsCounter ==
  driver = "atomic" =>
    (counter - Cardinality({t \in Threads : pc[t] = "flip"}) - bit) % 2 = 0

\* rmmod ends: each thread in turn notices that it shall stop, even one that
\* is waiting for the lock.  It dies instead when a thread is missing, and only
\* then.
StopEnds ==
  phase = "stopping" ~>
    phase = IF \E t \in Threads : pc[t] = "missing" THEN "died" ELSE "unloaded"

-----------------------------------------------------------------------------
(* The drivers implement SharedCounter unless the lock was clobbered: each  *)
(* store adds one to the value as it is at that moment, and none follows    *)
(* the exit function.                                                       *)
Counter == INSTANCE SharedCounter
             WITH value  <- counter,
                  active <- {t \in Threads : pc[t] \notin {"none", "missing", "done"}},
                  loaded <- (phase # "unloaded")

\* As long as spin_lock_init has not hit a held lock, every step is one the
\* shared counter allows: no update is lost, none comes from a thread that has
\* ended, none after the module is gone.
ImplementsCounter == Counter!Init /\ [][~clobbered => Counter!Next]_Counter!vars
=============================================================================
