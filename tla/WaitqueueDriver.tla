--------------------------- MODULE WaitqueueDriver ---------------------------
(***************************************************************************)
(* The wait queue driver: a kernel thread sleeps on a wait queue until     *)
(* wait_queue_flag is set, by a read of the device file (1) or by the exit *)
(* function (2), counts the reads, and resets the flag.  Neither side      *)
(* takes a lock: the flag is tested and written in separate steps.         *)
(*                                                                         *)
(* The two methods of the repository differ in when the queue head becomes *)
(* valid: at compile time (static), or by init_waitqueue_head after the    *)
(* device file is already reachable (dynamic).                             *)
(*                                                                         *)
(* The registrations around this core are those of ModuleLifecycle.        *)
(***************************************************************************)
EXTENDS Naturals

CONSTANTS Readers,   \* processes that read the device file
          MaxReads,  \* bound on the number of reads
          Methods    \* subset of {"dynamic", "static"}

ASSUME MaxReadsAssumption == MaxReads \in Nat
ASSUME MethodsAssumption  == Methods \subseteq {"dynamic", "static"}

VARIABLES phase,       \* where init and exit are, "died" if insmod did
          queueReady,  \* the wait queue head is initialised
          flag,        \* wait_queue_flag
          pc,          \* where the thread is in wait_function
          queued,      \* the thread is on the wait queue, not runnable
          readCount,   \* read_count
          rpc,         \* where each reader is in dummy_read
          reads        \* history: reads that have set the flag

vars == <<phase, queueReady, flag, pc, queued, readCount, rpc, reads>>

-----------------------------------------------------------------------------
Init == /\ \E m \in Methods : /\ phase = IF m = "dynamic" THEN "initqueue" ELSE "create"
                              /\ queueReady = (m = "static")
        /\ flag = 0
        /\ pc = "none"
        /\ queued = FALSE
        /\ readCount = 0
        /\ rpc = [r \in Readers |-> "out"]
        /\ reads = 0

(* dummy_driver_init, once the device file exists.                         *)

\* Mutant: init also clears the flag.
InitQueueClears == /\ phase = "initqueue"
                   /\ phase' = "create"
                   /\ queueReady' = TRUE
                   /\ flag' = 0
                   /\ UNCHANGED <<pc, queued, readCount, rpc, reads>>

\* init_waitqueue_head, only in the dynamic method.
InitQueue == /\ phase = "initqueue"
             /\ phase' = "create"
             /\ queueReady' = TRUE
             /\ UNCHANGED <<flag, pc, queued, readCount, rpc, reads>>

\* kthread_create and wake_up_process.
CreateThread == /\ phase = "create"
                /\ phase' = "live"
                /\ pc' = "test"
                /\ UNCHANGED <<queueReady, flag, queued, readCount, rpc, reads>>

\* kthread_create fails with an error pointer, which the test for NULL takes for
\* a thread: insmod dies in wake_up_process.  The device file stays, and the
\* module can not be unloaded.
CreateDies == /\ phase = "create"
              /\ phase' = "died"
              /\ UNCHANGED <<queueReady, flag, pc, queued, readCount, rpc, reads>>

-----------------------------------------------------------------------------
(* wait_function; wait_event_interruptible tests, queues, tests again and  *)
(* sleeps until it is woken.                                               *)

Test == /\ pc = "test"
        /\ pc' = IF flag # 0 THEN "check" ELSE "prepare"
        /\ UNCHANGED <<phase, queueReady, flag, queued, readCount, rpc, reads>>

Prepare == /\ pc = "prepare"
           /\ queued' = TRUE
           /\ pc' = "retest"
           /\ UNCHANGED <<phase, queueReady, flag, readCount, rpc, reads>>

\* Mutant: no second test once on the queue.
RetestSkipped == /\ pc = "retest"
                 /\ pc' = "sleep"
                 /\ UNCHANGED <<phase, queueReady, flag, queued, readCount, rpc, reads>>

Retest == /\ pc = "retest"
          /\ IF flag # 0
             THEN pc' = "check" /\ queued' = FALSE
             ELSE pc' = "sleep" /\ UNCHANGED queued
          /\ UNCHANGED <<phase, queueReady, flag, readCount, rpc, reads>>

Woken == /\ pc = "sleep" /\ ~queued
         /\ pc' = "prepare"
         /\ UNCHANGED <<phase, queueReady, flag, queued, readCount, rpc, reads>>

Check == /\ pc = "check"
         /\ pc' = IF flag = 2 THEN "done" ELSE "count"
         /\ UNCHANGED <<phase, queueReady, flag, queued, readCount, rpc, reads>>

Count == /\ pc = "count"
         /\ readCount' = readCount + 1
         /\ pc' = "reset"
         /\ UNCHANGED <<phase, queueReady, flag, queued, rpc, reads>>

\* Mutant: the flag is not reset.
ResetForgotten == /\ pc = "reset"
                  /\ pc' = "test"
                  /\ UNCHANGED <<phase, queueReady, flag, queued, readCount, rpc, reads>>

Reset == /\ pc = "reset"
         /\ flag' = 0
         /\ pc' = "test"
         /\ UNCHANGED <<phase, queueReady, queued, readCount, rpc, reads>>

Thread == Test \/ Prepare \/ Retest \/ Woken \/ Check \/ Count \/ Reset

-----------------------------------------------------------------------------
(* dummy_read.                                                             *)

ReadSet(r) == /\ phase \in {"initqueue", "create", "live", "died"}
              /\ rpc[r] = "out" /\ reads < MaxReads
              /\ flag' = 1
              /\ reads' = reads + 1
              /\ rpc' = [rpc EXCEPT ![r] = "wake"]
              /\ UNCHANGED <<phase, queueReady, pc, queued, readCount>>

\* wake_up_interruptible takes the waiter off the queue.  On a queue head
\* that was never initialised it follows a null pointer: the reader dies,
\* holding the lock of the queue.  Another reader then dies too, or takes this
\* step after init_waitqueue_head, as it would when it spins on that lock.
ReadWake(r) == /\ rpc[r] = "wake"
               /\ rpc' = [rpc EXCEPT ![r] = IF queueReady THEN "out" ELSE "oops"]
               /\ queued' = FALSE
               /\ UNCHANGED <<phase, queueReady, flag, pc, readCount, reads>>

-----------------------------------------------------------------------------
(* dummy_driver_exit; the kernel refuses it while a read is in progress.   *)
(* A reader that died is not: the kernel has closed its file.              *)

NoReadInProgress == \A r \in Readers : rpc[r] \in {"out", "oops"}

\* Mutant: the flag is a sum of bits.
ExitFlagAdded == /\ phase = "live"
                 /\ NoReadInProgress
                 /\ flag' = flag + 2
                 /\ phase' = "exitwake"
                 /\ UNCHANGED <<queueReady, pc, queued, readCount, rpc, reads>>

ExitFlag == /\ phase = "live"
            /\ NoReadInProgress
            /\ flag' = 2
            /\ phase' = "exitwake"
            /\ UNCHANGED <<queueReady, pc, queued, readCount, rpc, reads>>

\* Mutant: exit sets the flag only.
ExitNoWake == /\ phase = "exitwake"
              /\ phase' = "unloaded"
              /\ UNCHANGED <<queueReady, flag, pc, queued, readCount, rpc, reads>>

\* The wake-up, and the rest of the exit function: nothing waits for the
\* thread before the module is freed.
ExitWake == /\ phase = "exitwake"
            /\ queued' = FALSE
            /\ phase' = "unloaded"
            /\ UNCHANGED <<queueReady, flag, pc, readCount, rpc, reads>>

-----------------------------------------------------------------------------
Next == \/ InitQueue \/ CreateThread \/ CreateDies \/ Thread \/ ExitFlag \/ ExitWake
        \/ \E r \in Readers : ReadSet(r) \/ ReadWake(r)

Spec == Init /\ [][Next]_vars

\* A runnable thread, and a system call or exit function once entered, are
\* eventually scheduled; nobody has to read or to unload.
FairSpec == /\ Spec
            /\ WF_vars(Thread) /\ WF_vars(ExitWake)
            /\ WF_vars(InitQueue) /\ WF_vars(CreateThread \/ CreateDies)
            /\ \A r \in Readers : WF_vars(ReadWake(r))

-----------------------------------------------------------------------------
Phases == {"initqueue", "create", "live", "exitwake", "unloaded", "died"}
ThreadPcs == {"none", "test", "prepare", "retest", "sleep", "check", "count",
              "reset", "done"}

\* Every variable stays in its range.
TypeOK == /\ phase \in Phases
          /\ queueReady \in BOOLEAN
          /\ flag \in 0..2
          /\ pc \in ThreadPcs
          /\ queued \in BOOLEAN
          /\ readCount \in Nat
          /\ rpc \in [Readers -> {"out", "wake", "oops"}]
          /\ reads \in 0..MaxReads

\* No wake-up is lost between the unlocked test of the flag and the sleep: the
\* thread sleeps beside a set flag only while whoever set it has yet to call
\* wake_up_interruptible.
NoLostWakeup ==
  pc = "sleep" /\ queued /\ flag # 0 =>
    phase = "exitwake" \/ \E r \in Readers : rpc[r] = "wake"

\* The thread announces at most one event per read, although the flag is
\* written by readers, the thread and the exit function without a lock
\* ("Event Came From Read Function").
CountsOnlyReads == readCount <= reads

\* wait_function returns only when the exit function has run, never because
\* of reads.
LeavesOnlyOnExit == pc = "done" => phase \in {"exitwake", "unloaded"}

\* A reader that dies in wake_up_interruptible, on the queue head of the dynamic
\* method, does not take its read with it.  The flag it set outlasts
\* init_waitqueue_head and the start of the thread, which tests it before it
\* sleeps: the thread announces a read, or finds that exit has taken the flag.
DeadReadIsKept ==
  (\E r \in Readers : rpc[r] = "oops") =>
    /\ "dynamic" \in Methods
    /\ IF pc = "none" THEN flag = 1 ELSE flag # 0 \/ readCount > 0

\* A read that set the flag is answered: the thread resets the flag, or the
\* exit function replaces it.  So is the read of a process that died in waking
\* the queue: it is announced by the thread that is started afterwards, which
\* nobody woke, unless the exit flag comes first.
ReadIsNoticed ==
  /\ flag = 1 /\ pc # "none" ~> flag # 1
  /\ (\E r \in Readers : rpc[r] = "oops") /\ pc # "none" ~> readCount > 0 \/ flag = 2

\* The exit notification reaches the thread unless it falls between the
\* thread's test for 2 and its reset of the flag.
ExitSeenOutsideWindow ==
  flag = 2 /\ pc \notin {"none", "count", "reset"} ~> pc = "done"

\* What the comment above init promises of every exit: "If it is from the exit
\* function, it will exit from the thread."
ExitEndsThread == phase = "unloaded" /\ pc # "none" ~> pc = "done"
=============================================================================
