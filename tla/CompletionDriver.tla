--------------------------- MODULE CompletionDriver ---------------------------
(***************************************************************************)
(* The completion driver: the thread of the wait queue driver, waiting on  *)
(* a struct completion instead.  A read and the exit function write        *)
(* completion_flag and then call complete unless completion_done already   *)
(* holds; the test and the call are separate steps.                        *)
(*                                                                         *)
(* In the static method the completion is valid at compile time, in the    *)
(* dynamic one init_completion runs after the thread has been started.     *)
(*                                                                         *)
(* The completion itself is the kernel's: a counter under its own spinlock *)
(* with a list of waiters, so that waiting and completing are atomic.      *)
(***************************************************************************)
EXTENDS Naturals, FiniteSets

CONSTANTS Readers,   \* processes that read the device file
          MaxReads,  \* bound on the number of reads
          Methods    \* subset of {"dynamic", "static"}

ASSUME ReadersAssumption  == IsFiniteSet(Readers)
ASSUME MaxReadsAssumption == MaxReads \in Nat
ASSUME MethodsAssumption  == Methods \subseteq {"dynamic", "static"}

VARIABLES phase,      \* where init and exit are, "died" if insmod did
          method,     \* how data_read_done is initialised
          ready,      \* data_read_done is initialised
          done,       \* data_read_done.done
          flag,       \* completion_flag
          pc,         \* where the thread is in wait_function
          readCount,  \* read_count
          rpc,        \* where each reader is in dummy_read
          reads,      \* history: reads that have set the flag
          wiped       \* history: no read since init_completion took a completion back

vars == <<phase, method, ready, done, flag, pc, readCount, rpc, reads, wiped>>

-----------------------------------------------------------------------------
Init == /\ phase = "create"
        /\ method \in Methods
        /\ ready = (method = "static")
        /\ done = 0
        /\ flag = 0
        /\ pc = "none"
        /\ readCount = 0
        /\ rpc = [r \in Readers |-> "out"]
        /\ reads = 0
        /\ wiped = FALSE

(* dummy_driver_init, once the device file exists.                         *)

\* kthread_create and wake_up_process.
CreateThread == /\ phase = "create"
                /\ phase' = IF method = "dynamic" THEN "initcomp" ELSE "live"
                /\ pc' = "wait"
                /\ UNCHANGED <<method, ready, done, flag, readCount, rpc, reads, wiped>>

\* kthread_create fails with an error pointer, which the test for NULL takes for
\* a thread: insmod dies in wake_up_process.  The device file stays, and the
\* module can not be unloaded.
CreateDies == /\ phase = "create"
              /\ phase' = "died"
              /\ UNCHANGED <<method, ready, done, flag, pc, readCount, rpc, reads, wiped>>

\* init_completion, after the thread was started (dynamic method only), forgets
\* what is completed and who holds the spinlock.
InitCompletion == /\ phase = "initcomp"
                  /\ phase' = "live"
                  /\ ready' = TRUE
                  /\ done' = 0
                  /\ wiped' = (done # 0)
                  /\ UNCHANGED <<method, flag, pc, readCount, rpc, reads>>

-----------------------------------------------------------------------------
(* The completion.  On one that is still all zeros, the caller that reaches *)
(* the waiter list follows a null pointer and dies holding the spinlock,    *)
(* which stays taken until init_completion overwrites it.  complete has     *)
(* raised done by then.                                                     *)

SpinlockDead == ~ready /\ (pc = "oops" \/ \E r \in Readers : rpc[r] = "oops")

\* Mutant: the wait does not use the completion up, as after complete_all.
WaitKeepingDone == /\ pc = "wait"
                   /\ ~SpinlockDead
                   /\ \/ ready /\ done > 0 /\ pc' = "check"
                      \/ ~ready /\ pc' = "oops"
                   /\ UNCHANGED <<phase, method, ready, done, flag, readCount, rpc, reads, wiped>>

\* wait_for_completion returns.
Wait == /\ pc = "wait"
        /\ ~SpinlockDead
        /\ \/ ready /\ done > 0 /\ done' = done - 1 /\ pc' = "check"
           \/ ~ready /\ pc' = "oops" /\ UNCHANGED done
        /\ UNCHANGED <<phase, method, ready, flag, readCount, rpc, reads, wiped>>

Check == /\ pc = "check"
         /\ pc' = IF flag = 2 THEN "done" ELSE "count"
         /\ UNCHANGED <<phase, method, ready, done, flag, readCount, rpc, reads, wiped>>

Count == /\ pc = "count"
         /\ readCount' = readCount + 1
         /\ pc' = "reset"
         /\ UNCHANGED <<phase, method, ready, done, flag, rpc, reads, wiped>>

Reset == /\ pc = "reset"
         /\ flag' = 0
         /\ pc' = "wait"
         /\ UNCHANGED <<phase, method, ready, done, readCount, rpc, reads, wiped>>

Thread == Wait \/ Check \/ Count \/ Reset

-----------------------------------------------------------------------------
(* dummy_read.                                                             *)

ReadSet(r) == /\ phase \in {"create", "initcomp", "live", "died"}
              /\ rpc[r] = "out" /\ reads < MaxReads
              /\ flag' = 1
              /\ reads' = reads + 1
              /\ rpc' = [rpc EXCEPT ![r] = "test"]
              /\ wiped' = FALSE
              /\ UNCHANGED <<phase, method, ready, done, pc, readCount>>

\* completion_done looks at done; it takes the spinlock before it answers yes.
ReadTest(r) == /\ rpc[r] = "test"
               /\ rpc' = [rpc EXCEPT ![r] = IF done = 0 THEN "complete" ELSE "lock"]
               /\ UNCHANGED <<phase, method, ready, done, flag, pc, readCount, reads, wiped>>

ReadSkip(r) == /\ rpc[r] = "lock"
               /\ ~SpinlockDead
               /\ rpc' = [rpc EXCEPT ![r] = "out"]
               /\ UNCHANGED <<phase, method, ready, done, flag, pc, readCount, reads, wiped>>

\* Mutant: complete acts as wake_up does, on a waiting thread only.
ReadCompleteWaiter(r) ==
  /\ rpc[r] = "complete"
  /\ ~SpinlockDead
  /\ done' = IF pc = "wait" THEN done + 1 ELSE done
  /\ rpc' = [rpc EXCEPT ![r] = IF ready THEN "out" ELSE "oops"]
  /\ UNCHANGED <<phase, method, ready, flag, pc, readCount, reads, wiped>>

ReadComplete(r) ==
  /\ rpc[r] = "complete"
  /\ ~SpinlockDead
  /\ done' = done + 1
  /\ rpc' = [rpc EXCEPT ![r] = IF ready THEN "out" ELSE "oops"]
  /\ UNCHANGED <<phase, method, ready, flag, pc, readCount, reads, wiped>>

-----------------------------------------------------------------------------
(* dummy_driver_exit; the kernel refuses it while a read is in progress.   *)
(* A reader that died is not: the kernel has closed its file.              *)

NoReadInProgress == \A r \in Readers : rpc[r] \in {"out", "oops"}

\* Mutant: the flag is a sum of bits.
ExitFlagAdded == /\ phase = "live"
                 /\ NoReadInProgress
                 /\ flag' = flag + 2
                 /\ phase' = "exittest"
                 /\ UNCHANGED <<method, ready, done, pc, readCount, rpc, reads, wiped>>

ExitFlag == /\ phase = "live"
            /\ NoReadInProgress
            /\ flag' = 2
            /\ phase' = "exittest"
            /\ UNCHANGED <<method, ready, done, pc, readCount, rpc, reads, wiped>>

\* Mutant: the test of completion_done is the wrong way round.
ExitTestInverted ==
  /\ phase = "exittest"
  /\ phase' = IF done # 0 THEN "exitcomplete" ELSE "unloaded"
  /\ UNCHANGED <<method, ready, done, flag, pc, readCount, rpc, reads, wiped>>

ExitTest == /\ phase = "exittest"
            /\ phase' = IF done = 0 THEN "exitcomplete" ELSE "unloaded"
            /\ UNCHANGED <<method, ready, done, flag, pc, readCount, rpc, reads, wiped>>

ExitComplete == /\ phase = "exitcomplete"
                /\ done' = done + 1
                /\ phase' = "unloaded"
                /\ UNCHANGED <<method, ready, flag, pc, readCount, rpc, reads, wiped>>

-----------------------------------------------------------------------------
Next == \/ CreateThread \/ CreateDies \/ InitCompletion \/ Thread
        \/ ExitFlag \/ ExitTest \/ ExitComplete
        \/ \E r \in Readers : ReadSet(r) \/ ReadTest(r) \/ ReadSkip(r) \/ ReadComplete(r)

Spec == Init /\ [][Next]_vars

\* Runnable threads, entered system calls and the init and exit functions are
\* eventually scheduled; nobody has to read or to unload.
FairSpec == /\ Spec
            /\ WF_vars(Thread) /\ WF_vars(CreateThread \/ CreateDies) /\ WF_vars(InitCompletion)
            /\ WF_vars(ExitTest) /\ WF_vars(ExitComplete)
            /\ \A r \in Readers : WF_vars(ReadTest(r)) /\ WF_vars(ReadSkip(r))
                                   /\ WF_vars(ReadComplete(r))

-----------------------------------------------------------------------------
Phases == {"create", "initcomp", "live", "exittest", "exitcomplete", "unloaded",
           "died"}
Exiting == phase \in {"exittest", "exitcomplete", "unloaded"}

\* Every variable stays in its range.
TypeOK == /\ phase \in Phases
          /\ method \in Methods
          /\ ready \in BOOLEAN
          /\ done \in Nat
          /\ flag \in 0..2
          /\ pc \in {"none", "wait", "check", "count", "reset", "done", "oops"}
          /\ readCount \in Nat
          /\ rpc \in [Readers -> {"out", "test", "lock", "complete", "oops"}]
          /\ reads \in 0..MaxReads
          /\ wiped \in BOOLEAN

Pending == {r \in Readers : rpc[r] = "complete"}

\* The test before complete does not keep completions from piling up, but it
\* bounds them: readers that all saw completion_done fail add one each, and
\* the exit function only adds one to none.
TokensBounded ==
  IF Exiting THEN done <= 1 \/ done <= Cardinality(Readers)
             ELSE done + Cardinality(Pending) <= Cardinality(Readers)

\* A read is never forgotten: while the flag says a read came, a completion is
\* outstanding, a living reader is still on its way to complete, or the thread
\* is between its wait and its reset of the flag.  The exception: a reader died
\* in complete, init_completion took back the completion it left, and nobody has
\* read since.
NoReadForgotten ==
  flag = 1 => \/ done > 0
              \/ pc \in {"none", "oops", "check", "count", "reset"}
              \/ \E r \in Readers : rpc[r] \in {"test", "complete"}
              \/ wiped /\ \E r \in Readers : rpc[r] = "oops"

\* Before the exit function has completed, every event the thread announces as
\* "Event Came From Read Function" is a read's, even when readers complete
\* twice; afterwards at most one is not.  Completions pile up, but only within
\* their bound.
AnnouncesReads == /\ readCount <= reads + (IF phase = "unloaded" THEN 1 ELSE 0)
                  /\ TokensBounded

\* The exit notification reaches the thread unless it falls between the
\* thread's test for 2 and its reset of the flag.
ExitSeenOutsideWindow ==
  flag = 2 /\ pc \notin {"none", "oops", "count", "reset"} ~> pc = "done"

\* "We can do this by using completion without race conditions", of starting
\* the wait: the thread never waits on a completion that is not initialised.
WaitsOnInitialised == pc # "oops"

=============================================================================
