---------------------------- MODULE SeqlockDriver ----------------------------
(***************************************************************************)
(* The seqlock driver: a writer thread increments dummy_global_variable    *)
(* under write_seqlock, a reader thread reads it between read_seqbegin and *)
(* read_seqretry and starts over when the sequence number has moved.  init *)
(* starts both threads and initialises the seqlock afterwards; until then  *)
(* they work on the zeroed one of the module's data.                       *)
(*                                                                         *)
(* The seqlock is the kernel's: a sequence number, an unsigned integer     *)
(* that wraps, and a spinlock that is never contended as there is one      *)
(* writer; it is left out.                                                 *)
(***************************************************************************)
EXTENDS Naturals

CONSTANTS SeqHalf,  \* half the number of values of the sequence number, 2^31
          Modulus   \* number of values of dummy_global_variable, 2^64

ASSUME SeqHalfAssumption == SeqHalf \in Nat \ {0}
ASSUME ModulusAssumption == Modulus \in Nat \ {0}

SeqModulus == 2 * SeqHalf

Threads == {"writer", "reader"}  \* dummy_thread1, dummy_thread2

VARIABLES phase,    \* of the module: "startwriter", "startreader", "seqinit", "live",
                    \* "stopwriter", "stopreader", "unloaded", or "died" (rmmod followed an
                    \* error pointer)
          pc,       \* where each thread is in its thread function, "missing" when
                    \* its pointer is an error
          stop,     \* kthread_should_stop() of each thread
          seq,      \* the sequence number of dummy_seq_lock
          counter,  \* dummy_global_variable
          wtmp,     \* the value the writer has loaded
          seqNo,    \* seq_no of the reader
          value,    \* read_value of the reader
          passed,   \* history: how far seq moved since read_seqbegin, SeqModulus
                    \* when it went full circle or was reset
          torn      \* history: seqlock_init hit the writer in its section

vars == <<phase, pc, stop, seq, counter, wtmp, seqNo, value, passed, torn>>
module == <<phase, stop, torn>>
writerVars == <<seq, counter, wtmp>>
readerVars == <<seqNo, value>>

-----------------------------------------------------------------------------
Wrap(v, m) == IF v = m - 1 THEN 0 ELSE v + 1

Even(n) == n % 2 = 0

Writing == pc["writer"] \in {"load", "store", "leave"}
Reading == pc["reader"] \in {"read", "retry"}

\* Mutant: the number does not wrap.
BumpUnwrapped == /\ seq' = seq + 1
                 /\ passed' = IF Reading /\ passed < SeqModulus THEN passed + 1 ELSE passed

\* seq moves on by one.
Bump == /\ seq' = Wrap(seq, SeqModulus)
        /\ passed' = IF Reading /\ passed < SeqModulus THEN passed + 1 ELSE passed

Goto(t, l) == pc' = [pc EXCEPT ![t] = l]

Init == /\ phase = "startwriter"
        /\ pc = [t \in Threads |-> "none"]
        /\ stop = [t \in Threads |-> FALSE]
        /\ seq = 0
        /\ counter = 0 /\ wtmp = 0
        /\ seqNo = 0 /\ value = 0
        /\ passed = 0
        /\ torn = FALSE

-----------------------------------------------------------------------------
(* dummy_driver_init, dummy_driver_exit                                    *)

\* kthread_run: the thread exists and will be scheduled some time, or its pointer
\* is an error, which init compares with NULL and takes for a thread.
Created == {"created", "missing"}

StartWriter == /\ phase = "startwriter"
               /\ phase' = "startreader"
               /\ \E l \in Created : Goto("writer", l)
               /\ UNCHANGED <<stop, torn, writerVars, readerVars, passed>>

StartReader == /\ phase = "startreader"
               /\ phase' = "seqinit"
               /\ \E l \in Created : Goto("reader", l)
               /\ UNCHANGED <<stop, torn, writerVars, readerVars, passed>>

\* seqlock_init, with the threads running.
SeqInit == /\ phase = "seqinit"
           /\ phase' = "live"
           /\ seq' = 0
           /\ passed' = IF seq = 0 THEN passed ELSE SeqModulus
           /\ torn' = Writing
           /\ UNCHANGED <<pc, stop, counter, wtmp, readerVars>>

Rmmod == /\ phase = "live"
         /\ phase' = "stopwriter"
         /\ stop' = [stop EXCEPT !["writer"] = TRUE]
         /\ UNCHANGED <<pc, torn, writerVars, readerVars, passed>>

\* Mutant: only the writer is asked to stop.
WriterJoinedAlone ==
  /\ phase = "stopwriter" /\ pc["writer"] = "done"
  /\ phase' = "stopreader"
  /\ UNCHANGED <<pc, stop, torn, writerVars, readerVars, passed>>

\* The first kthread_stop returns, the second asks the reader.
WriterJoined == /\ phase = "stopwriter" /\ pc["writer"] = "done"
                /\ phase' = "stopreader"
                /\ stop' = [stop EXCEPT !["reader"] = TRUE]
                /\ UNCHANGED <<pc, torn, writerVars, readerVars, passed>>

ReaderJoined == /\ phase = "stopreader" /\ pc["reader"] = "done"
                /\ phase' = "unloaded"
                /\ UNCHANGED <<pc, stop, torn, writerVars, readerVars, passed>>

\* kthread_stop follows an error pointer: rmmod dies.
StopDies == /\ \/ phase = "stopwriter" /\ pc["writer"] = "missing"
               \/ phase = "stopreader" /\ pc["reader"] = "missing"
            /\ phase' = "died"
            /\ UNCHANGED <<pc, stop, torn, writerVars, readerVars, passed>>

-----------------------------------------------------------------------------
(* Both threads: entering, testing kthread_should_stop, sleeping.          *)

Start(t) == /\ pc[t] = "created"
            /\ Goto(t, IF stop[t] THEN "done" ELSE "loop")
            /\ UNCHANGED <<module, writerVars, readerVars, passed>>

Loop(t) == /\ pc[t] = "loop"
           /\ Goto(t, IF stop[t] THEN "done"
                      ELSE IF t = "writer" THEN "enter" ELSE "begin")
           /\ UNCHANGED <<module, writerVars, readerVars, passed>>

Wake(t) == /\ pc[t] = "sleep"
           /\ Goto(t, "loop")
           /\ UNCHANGED <<module, writerVars, readerVars, passed>>

(* thread_function1                                                        *)

\* write_seqlock
Enter == /\ pc["writer"] = "enter"
         /\ Bump
         /\ Goto("writer", "load")
         /\ UNCHANGED <<module, counter, wtmp, readerVars>>

Load == /\ pc["writer"] = "load"
        /\ wtmp' = counter
        /\ Goto("writer", "store")
        /\ UNCHANGED <<module, seq, counter, readerVars, passed>>

Store == /\ pc["writer"] = "store"
         /\ counter' = Wrap(wtmp, Modulus)
         /\ Goto("writer", "leave")
         /\ UNCHANGED <<module, seq, wtmp, readerVars, passed>>

\* Mutant: the lock is given back, the number stays.
LeaveUncounted == /\ pc["writer"] = "leave"
                  /\ Goto("writer", "sleep")
                  /\ UNCHANGED <<module, writerVars, readerVars, passed>>

\* write_sequnlock
Leave == /\ pc["writer"] = "leave"
         /\ Bump
         /\ Goto("writer", "sleep")
         /\ UNCHANGED <<module, counter, wtmp, readerVars>>

(* thread_function2                                                        *)

\* Mutant: the reader takes whatever number it finds, as raw_seqcount_begin.
BeginRaw == /\ pc["reader"] = "begin"
            /\ seqNo' = seq
            /\ passed' = 0
            /\ Goto("reader", "read")
            /\ UNCHANGED <<module, writerVars, value>>

\* read_seqbegin spins until the number is even.
Begin == /\ pc["reader"] = "begin"
         /\ Even(seq)
         /\ seqNo' = seq
         /\ passed' = 0
         /\ Goto("reader", "read")
         /\ UNCHANGED <<module, writerVars, value>>

Read == /\ pc["reader"] = "read"
        /\ value' = counter
        /\ Goto("reader", "retry")
        /\ UNCHANGED <<module, writerVars, seqNo, passed>>

\* Mutant: the value is taken without a second look at the number.
RetryNever == /\ pc["reader"] = "retry"
              /\ Goto("reader", "print")
              /\ UNCHANGED <<module, writerVars, readerVars, passed>>

\* read_seqretry; kthread_should_stop is not looked at in this loop.
Retry == /\ pc["reader"] = "retry"
         /\ Goto("reader", IF seq = seqNo THEN "print" ELSE "begin")
         /\ UNCHANGED <<module, writerVars, readerVars, passed>>

Show == /\ pc["reader"] = "print"
        /\ Goto("reader", "sleep")
        /\ UNCHANGED <<module, writerVars, readerVars, passed>>

-----------------------------------------------------------------------------
Writer == Start("writer") \/ Loop("writer") \/ Wake("writer")
          \/ Enter \/ Load \/ Store \/ Leave
Reader == Start("reader") \/ Loop("reader") \/ Wake("reader")
          \/ Begin \/ Read \/ Retry \/ Show

Next == \/ StartWriter \/ StartReader \/ SeqInit
        \/ Rmmod \/ WriterJoined \/ ReaderJoined \/ StopDies
        \/ Writer \/ Reader

Spec == Init /\ [][Next]_vars

\* Threads and the exit function are scheduled; a spinning reader is not
\* promised that it looks while the number is even.
FairSpec == /\ Spec
            /\ WF_vars(Writer) /\ WF_vars(Reader)
            /\ WF_vars(WriterJoined) /\ WF_vars(ReaderJoined) /\ WF_vars(StopDies)

-----------------------------------------------------------------------------
\* Every variable stays in its range.
TypeOK == /\ phase \in {"startwriter", "startreader", "seqinit", "live", "stopwriter",
                        "stopreader", "unloaded", "died"}
          /\ pc \in [Threads -> {"none", "missing", "created", "loop", "enter", "load", "store",
                                 "leave", "begin", "read", "retry", "print", "sleep",
                                 "done"}]
          /\ stop \in [Threads -> BOOLEAN]
          /\ seq \in 0..(SeqModulus - 1)
          /\ counter \in 0..(Modulus - 1)
          /\ wtmp \in 0..(Modulus - 1)
          /\ seqNo \in 0..(SeqModulus - 1)
          /\ value \in 0..(Modulus - 1)
          /\ passed \in 0..SeqModulus
          /\ torn \in BOOLEAN

\* "So, when the sequence number is an odd value, writing is happening.  When
\* the sequence number is an even value, writing has done."
ParityMeansWriting == Even(seq) <=> ~Writing

\* The sentence holds as long as seqlock_init has not hit the writer in its
\* section; once it has, parity is the wrong way round for good: the reader
\* spins while nobody writes and is let in while somebody does.
ParityFollowsTear == Even(seq) <=> (Writing <=> torn)

\* "If it is equal to the old sequence number, then everything is okay": what
\* the reader accepts is the current value and no write is under way, unless
\* the number went full circle, or was reset, under the reader.
AcceptsCommitted ==
  [][pc["reader"] = "retry" /\ pc'["reader"] = "print" /\ ~torn /\ passed < SeqModulus
       => value = counter /\ ~Writing]_vars

\* After the exit function no thread is left in the module's code.
NoThreadOutlivesExit ==
  phase = "unloaded" => \A t \in Threads : pc[t] = "done"

\* rmmod ends unless the seqlock was torn: with the writer gone, the reader
\* finds an even number that no longer moves.  It dies instead when a thread is
\* missing, and only then.
StopEndsUnlessTorn ==
  phase = "stopwriter" /\ ~torn ~>
    phase = IF \E t \in Threads : pc[t] = "missing" THEN "died" ELSE "unloaded"

\* A torn seqlock blocks rmmod for good once the writer has gone and the reader
\* is in its loop, as the loop does not look at kthread_should_stop.
TornBlocksRmmod ==
  [](torn /\ phase = "stopreader" /\ pc["reader"] = "begin"
       => [](pc["reader"] = "begin" /\ phase = "stopreader"))
=============================================================================
