------------------------- MODULE SeqlockDriverProofs -------------------------
(***************************************************************************)
(* What SeqlockDriver promises, for a sequence number and a variable of    *)
(* any width.                                                              *)
(***************************************************************************)
EXTENDS SeqlockDriver, TLAPS

\* Where the threads are, by the phase of the module; seqlock_init can only
\* have hit the writer once it has run.
PhaseInv ==
  /\ phase = "startwriter" => pc["writer"] = "none"
  /\ phase \in {"startwriter", "startreader"} => pc["reader"] = "none"
  /\ torn => phase \notin {"startwriter", "startreader", "seqinit"}
  /\ phase \in {"stopreader", "unloaded"} => pc["writer"] = "done"

\* The number the reader has noted is even, and as long as the sequence number
\* has not gone full circle it is passed steps further on.
SeqInv ==
  Reading => /\ Even(seqNo)
             /\ passed < SeqModulus =>
                  seq = seqNo + passed \/ seq = seqNo + passed - SeqModulus

\* What the reader has read is current until the number moves.
DataInv == pc["reader"] = "retry" /\ passed = 0 /\ ~torn => value = counter

IInv == TypeOK /\ PhaseInv /\ ParityFollowsTear /\ SeqInv /\ DataInv

-----------------------------------------------------------------------------
\* The sequence number wraps at an even width: each step changes its parity.
LEMMA WrapFlips ==
  ASSUME NEW n \in 0..(SeqModulus - 1)
  PROVE  /\ Wrap(n, SeqModulus) \in 0..(SeqModulus - 1)
         /\ Even(Wrap(n, SeqModulus)) <=> ~Even(n)
         /\ Wrap(n, SeqModulus) = n + 1 \/ Wrap(n, SeqModulus) = n + 1 - SeqModulus
<1>1. CASE n = SeqModulus - 1
  BY <1>1, SeqHalfAssumption DEF Wrap, SeqModulus, Even
<1>2. CASE n # SeqModulus - 1
  BY <1>2, SeqHalfAssumption DEF Wrap, SeqModulus, Even
<1> QED
  BY <1>1, <1>2

LEMMA SeqModulusPositive == SeqModulus \in Nat /\ SeqModulus >= 2 /\ Even(0)
BY SeqHalfAssumption DEF SeqModulus, Even

\* What writing a location of one thread does to the two locations.
LEMMA GotoMoves ==
  ASSUME TypeOK, NEW t \in Threads, NEW l, Goto(t, l)
  PROVE  /\ pc'[t] = l
         /\ \A u \in Threads : u # t => pc'[u] = pc[u]
BY DEF TypeOK, Goto

\* Every step of the sequence number flips its parity and is counted.
LEMMA BumpMoves ==
  ASSUME TypeOK, SeqInv, Bump, Reading' <=> Reading, UNCHANGED seqNo
  PROVE  /\ seq' \in 0..(SeqModulus - 1)
         /\ passed' \in 0..SeqModulus
         /\ Even(seq') <=> ~Even(seq)
         /\ SeqInv'
         /\ Reading => passed' # 0
<1> USE SeqModulusPositive DEF TypeOK
<1>1. /\ seq' \in 0..(SeqModulus - 1)
      /\ Even(seq') <=> ~Even(seq)
      /\ seq' = seq + 1 \/ seq' = seq + 1 - SeqModulus
  BY WrapFlips DEF Bump
<1>2. passed' \in 0..SeqModulus
  BY DEF Bump
<1>3. Reading => passed' # 0
  BY DEF Bump
<1>4. ASSUME Reading, passed' < SeqModulus
      PROVE  seq' = seqNo + passed' \/ seq' = seqNo + passed' - SeqModulus
  <2>1. passed' = passed + 1
    BY <1>4 DEF Bump
  <2> QED
    BY <2>1, <1>1, <1>4 DEF SeqInv
<1>5. SeqInv'
  BY <1>4 DEF SeqInv
<1> QED
  BY <1>1, <1>2, <1>3, <1>5

-----------------------------------------------------------------------------
\* Nothing is running before init starts the threads.
LEMMA Beginning == Init => IInv
<1> SUFFICES ASSUME Init PROVE IInv
  OBVIOUS
<1> USE SeqModulusPositive, ModulusAssumption
<1>1. TypeOK
  <2>1. /\ seq \in 0..(SeqModulus - 1) /\ seqNo \in 0..(SeqModulus - 1)
        /\ passed \in 0..SeqModulus
    BY DEF Init
  <2>2. {counter, wtmp, value} \subseteq 0..(Modulus - 1)
    BY DEF Init
  <2> QED
    BY <2>1, <2>2 DEF Init, TypeOK
<1>2. pc["writer"] = "none" /\ pc["reader"] = "none"
  BY DEF Init, Threads
<1>3. PhaseInv /\ SeqInv /\ DataInv /\ ParityFollowsTear
  BY <1>2 DEF Init, PhaseInv, SeqInv, DataInv, ParityFollowsTear, Reading, Writing
<1> QED
  BY <1>1, <1>3 DEF IInv

\* init and exit keep the invariant; seqlock_init resets the number, which is
\* harmless for a reader only if the number was 0.
LEMMA ModuleSteps ==
  ASSUME IInv,
         StartWriter \/ StartReader \/ SeqInit \/ Rmmod
           \/ WriterJoined \/ ReaderJoined \/ StopDies
  PROVE  IInv'
<1> USE SeqModulusPositive DEF IInv
<1>1. CASE StartWriter
  <2>1. pc'["writer"] \in {"created", "missing"} /\ pc'["reader"] = "none"
    BY <1>1, GotoMoves DEF StartWriter, Created, Threads, PhaseInv
  <2>2. TypeOK'
    BY <1>1 DEF StartWriter, Created, TypeOK, Goto, writerVars, readerVars
  <2>3. PhaseInv' /\ ParityFollowsTear' /\ SeqInv' /\ DataInv'
    BY <1>1, <2>1 DEF StartWriter, PhaseInv, ParityFollowsTear, SeqInv, DataInv,
                      Writing, Reading, writerVars, readerVars
  <2> QED
    BY <2>2, <2>3
<1>2. CASE StartReader
  <2>1. pc'["reader"] \in {"created", "missing"} /\ pc'["writer"] = pc["writer"]
    BY <1>2, GotoMoves DEF StartReader, Created, Threads
  <2>2. TypeOK'
    BY <1>2 DEF StartReader, Created, TypeOK, Goto, writerVars, readerVars
  <2>3. PhaseInv' /\ ParityFollowsTear' /\ SeqInv' /\ DataInv'
    BY <1>2, <2>1 DEF StartReader, PhaseInv, ParityFollowsTear, SeqInv, DataInv,
                      Writing, Reading, writerVars, readerVars
  <2> QED
    BY <2>2, <2>3
<1>3. CASE StopDies \/ Rmmod \/ WriterJoined \/ ReaderJoined
  <2>1. UNCHANGED <<pc, torn, writerVars, readerVars, passed>>
    BY <1>3 DEF StopDies, Rmmod, WriterJoined, ReaderJoined
  <2>2. TypeOK'
    BY <1>3, <2>1 DEF StopDies, Rmmod, WriterJoined, ReaderJoined, TypeOK,
                      writerVars, readerVars
  <2>3. PhaseInv'
    BY <1>3, <2>1 DEF StopDies, Rmmod, WriterJoined, ReaderJoined, PhaseInv
  <2>4. ParityFollowsTear' /\ SeqInv' /\ DataInv'
    BY <2>1 DEF ParityFollowsTear, SeqInv, DataInv, Writing, Reading, writerVars,
                readerVars
  <2> QED
    BY <2>2, <2>3, <2>4
<1>4. CASE SeqInit
  <2>1. TypeOK'
    BY <1>4 DEF SeqInit, TypeOK, Writing, readerVars
  <2>2. PhaseInv'
    BY <1>4 DEF SeqInit, PhaseInv
  <2>3. ParityFollowsTear'
    BY <1>4 DEF SeqInit, ParityFollowsTear, Writing
  <2>4. SeqInv'
    BY <1>4 DEF SeqInit, SeqInv, Reading, readerVars, TypeOK
  <2>5. DataInv'
    BY <1>4 DEF SeqInit, DataInv, PhaseInv, readerVars, TypeOK
  <2> QED
    BY <2>1, <2>2, <2>3, <2>4, <2>5
<1> QED
  BY <1>1, <1>2, <1>3, <1>4

\* thread_function1 keeps the invariant: it moves the number on entering and
\* on leaving its section and the variable only in between.
LEMMA WriterSteps == ASSUME IInv, Writer PROVE IInv'
<1> USE SeqModulusPositive DEF IInv
<1>1. UNCHANGED module /\ UNCHANGED readerVars
  BY DEF Writer, Start, Loop, Wake, Enter, Load, Store, Leave
<1>2. CASE Enter \/ Leave
  <2>1. /\ Bump /\ UNCHANGED <<counter, wtmp>>
        /\ Writing' <=> ~Writing
        /\ pc'["reader"] = pc["reader"]
        /\ pc["writer"] # "done" /\ pc["writer"] # "none"
    BY <1>2, GotoMoves DEF Enter, Leave, Threads, Writing
  <2>2. Reading' <=> Reading
    BY <2>1 DEF Reading
  <2>3. /\ seq' \in 0..(SeqModulus - 1)
        /\ passed' \in 0..SeqModulus
        /\ Even(seq') <=> ~Even(seq)
        /\ SeqInv'
        /\ Reading => passed' # 0
    BY <1>1, <2>1, <2>2, BumpMoves DEF readerVars
  <2>4. TypeOK'
    BY <1>1, <1>2, <2>1, <2>3 DEF Enter, Leave, TypeOK, Goto, module, readerVars
  <2>5. PhaseInv'
    BY <1>1, <2>1 DEF PhaseInv, module
  <2>6. ParityFollowsTear'
    BY <1>1, <2>1, <2>3 DEF ParityFollowsTear, module, TypeOK
  <2>7. DataInv'
    BY <2>1, <2>3 DEF DataInv, Reading
  <2> QED
    BY <2>3, <2>4, <2>5, <2>6, <2>7
<1>3. CASE Start("writer") \/ Loop("writer") \/ Wake("writer") \/ Load
  <2>1. /\ UNCHANGED <<seq, counter, passed>>
        /\ Writing' <=> Writing
        /\ pc'["reader"] = pc["reader"]
        /\ pc["writer"] # "done" /\ pc["writer"] # "none"
    BY <1>3, GotoMoves DEF Start, Loop, Wake, Load, Threads, Writing, writerVars
  <2>2. TypeOK'
    BY <1>1, <1>3 DEF Start, Loop, Wake, Load, TypeOK, Goto, Threads, module,
                      writerVars, readerVars
  <2>3. PhaseInv' /\ ParityFollowsTear' /\ SeqInv' /\ DataInv'
    BY <1>1, <2>1 DEF PhaseInv, ParityFollowsTear, SeqInv, DataInv, Reading, module,
                      readerVars
  <2> QED
    BY <2>2, <2>3
<1>4. CASE Store
  <2>1. /\ UNCHANGED <<seq, passed>>
        /\ Writing /\ Writing'
        /\ pc'["reader"] = pc["reader"]
        /\ pc["writer"] # "done" /\ pc["writer"] # "none"
    BY <1>4, GotoMoves DEF Store, Threads, Writing
  <2>2. counter' \in 0..(Modulus - 1)
    BY <1>4, ModulusAssumption DEF Store, Wrap, TypeOK
  <2>3. TypeOK'
    BY <1>1, <1>4, <2>2 DEF Store, TypeOK, Goto, module, readerVars
  <2>4. PhaseInv' /\ ParityFollowsTear' /\ SeqInv'
    BY <1>1, <2>1 DEF PhaseInv, ParityFollowsTear, SeqInv, Reading, module, readerVars
  \* A reader that would still accept has noted this odd number: there is none.
  <2>5. DataInv'
    <3>1. SUFFICES ASSUME pc["reader"] = "retry", passed = 0, ~torn PROVE FALSE
      BY <1>1, <2>1 DEF DataInv, module
    <3>2. ~Even(seq)
      BY <2>1, <3>1 DEF ParityFollowsTear, TypeOK
    <3>3. Even(seqNo) /\ (seq = seqNo \/ seq = seqNo - SeqModulus)
      BY <3>1 DEF SeqInv, Reading, TypeOK
    <3>4. seq = seqNo
      BY <3>3 DEF TypeOK
    <3> QED
      BY <3>2, <3>3, <3>4
  <2> QED
    BY <2>3, <2>4, <2>5
<1> QED
  BY <1>2, <1>3, <1>4 DEF Writer

\* thread_function2 keeps the invariant.
LEMMA ReaderSteps == ASSUME IInv, Reader PROVE IInv'
<1> USE SeqModulusPositive DEF IInv
<1>1. UNCHANGED module /\ UNCHANGED writerVars
  BY DEF Reader, Start, Loop, Wake, Begin, Read, Retry, Show
<1>2. pc'["writer"] = pc["writer"] /\ pc["reader"] # "none"
  BY GotoMoves DEF Reader, Start, Loop, Wake, Begin, Read, Retry, Show, Threads
<1>3. PhaseInv' /\ ParityFollowsTear'
  BY <1>1, <1>2 DEF PhaseInv, ParityFollowsTear, Writing, module, writerVars
<1>4. CASE Begin
  <2>1. pc'["reader"] = "read"
    BY <1>4, GotoMoves DEF Begin, Threads
  <2>2. TypeOK'
    <3>1. seqNo' \in 0..(SeqModulus - 1) /\ passed' \in 0..SeqModulus
      BY <1>4 DEF Begin, TypeOK
    <3> QED
      BY <1>1, <1>4, <3>1 DEF Begin, TypeOK, Goto, module, writerVars
  <2>3. SeqInv' /\ DataInv'
    BY <1>1, <1>4, <2>1 DEF Begin, SeqInv, DataInv, TypeOK, writerVars
  <2> QED
    BY <1>3, <2>2, <2>3
<1>5. CASE Read
  <2>1. pc'["reader"] = "retry"
    BY <1>5, GotoMoves DEF Read, Threads
  <2>2. TypeOK'
    BY <1>1, <1>5 DEF Read, TypeOK, Goto, module, writerVars
  <2>3. SeqInv' /\ DataInv'
    BY <1>1, <1>5, <2>1 DEF Read, SeqInv, DataInv, Reading, module, writerVars
  <2> QED
    BY <1>3, <2>2, <2>3
<1>6. CASE Retry \/ Show \/ Start("reader") \/ Loop("reader") \/ Wake("reader")
  <2>1. pc'["reader"] \notin {"read", "retry"} /\ UNCHANGED <<readerVars, passed>>
    BY <1>6, GotoMoves DEF Retry, Show, Start, Loop, Wake, Threads
  <2>2. TypeOK'
    BY <1>1, <1>6 DEF Retry, Show, Start, Loop, Wake, TypeOK, Goto, Threads, module,
                      writerVars, readerVars
  <2>3. SeqInv' /\ DataInv'
    BY <2>1 DEF SeqInv, DataInv, Reading
  <2> QED
    BY <1>3, <2>2, <2>3
<1> QED
  BY <1>4, <1>5, <1>6 DEF Reader

\* The strengthened invariant is kept by every step.
LEMMA Steps == ASSUME IInv, [Next]_vars PROVE IInv'
<1>1. CASE UNCHANGED vars
  BY <1>1 DEF vars, IInv, TypeOK, PhaseInv, ParityFollowsTear, SeqInv, DataInv,
              Writing, Reading
<1> QED
  BY <1>1, ModuleSteps, WriterSteps, ReaderSteps DEF Next

\* The strengthened invariant holds in every reachable state of the driver.
THEOREM Invariance == Spec => []IInv
BY Beginning, Steps, PTL DEF Spec

-----------------------------------------------------------------------------
\* Every variable stays in its range.
THEOREM TypeCorrect == Spec => []TypeOK
BY Invariance, PTL DEF IInv

\* The number is odd exactly while the writer writes, or exactly while it does
\* not if seqlock_init hit it in its section.
THEOREM Parity == Spec => []ParityFollowsTear
BY Invariance, PTL DEF IInv

\* A value the reader accepts is current and nobody is writing, unless the
\* lock was torn or the number moved a full circle under the reader.
THEOREM Accepting == Spec => AcceptsCommitted
<1>1. ASSUME IInv, [Next]_vars
      PROVE  [pc["reader"] = "retry" /\ pc'["reader"] = "print" /\ ~torn
                /\ passed < SeqModulus => value = counter /\ ~Writing]_vars
  <2> SUFFICES ASSUME Next, pc["reader"] = "retry", pc'["reader"] = "print", ~torn,
                      passed < SeqModulus
               PROVE  value = counter /\ ~Writing
    BY <1>1
  <2> USE <1>1, SeqModulusPositive DEF IInv
  <2>1. ~Writer
    BY GotoMoves DEF Writer, Start, Loop, Wake, Enter, Load, Store, Leave, Threads
  <2>2. ~(StartWriter \/ StartReader \/ StopDies \/ SeqInit \/ Rmmod
            \/ WriterJoined \/ ReaderJoined)
    BY GotoMoves DEF StartWriter, StartReader, Created, StopDies, SeqInit, Rmmod,
                     WriterJoined, ReaderJoined, Threads
  <2>3. Retry
    BY <2>1, <2>2 DEF Next, Reader, Start, Loop, Wake, Begin, Read, Show
  <2>4. seq = seqNo
    BY <2>3, GotoMoves DEF Retry, Threads
  <2>5. passed = 0
    BY <2>4 DEF SeqInv, Reading, TypeOK
  <2>6. value = counter
    BY <2>5 DEF DataInv
  <2>7. ~Writing
    BY <2>4 DEF SeqInv, Reading, ParityFollowsTear, TypeOK
  <2> QED
    BY <2>6, <2>7
<1> QED
  BY <1>1, Invariance, PTL DEF Spec, AcceptsCommitted

\* Once the lock is torn, the writer gone and the reader in its loop, rmmod is
\* stuck for good.
THEOREM Blocking == Spec => TornBlocksRmmod
<1> DEFINE Stuck == torn /\ phase = "stopreader" /\ pc["reader"] = "begin"
<1>1. ASSUME IInv, [Next]_vars, Stuck PROVE Stuck'
  <2> USE <1>1 DEF IInv
  <2>1. pc["writer"] = "done"
    BY DEF PhaseInv
  <2>2. ~Even(seq)
    BY <2>1 DEF ParityFollowsTear, Writing, TypeOK
  <2>3. ~Next
    BY <2>1, <2>2 DEF Next, Writer, Reader, Start, Loop, Wake, Enter, Load, Store,
                      Leave, Begin, Read, Retry, Show, StartWriter, StartReader,
                      StopDies, SeqInit, Rmmod, WriterJoined, ReaderJoined
  <2> QED
    BY <2>3 DEF vars
<1>2. Stuck => pc["reader"] = "begin" /\ phase = "stopreader"
  OBVIOUS
<1>3. Spec => [](Stuck => [](pc["reader"] = "begin" /\ phase = "stopreader"))
  BY <1>1, <1>2, Invariance, PTL DEF Spec
<1> QED
  BY <1>3 DEF TornBlocksRmmod
=============================================================================
