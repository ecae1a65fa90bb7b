-------------------------- MODULE KthreadLocksProofs --------------------------
(***************************************************************************)
(* What KthreadLocks promises, for every number of threads and every width *)
(* of the shared variable.                                                 *)
(***************************************************************************)
EXTENDS KthreadLocks, FiniteSetTheorems, TLAPS

\* Where the threads are, by the phase of the module.
PhaseInv ==
  /\ turn <= Last
  /\ phase = "lockinit" => driver \in {"mutex", "spinlock"}
  /\ phase = "lockinit" /\ driver = "mutex" =>
       turn = 1 /\ \A t \in Threads : pc[t] = "none"
  /\ phase = "spawn" => \A t \in Threads : pc[t] = "none" <=> t >= turn
  /\ \/ phase = "spawn"
     \/ phase = "lockinit" /\ driver = "mutex"
     \/ \A t \in Threads : pc[t] = "none" <=> t > Last
  /\ phase \in {"lockinit", "live"} => turn = 1
  /\ phase = "died" => pc[turn] = "missing"

\* A thread ends only when it has been asked to, and exit has asked and joined
\* those before turn and not asked those behind it.
StopInv ==
  /\ \A t \in Threads : stop[t] => phase \in {"stopping", "unloaded", "died"}
  /\ \A t \in Threads : pc[t] = "done" => stop[t]
  /\ phase \in {"stopping", "died"} =>
       \A t \in Threads : /\ t < turn => pc[t] = "done"
                          /\ t > turn => ~stop[t]
  /\ phase = "unloaded" => \A t \in Threads : t <= Last => pc[t] = "done"

\* Each driver runs its own thread function.
PathInv ==
  /\ clobbered => driver = "spinlock"
  /\ \A t \in Threads : pc[t] \in {"inc", "flip"} => driver = "atomic"
  /\ \A t \in Threads : InSection(t) \/ pc[t] = "acquire" =>
       driver \in {"mutex", "spinlock", "rwlock"}
  /\ \A t \in Threads : pc[t] = "store" => ~Reads(t)

\* The lock word says who is in the critical section.
LockInv ==
  /\ driver # "rwlock" => lock \in {-1, 0}
  /\ ~clobbered =>
       /\ \A t \in Writers, u \in Threads : InSection(u) => u = t
       /\ lock = -1 <=> Writers # {}
       /\ lock >= 0 => lock = Cardinality(ReadersIn)

\* What a thread has loaded is still there when it stores or prints.
DataInv ==
  ~clobbered =>
    \A t \in Threads : pc[t] \in {"store", "release"} => tmp[t] = counter

IInv == TypeOK /\ PhaseInv /\ StopInv /\ PathInv /\ LockInv /\ DataInv

-----------------------------------------------------------------------------
LEMMA SuccRange ==
  ASSUME NEW v \in 0..(Modulus - 1)
  PROVE  Succ(v) \in 0..(Modulus - 1)
BY ModulusAssumption DEF Succ

\* There are never more threads somewhere than threads.
LEMMA ThreadsBounded ==
  ASSUME NEW S \in SUBSET Threads
  PROVE  IsFiniteSet(S) /\ Cardinality(S) \in 0..N
<1>1. IsFiniteSet(Threads) /\ Cardinality(Threads) = N
  BY NAssumption, FS_Interval DEF Threads
<1>. QED  BY <1>1, FS_Subset, FS_CardinalityType, NAssumption

LEMMA ReadersBounded ==
  IsFiniteSet(ReadersIn) /\ Cardinality(ReadersIn) \in 0..N
BY ThreadsBounded DEF ReadersIn

LEMMA InitIInv == Init => IInv
<1>. SUFFICES ASSUME Init PROVE IInv
  OBVIOUS
<1>. USE NAssumption, ModulusAssumption, DriversAssumption
<1>1. TypeOK
  <2>1. turn \in Threads /\ pc \in [Threads -> Pcs] /\ stop \in [Threads -> BOOLEAN]
    BY DEF Init, Threads, Pcs
  <2>2. lock \in -1..N /\ counter \in 0..(Modulus - 1) /\ bit \in 0..1
    BY DEF Init
  <2>3. tmp \in [Threads -> 0..(Modulus - 1)]
    BY DEF Init
  <2>4. driver \in Drivers /\ phase \in Phases /\ clobbered \in BOOLEAN
    BY DEF Init, Phases
  <2>. QED  BY <2>1, <2>2, <2>3, <2>4 DEF TypeOK
<1>2. PhaseInv /\ StopInv /\ PathInv /\ DataInv
  BY DEF Init, PhaseInv, StopInv, PathInv, DataInv, Threads, Last, InSection
<1>3. Writers = {} /\ ReadersIn = {}
  BY DEF Init, Writers, ReadersIn, InSection
<1>4. LockInv
  BY <1>3, FS_EmptySet DEF Init, LockInv
<1>. QED  BY <1>1, <1>2, <1>4 DEF IInv

\* A step of init or exit that moves no thread into, out of or inside the
\* critical section leaves the sets of readers and writers alone.
LEMMA SameSection ==
  ASSUME TypeOK, driver' = driver,
         \A t \in Threads : InSection(t)' <=> InSection(t)
  PROVE  Writers' = Writers /\ ReadersIn' = ReadersIn
BY DEF Writers, ReadersIn, Reads

-----------------------------------------------------------------------------
(* The steps of init and exit.                                             *)

LEMMA LockInitStep == IInv /\ LockInit => IInv'
<1>. SUFFICES ASSUME IInv, LockInit PROVE IInv'
  OBVIOUS
<1>. USE NAssumption, ModulusAssumption, DriversAssumption
<1>1. TypeOK'
  BY DEF IInv, TypeOK, LockInit, Phases
<1>2. PhaseInv'
  BY DEF IInv, TypeOK, PhaseInv, LockInit, Last, Threads
<1>3. StopInv'
  BY DEF IInv, TypeOK, StopInv, LockInit
<1>4. driver = "mutex" => lock = 0
  <2>. SUFFICES ASSUME driver = "mutex" PROVE lock = 0
    OBVIOUS
  <2>1. Writers = {} /\ ReadersIn = {}
    BY DEF IInv, PhaseInv, LockInit, Writers, ReadersIn, InSection
  <2>2. ~clobbered
    BY DEF IInv, PathInv
  <2>. QED  BY <2>1, <2>2, FS_EmptySet DEF IInv, TypeOK, LockInv
<1>5. PathInv'
  <2>1. clobbered' => driver' = "spinlock"
    BY <1>4 DEF IInv, PathInv, PhaseInv, LockInit
  <2>. QED  BY <2>1 DEF IInv, PathInv, LockInit, InSection, Reads
<1>6. LockInv'
  <2>1. Writers' = Writers /\ ReadersIn' = ReadersIn
    BY SameSection DEF IInv, LockInit, InSection
  <2>2. ~clobbered' => ~clobbered /\ lock' = lock
    BY DEF LockInit
  <2>3. lock' = 0 /\ driver' = driver /\ pc' = pc
    BY DEF LockInit
  <2>. QED  BY <2>1, <2>2, <2>3 DEF IInv, LockInv, InSection
<1>7. DataInv'
  BY DEF IInv, DataInv, LockInit
<1>. QED  BY <1>1, <1>2, <1>3, <1>5, <1>6, <1>7 DEF IInv

LEMMA SpawnStep == IInv /\ (Spawn \/ SpawnMissed \/ SpawnDies) => IInv'
<1>. SUFFICES ASSUME IInv, Spawn \/ SpawnMissed \/ SpawnDies PROVE IInv'
  OBVIOUS
<1>. USE NAssumption, ModulusAssumption, DriversAssumption
<1>1. /\ phase = "spawn"
      /\ \/ /\ turn' = IF turn = Last THEN 1 ELSE turn + 1
            /\ phase' = IF turn # Last THEN "spawn"
                        ELSE IF driver = "spinlock" THEN "lockinit" ELSE "live"
         \/ driver = "kthread" /\ turn' = turn /\ phase' = "died"
      /\ UNCHANGED <<driver, stop, lock, counter, bit, tmp, clobbered>>
  BY DEF Spawn, SpawnMissed, SpawnDies, SpawnNext
<1>2. PICK l \in {"created", "missing"} :
        pc' = [pc EXCEPT ![turn] = l] /\ (phase' = "died" => l = "missing")
  BY DEF Spawn, SpawnMissed, SpawnDies, SpawnNext
<1>3. pc[turn] = "none" /\ turn \in Threads /\ turn <= Last
  BY <1>1 DEF IInv, TypeOK, PhaseInv, Threads
<1>4. TypeOK'
  <2>1. turn' \in Threads /\ phase' \in Phases
    BY <1>1, <1>3 DEF IInv, TypeOK, Phases, Threads, Last
  <2>2. pc' \in [Threads -> Pcs]
    BY <1>2 DEF IInv, TypeOK, Pcs
  <2>. QED  BY <1>1, <2>1, <2>2 DEF IInv, TypeOK
<1>5. PhaseInv'
  <2>1. \A t \in Threads : pc'[t] = "none" <=> t > turn
    BY <1>1, <1>2, <1>3 DEF IInv, TypeOK, PhaseInv, Threads
  <2>. QED  BY <1>1, <1>2, <1>3, <2>1 DEF IInv, TypeOK, PhaseInv, Last, Threads
<1>6. StopInv'
  <2>1. \A t \in Threads : ~stop[t] /\ pc[t] # "done"
    BY <1>1 DEF IInv, StopInv
  <2>2. \A t \in Threads : pc'[t] # "done"
    BY <1>2, <2>1 DEF IInv, TypeOK
  <2>3. phase' = "died" => \A t \in Threads : ~(t < turn')
    BY <1>1, <1>3 DEF Last, Threads
  <2>4. phase' \notin {"stopping", "unloaded"}
    BY <1>1
  <2>. QED  BY <1>1, <2>1, <2>2, <2>3, <2>4 DEF StopInv
<1>7. PathInv'
  BY <1>1, <1>2, <1>3 DEF IInv, TypeOK, PathInv, InSection, Reads
<1>8. LockInv'
  <2>1. \A t \in Threads : InSection(t)' <=> InSection(t)
    BY <1>2, <1>3 DEF IInv, TypeOK, InSection
  <2>2. Writers' = Writers /\ ReadersIn' = ReadersIn
    BY <1>1, <2>1, SameSection DEF IInv
  <2>. QED  BY <1>1, <2>1, <2>2 DEF IInv, TypeOK, LockInv
<1>9. DataInv'
  BY <1>1, <1>2, <1>3 DEF IInv, TypeOK, DataInv
<1>. QED  BY <1>4, <1>5, <1>6, <1>7, <1>8, <1>9 DEF IInv

\* The steps of exit only move the module to its next phase.
LEMMA PhaseStep == IInv /\ (Rmmod \/ AskStop \/ Joined \/ StopDies) => IInv'
<1>. SUFFICES ASSUME IInv, Rmmod \/ AskStop \/ Joined \/ StopDies PROVE IInv'
  OBVIOUS
<1>. USE NAssumption, ModulusAssumption, DriversAssumption
<1>. USE DEF Rmmod, AskStop, Joined, StopDies
<1>1. TypeOK'
  <2>1. turn' \in Threads
    BY DEF IInv, TypeOK, PhaseInv, Threads, Last
  <2>2. stop' \in [Threads -> BOOLEAN]
    BY DEF IInv, TypeOK
  <2>3. phase' \in Phases
    BY DEF IInv, TypeOK, Phases
  <2>. QED  BY <2>1, <2>2, <2>3 DEF IInv, TypeOK
<1>2. PathInv'
  BY DEF IInv, PathInv, InSection, Reads
<1>3. LockInv'
  <2>1. Writers' = Writers /\ ReadersIn' = ReadersIn
    BY SameSection DEF IInv, InSection
  <2>. QED  BY <2>1 DEF IInv, LockInv, InSection
<1>4. DataInv'
  BY DEF IInv, DataInv
<1>. USE DEF IInv, TypeOK, Last, Threads
<1>5. PhaseInv' /\ StopInv'
  <2>1. CASE StopDies
    <3>1. PhaseInv'
      BY <2>1 DEF PhaseInv
    <3>2. StopInv'
      BY <2>1 DEF StopInv
    <3>. QED  BY <3>1, <3>2
  <2>2. CASE Rmmod
    <3>1. PhaseInv'
      BY <2>2 DEF PhaseInv
    <3>2. StopInv'
      BY <2>2 DEF PhaseInv, StopInv
    <3>. QED  BY <3>1, <3>2
  <2>3. CASE AskStop
    <3>1. PhaseInv'
      BY <2>3 DEF PhaseInv
    <3>2. StopInv'
      BY <2>3 DEF StopInv
    <3>. QED  BY <3>1, <3>2
  <2>4. CASE Joined
    <3>1. PhaseInv'
      BY <2>4 DEF PhaseInv
    <3>2. /\ \A t \in Threads : t < turn => pc[t] = "done"
          /\ \A t \in Threads : t > turn => ~stop[t]
          /\ \A t \in Threads : pc[t] = "done" => stop[t]
      BY <2>4 DEF StopInv
    <3>3. pc[turn] = "done" /\ turn \in Threads /\ pc' = pc /\ stop' = stop /\ driver' = driver
      BY <2>4
    <3>4. CASE turn = Last /\ turn' = turn /\ phase' = "unloaded"
      <4>1. \A t \in Threads : t <= Last' => pc'[t] = "done"
        BY <3>2, <3>3, <3>4
      <4>. HIDE DEF IInv, TypeOK, Last, Threads
      <4>. QED  BY <3>1, <3>2, <3>3, <3>4, <4>1 DEF StopInv
    <3>5. CASE turn # Last /\ turn' = turn + 1 /\ phase' = "stopping"
      <4>1. \A t \in Threads : t < turn' => pc'[t] = "done"
        BY <3>2, <3>3, <3>5
      <4>2. \A t \in Threads : t > turn' => ~stop'[t]
        BY <3>2, <3>3, <3>5
      <4>. HIDE DEF IInv, TypeOK, Last, Threads
      <4>. QED  BY <3>1, <3>2, <3>3, <3>5, <4>1, <4>2 DEF StopInv
    <3>. QED  BY <2>4, <3>4, <3>5
  <2>. QED  BY <2>1, <2>2, <2>3, <2>4
<1>. QED  BY <1>1, <1>2, <1>3, <1>4, <1>5 DEF IInv

-----------------------------------------------------------------------------
(* The steps of the threads.                                               *)

\* A thread that is in its function and moves on, ending only if it has been
\* asked to, is nothing the phases of the module could notice.
LEMMA ThreadPhase ==
  ASSUME IInv, NEW t \in Threads, NEW l \in Pcs, Goto(t, l),
         pc[t] \notin {"none", "missing", "done"}, l \notin {"none", "missing"},
         l = "done" => stop[t],
         UNCHANGED threadless
  PROVE  pc' \in [Threads -> Pcs] /\ PhaseInv' /\ StopInv'
<1>1. pc' = [pc EXCEPT ![t] = l] /\ pc' \in [Threads -> Pcs]
  BY DEF Goto, IInv, TypeOK
<1>2. \A u \in Threads : /\ pc'[u] = "none" <=> pc[u] = "none"
                         /\ pc'[u] = "missing" <=> pc[u] = "missing"
  BY <1>1 DEF IInv, TypeOK
<1>3. \A u \in Threads : pc[u] = "done" => pc'[u] = "done"
  BY <1>1 DEF IInv, TypeOK
<1>4. \A u \in Threads : pc'[u] = "done" => stop[u]
  BY <1>1 DEF IInv, TypeOK, StopInv
<1>5. PhaseInv'
  <2>1. turn \in Threads /\ PhaseInv
    BY DEF IInv, TypeOK
  <2>2. turn' = turn /\ phase' = phase /\ driver' = driver /\ Last' = Last
    BY DEF threadless, Last
  <2>. HIDE DEF Threads
  <2>. QED  BY <1>2, <2>1, <2>2 DEF PhaseInv
<1>6. StopInv'
  <2>1. turn' = turn /\ phase' = phase /\ stop' = stop /\ Last' = Last
    BY DEF threadless, Last
  <2>2. StopInv
    BY DEF IInv
  <2>. QED  BY <1>3, <1>4, <2>1, <2>2 DEF StopInv
<1>. QED  BY <1>1, <1>5, <1>6

\* A thread that stays outside the critical section changes nothing the lock
\* protects.
LEMMA OutsideStep ==
  ASSUME IInv, NEW t \in Threads,
         Start(t) \/ Loop(t) \/ AtomicInc(t) \/ FlipBit(t) \/ Wake(t)
  PROVE  IInv'
<1>. USE NAssumption, ModulusAssumption, DriversAssumption
<1>1. PICK l \in Pcs : Goto(t, l) /\ l \in {"loop", "sleep", "inc", "acquire", "flip", "done"}
                       /\ (l = "done" => stop[t])
                       /\ (l \in {"inc", "flip"} => driver = "atomic")
                       /\ (l = "acquire" => driver \notin {"kthread", "atomic"})
  BY DEF Start, Loop, AtomicInc, FlipBit, Wake, Pcs, IInv, PathInv
<1>2. pc[t] \in {"created", "loop", "inc", "flip", "sleep"}
  BY DEF Start, Loop, AtomicInc, FlipBit, Wake
<1>3. UNCHANGED <<threadless, lock, tmp>>
  BY DEF Start, Loop, AtomicInc, FlipBit, Wake
<1>4. pc' \in [Threads -> Pcs] /\ PhaseInv' /\ StopInv'
  BY <1>1, <1>2, <1>3, ThreadPhase
<1>5. pc' = [pc EXCEPT ![t] = l] /\ driver' = driver
  BY <1>1, <1>3 DEF Goto, threadless
<1>6. TypeOK'
  <2>1. counter' \in 0..(Modulus - 1)
    BY SuccRange DEF IInv, TypeOK, Start, Loop, AtomicInc, FlipBit, Wake
  <2>2. bit' \in 0..1
    BY DEF IInv, TypeOK, Start, Loop, AtomicInc, FlipBit, Wake
  <2>. QED  BY <1>3, <1>4, <2>1, <2>2 DEF IInv, TypeOK, threadless
<1>7. \A u \in Threads : InSection(u)' <=> InSection(u)
  BY <1>1, <1>2, <1>5 DEF IInv, TypeOK, InSection
<1>8. PathInv'
  BY <1>1, <1>2, <1>3, <1>5, <1>7, DriversAssumption
  DEF IInv, TypeOK, PathInv, threadless, InSection, Reads
<1>9. LockInv'
  <2>1. Writers' = Writers /\ ReadersIn' = ReadersIn
    BY <1>5, <1>7, SameSection DEF IInv
  <2>. QED  BY <1>3, <1>5, <1>7, <2>1 DEF IInv, LockInv, threadless
<1>10. DataInv'
  BY <1>1, <1>2, <1>3, <1>5
  DEF IInv, TypeOK, DataInv, PathInv, threadless, InSection,
      Start, Loop, AtomicInc, FlipBit, Wake
<1>. QED  BY <1>4, <1>6, <1>8, <1>9, <1>10 DEF IInv

\* Getting the lock: a writer that finds it free is alone, a reader joins the
\* readers.
LEMMA AcquireStep ==
  ASSUME IInv, NEW t \in Threads, Acquire(t)
  PROVE  IInv'
<1>. USE NAssumption, ModulusAssumption, DriversAssumption
<1>1. pc[t] = "acquire" /\ pc' = [pc EXCEPT ![t] = "load"]
      /\ UNCHANGED <<threadless, counter, bit, tmp>> /\ driver' = driver
  BY DEF Acquire, Goto, threadless
<1>2. pc' \in [Threads -> Pcs] /\ PhaseInv' /\ StopInv'
  BY <1>1, ThreadPhase DEF Acquire, Pcs
<1>3. PathInv'
  BY <1>1 DEF IInv, TypeOK, PathInv, threadless, InSection, Reads
<1>4. LockInv'
  <2>1. driver # "rwlock" => lock' = -1
    BY DEF Acquire, Reads
  <2>2. ASSUME ~clobbered
        PROVE  /\ \A v \in Writers', u \in Threads : InSection(u)' => u = v
               /\ lock' = -1 <=> Writers' # {}
               /\ lock' >= 0 => lock' = Cardinality(ReadersIn')
    <3>1. CASE Reads(t)
      <4>1. lock >= 0 /\ lock' = lock + 1 /\ Writers = {}
        BY <2>2, <3>1 DEF Acquire, IInv, TypeOK, LockInv
      <4>2. Writers' = {}
        BY <1>1, <3>1, <4>1 DEF IInv, TypeOK, Writers, InSection, Reads
      <4>3. ReadersIn' = ReadersIn \cup {t} /\ t \notin ReadersIn
        BY <1>1, <3>1 DEF IInv, TypeOK, ReadersIn, InSection, Reads
      <4>4. Cardinality(ReadersIn') = Cardinality(ReadersIn) + 1
        BY <4>3, ReadersBounded, FS_AddElement
      <4>. QED  BY <2>2, <4>1, <4>2, <4>4 DEF IInv, TypeOK, LockInv
    <3>2. CASE ~Reads(t)
      <4>1. lock = 0 /\ lock' = -1 /\ Writers = {} /\ Cardinality(ReadersIn) = 0
        BY <2>2, <3>2 DEF Acquire, IInv, LockInv
      <4>2. ReadersIn = {}
        BY <4>1, ReadersBounded, FS_EmptySet
      <4>3. \A u \in Threads : ~InSection(u)
        BY <4>1, <4>2 DEF Writers, ReadersIn
      <4>4. \A u \in Threads : InSection(u)' => u = t
        BY <1>1, <4>3 DEF IInv, TypeOK, InSection
      <4>5. Writers' = {t}
        BY <1>1, <3>2, <4>4 DEF IInv, TypeOK, Writers, InSection, Reads
      <4>. QED  BY <4>1, <4>4, <4>5
    <3>. QED  BY <3>1, <3>2
  <2>. QED  BY <1>1, <2>1, <2>2 DEF LockInv, threadless
<1>5. DataInv'
  BY <1>1 DEF IInv, TypeOK, DataInv, threadless
<1>6. lock' \in -1..N
  <2>1. CASE Reads(t)
    <3>1. ~clobbered /\ lock' >= 0
      BY <2>1 DEF IInv, TypeOK, PathInv, Acquire, Reads
    <3>2. lock' = Cardinality(ReadersIn')
      BY <1>1, <1>4, <3>1 DEF LockInv, threadless
    <3>3. ReadersIn' \in SUBSET Threads
      BY DEF ReadersIn
    <3>. QED  BY <3>2, <3>3, ThreadsBounded
  <2>2. CASE ~Reads(t)
    BY <2>2 DEF Acquire
  <2>. QED  BY <2>1, <2>2
<1>. QED  BY <1>1, <1>2, <1>3, <1>4, <1>5, <1>6 DEF IInv, TypeOK, threadless

\* Inside the critical section a writer is alone, so nobody else holds a copy
\* of the value it replaces.
LEMMA InsideStep ==
  ASSUME IInv, NEW t \in Threads, Load(t) \/ Store(t)
  PROVE  IInv'
<1>. USE NAssumption, ModulusAssumption, DriversAssumption
<1>1. PICK l \in {"release", "store"} : pc' = [pc EXCEPT ![t] = l]
                                        /\ (l = "store" => ~Reads(t))
  BY DEF Load, Store, Goto
<1>2. pc[t] \in {"load", "store"} /\ UNCHANGED <<threadless, lock, bit>> /\ driver' = driver
  BY DEF Load, Store, threadless
<1>3. pc' \in [Threads -> Pcs] /\ PhaseInv' /\ StopInv'
  BY <1>1, <1>2, ThreadPhase DEF Goto, Pcs
<1>4. TypeOK'
  <2>1. Succ(tmp[t]) \in 0..(Modulus - 1)
    BY SuccRange DEF IInv, TypeOK
  <2>2. counter' \in 0..(Modulus - 1) /\ tmp' \in [Threads -> 0..(Modulus - 1)]
    BY <2>1 DEF IInv, TypeOK, Load, Store
  <2>. QED  BY <1>2, <1>3, <2>2 DEF IInv, TypeOK, threadless
<1>5. \A u \in Threads : InSection(u)' <=> InSection(u)
  BY <1>1, <1>2 DEF IInv, TypeOK, InSection
<1>6. PathInv'
  BY <1>1, <1>2, <1>5 DEF IInv, TypeOK, PathInv, threadless, InSection, Reads
<1>7. LockInv'
  <2>1. Writers' = Writers /\ ReadersIn' = ReadersIn
    BY <1>2, <1>5, SameSection DEF IInv
  <2>. QED  BY <1>2, <1>5, <2>1 DEF IInv, LockInv, threadless
<1>8. DataInv'
  <2>. SUFFICES ASSUME ~clobbered', NEW u \in Threads, pc'[u] \in {"store", "release"}
                PROVE  tmp'[u] = counter'
    BY DEF DataInv
  <2>1. CASE Load(t)
    BY <1>1, <1>2, <2>1 DEF Load, IInv, TypeOK, DataInv, threadless
  <2>2. CASE Store(t)
    <3>1. t \in Writers
      BY <2>2 DEF Store, IInv, PathInv, Writers, InSection
    <3>2. u = t
      BY <1>2, <1>5, <3>1 DEF IInv, LockInv, threadless, InSection
    <3>. QED  BY <2>2, <3>2 DEF Store, IInv, TypeOK
  <2>. QED  BY <2>1, <2>2
<1>. QED  BY <1>3, <1>4, <1>6, <1>7, <1>8 DEF IInv

\* Giving the lock back: the writer was alone, a reader leaves the others.
LEMMA ReleaseStep ==
  ASSUME IInv, NEW t \in Threads, Release(t)
  PROVE  IInv'
<1>. USE NAssumption, ModulusAssumption, DriversAssumption
<1>1. pc[t] = "release" /\ pc' = [pc EXCEPT ![t] = "sleep"]
      /\ UNCHANGED <<threadless, counter, bit, tmp>> /\ driver' = driver
  BY DEF Release, Goto, threadless
<1>2. pc' \in [Threads -> Pcs] /\ PhaseInv' /\ StopInv'
  BY <1>1, ThreadPhase DEF Release, Pcs
<1>3. PathInv'
  BY <1>1 DEF IInv, TypeOK, PathInv, threadless, InSection, Reads
<1>4. \A u \in Threads : InSection(u)' <=> InSection(u) /\ u # t
  BY <1>1 DEF IInv, TypeOK, InSection
<1>5. Writers' = Writers \ {t} /\ ReadersIn' = ReadersIn \ {t}
  BY <1>1, <1>4 DEF Writers, ReadersIn, Reads
<1>6. ASSUME ~clobbered, Reads(t)
      PROVE  /\ lock' \in 0..N /\ Writers' = {}
             /\ lock' = Cardinality(ReadersIn')
  <2>1. t \in ReadersIn /\ t \notin Writers
    BY <1>1, <1>6 DEF ReadersIn, Writers, InSection
  <2>2. Writers = {}
    BY <1>6, <2>1 DEF IInv, LockInv, ReadersIn, Writers
  <2>3. lock = Cardinality(ReadersIn)
    BY <1>6, <2>2 DEF IInv, TypeOK, LockInv
  <2>4. Cardinality(ReadersIn') = Cardinality(ReadersIn) - 1
    BY <1>5, <2>1, ReadersBounded, FS_RemoveElement
  <2>5. lock' = lock - 1
    BY <1>6 DEF Release
  <2>6. Cardinality(ReadersIn) # 0
    BY <2>1, ReadersBounded, FS_EmptySet
  <2>. QED  BY <1>5, <2>2, <2>3, <2>4, <2>5, <2>6, ReadersBounded
<1>7. ASSUME ~clobbered, ~Reads(t)
      PROVE  lock' = 0 /\ Writers' = {} /\ ReadersIn' = {}
  <2>1. t \in Writers
    BY <1>1, <1>7 DEF Writers, InSection
  <2>2. Writers \subseteq {t} /\ ReadersIn \subseteq {t}
    BY <1>7, <2>1 DEF IInv, LockInv, Writers, ReadersIn
  <2>. QED  BY <1>5, <1>7, <2>2 DEF Release
<1>8. driver # "rwlock" => lock' = 0
  BY DEF Release, Reads
<1>9. clobbered => driver # "rwlock"
  BY DEF IInv, PathInv
<1>10. LockInv'
  BY <1>1, <1>6, <1>7, <1>8, FS_EmptySet DEF LockInv, threadless
<1>11. lock' \in -1..N
  BY <1>6, <1>7, <1>8, <1>9
<1>12. DataInv'
  BY <1>1 DEF IInv, TypeOK, DataInv, threadless
<1>. QED  BY <1>1, <1>2, <1>3, <1>10, <1>11, <1>12 DEF IInv, TypeOK, threadless

LEMMA StutterStep == IInv /\ UNCHANGED vars => IInv'
BY DEF vars, IInv, TypeOK, PhaseInv, StopInv, PathInv, LockInv, DataInv, Last,
       Reads, InSection, Writers, ReadersIn

-----------------------------------------------------------------------------
(* The theorems.                                                           *)

\* The strengthened invariant holds in every reachable state.
THEOREM Invariance == Spec => []IInv
<1>1. Init => IInv
  BY InitIInv
<1>2. IInv /\ [Next]_vars => IInv'
  <2>. SUFFICES ASSUME IInv, [Next]_vars PROVE IInv'
    OBVIOUS
  <2>1. ASSUME NEW t \in Threads, Thread(t) PROVE IInv'
    BY <2>1, OutsideStep, AcquireStep, InsideStep, ReleaseStep DEF Thread
  <2>. QED  BY <2>1, LockInitStep, SpawnStep, PhaseStep, StutterStep DEF Next
<1>. QED  BY <1>1, <1>2, PTL DEF Spec

\* Every variable of a driver stays in its range, whatever the number of
\* threads and the width of dummy_global_variable.
THEOREM TypeCorrect == Spec => []TypeOK
<1>1. IInv => TypeOK
  BY DEF IInv
<1>. QED  BY <1>1, Invariance, PTL

\* Mutual exclusion of mutex, spinlock and rwlock, for any number of threads
\* (thread_function1 against every other reader or writer).
THEOREM Exclusion == Spec => []MutualExclusion
<1>1. IInv => MutualExclusion
  BY DEF IInv, LockInv, MutualExclusion
<1>. QED  BY <1>1, Invariance, PTL

\* The value printed under the lock is the value the thread left there.
THEOREM Printing == Spec => []PrintsCurrentValue
<1>1. IInv => PrintsCurrentValue
  BY DEF IInv, DataInv, PrintsCurrentValue
<1>. QED  BY <1>1, Invariance, PTL

\* Of the five drivers only the spinlock one ever re-initialises a held lock.
THEOREM Clobbering == Spec => []OnlySpinlockClobbers
<1>1. IInv => OnlySpinlockClobbers
  BY DEF IInv, PathInv, OnlySpinlockClobbers
<1>. QED  BY <1>1, Invariance, PTL

\* When rmmod returns, no thread is left in the code it frees.
THEOREM Joining == Spec => []NoThreadOutlivesExit
<1>1. IInv => NoThreadOutlivesExit
  BY DEF IInv, TypeOK, PhaseInv, StopInv, NoThreadOutlivesExit, Last, Threads
<1>. QED  BY <1>1, Invariance, PTL

\* insmod and rmmod die only where a thread could not be created; an rmmod that
\* does has joined the threads in front of it and leaves those behind it running,
\* none of them asked to stop.
THEOREM Dying == Spec => []DiesOnMissing
<1>1. IInv => DiesOnMissing
  <2> SUFFICES ASSUME IInv, phase = "died"
               PROVE  /\ pc[turn] = "missing"
                      /\ \A t \in Threads : t < turn => pc[t] = "done"
                      /\ \A t \in turn + 1..Last : pc[t] # "done" /\ ~stop[t]
    BY DEF DiesOnMissing
  <2>1. \A t \in turn + 1..Last : t \in Threads /\ t > turn
    BY NAssumption DEF IInv, TypeOK, Threads, Last
  <2>2. /\ pc[turn] = "missing"
        /\ \A t \in Threads : t < turn => pc[t] = "done"
        /\ \A t \in Threads : t > turn => ~stop[t]
        /\ \A t \in Threads : pc[t] = "done" => stop[t]
    BY DEF IInv, PhaseInv, StopInv
  <2> QED
    BY <2>1, <2>2
<1> QED
  BY <1>1, Invariance, PTL

\* The threads of the atomic driver between atomic_inc and test_and_change_bit.
Between == {t \in Threads : pc[t] = "flip"}

\* An even number.
Even(n) == \E k \in Int : n = 2 * k

\* Counter, bit and the threads between the two operations agree on parity.
BitInv == driver = "atomic" => Even(counter - Cardinality(Between) - bit)

\* Even is what the remainder says.
LEMMA EvenMod == \A n \in Int : Even(n) <=> n % 2 = 0
BY DEF Even

\* Never more than there are threads.
LEMMA BetweenBounded == IsFiniteSet(Between) /\ Cardinality(Between) \in Nat
BY ThreadsBounded, NAssumption DEF Between

\* The counter and the bit start together.
LEMMA BitInit == Init => BitInv
<1>1. Init => Between = {}
  BY DEF Init, Between
<1>2. Init => counter - Cardinality(Between) - bit = 2 * 0
  BY <1>1, FS_EmptySet DEF Init
<1> QED
  BY <1>2 DEF BitInv, Even

\* An increment puts a thread between, a flip takes one away; the counter wraps
\* at an even number.
LEMMA BitStep ==
  ASSUME Modulus % 2 = 0, IInv, BitInv, [Next]_vars
  PROVE  BitInv'
<1>0. counter \in Int /\ bit \in 0..1 /\ pc \in [Threads -> Pcs]
  BY ModulusAssumption DEF IInv, TypeOK
<1>1. CASE \E t \in Threads : AtomicInc(t)
  <2>1. PICK t \in Threads : AtomicInc(t)
    BY <1>1
  <2>2. /\ pc[t] = "inc" /\ pc' = [pc EXCEPT ![t] = "flip"] /\ counter' = Succ(counter)
        /\ UNCHANGED <<driver, bit>>
    BY <2>1 DEF AtomicInc, Goto, threadless
  <2>3. Between' = Between \cup {t} /\ t \notin Between
    BY <1>0, <2>2 DEF Between
  <2>4. Cardinality(Between') = Cardinality(Between) + 1
    BY <2>3, BetweenBounded, FS_AddElement
  <2>5. PICK m \in Int : Modulus = 2 * m
    BY ModulusAssumption, EvenMod DEF Even
  <2>6. ASSUME driver = "atomic" PROVE Even(counter' - Cardinality(Between') - bit')
    <3>1. PICK k \in Int : counter - Cardinality(Between) - bit = 2 * k
      BY <2>6 DEF BitInv, Even
    <3>2. counter' = counter + 1 \/ counter' = counter + 1 - 2 * m
      BY <1>0, <2>2, <2>5 DEF Succ
    <3>3. CASE counter' = counter + 1
      <4>1. counter' - Cardinality(Between') - bit' = 2 * k
        BY <1>0, <2>2, <2>4, <3>1, <3>3, BetweenBounded
      <4> QED
        BY <4>1 DEF Even
    <3>4. CASE counter' = counter + 1 - 2 * m
      <4>1. counter' - Cardinality(Between') - bit' = 2 * (k - m)
        BY <1>0, <2>2, <2>4, <3>1, <3>4, BetweenBounded
      <4>2. k - m \in Int
        OBVIOUS
      <4> QED
        BY <4>1, <4>2 DEF Even
    <3> QED
      BY <3>2, <3>3, <3>4
  <2> QED
    BY <2>2, <2>6 DEF BitInv
<1>2. CASE \E t \in Threads : FlipBit(t)
  <2>1. PICK t \in Threads : FlipBit(t)
    BY <1>2
  <2>2. /\ pc[t] = "flip" /\ pc' = [pc EXCEPT ![t] = "sleep"] /\ bit' = 1 - bit
        /\ UNCHANGED <<driver, counter>>
    BY <2>1 DEF FlipBit, Goto, threadless
  <2>3. Between' = Between \ {t} /\ t \in Between
    BY <1>0, <2>2 DEF Between
  <2>4. Cardinality(Between') = Cardinality(Between) - 1
    BY <2>3, BetweenBounded, FS_RemoveElement
  <2>6. ASSUME driver = "atomic" PROVE Even(counter' - Cardinality(Between') - bit')
    <3>1. PICK k \in Int : counter - Cardinality(Between) - bit = 2 * k
      BY <2>6 DEF BitInv, Even
    <3>2. counter' - Cardinality(Between') - bit' = 2 * (k + bit)
      BY <1>0, <2>2, <2>4, <3>1, BetweenBounded
    <3>3. k + bit \in Int
      BY <1>0
    <3> QED
      BY <3>2, <3>3 DEF Even
  <2> QED
    BY <2>2, <2>6 DEF BitInv
<1>3. CASE \/ LockInit \/ Rmmod \/ AskStop \/ Joined \/ StopDies \/ UNCHANGED vars
  <2>1. UNCHANGED <<driver, pc, counter, bit>>
    BY <1>3 DEF LockInit, Rmmod, AskStop, Joined, StopDies, vars
  <2> QED
    BY <2>1 DEF BitInv, Between
<1>4. CASE Spawn \/ SpawnMissed \/ SpawnDies
  <2>1. UNCHANGED <<driver, counter, bit>> /\ turn \in Threads /\ pc[turn] = "none"
        /\ \E l \in {"created", "missing"} : pc' = [pc EXCEPT ![turn] = l]
    BY <1>4, NAssumption
    DEF Spawn, SpawnMissed, SpawnDies, SpawnNext, IInv, TypeOK, PhaseInv, Threads
  <2>2. Between' = Between
    BY <1>0, <2>1 DEF Between
  <2> QED
    BY <2>1, <2>2 DEF BitInv
<1>5. CASE \E t \in Threads : Start(t) \/ Loop(t) \/ Acquire(t) \/ Load(t) \/ Store(t)
                              \/ Release(t) \/ Wake(t)
  <2>1. PICK t \in Threads : Start(t) \/ Loop(t) \/ Acquire(t) \/ Load(t) \/ Store(t)
                             \/ Release(t) \/ Wake(t)
    BY <1>5
  <2>2. PICK l \in Pcs : pc' = [pc EXCEPT ![t] = l] /\ l # "flip" /\ pc[t] # "flip"
    BY <2>1 DEF Start, Loop, Acquire, Load, Store, Release, Wake, Goto, Pcs
  <2>3. Between' = Between
    BY <1>0, <2>2 DEF Between
  <2>4. driver' = driver /\ bit' = bit
    BY <2>1 DEF Start, Loop, Acquire, Load, Store, Release, Wake, threadless
  <2>5. driver = "atomic" => counter' = counter
    BY <2>1 DEF Start, Loop, Acquire, Load, Store, Release, Wake, IInv, PathInv, InSection
  <2> QED
    BY <2>3, <2>4, <2>5 DEF BitInv
<1> QED
  BY <1>1, <1>2, <1>3, <1>4, <1>5 DEF Next, Thread

\* The atomic driver never loses an update to dummy_global_variable or to
\* etc_bit_check, whatever the number of threads: the two agree on parity up to
\* the threads between them.  The values of an int are even in number.
THEOREM BitParity ==
  ASSUME Modulus % 2 = 0
  PROVE  Spec => []BitFollowsCounter
<1>1. IInv /\ BitInv => BitFollowsCounter
  <2> SUFFICES ASSUME IInv, BitInv, driver = "atomic"
               PROVE  (counter - Cardinality(Between) - bit) % 2 = 0
    BY DEF BitFollowsCounter, Between
  <2>1. counter - Cardinality(Between) - bit \in Int
    BY BetweenBounded, ModulusAssumption DEF IInv, TypeOK
  <2> QED
    BY <2>1, EvenMod DEF BitInv
<1>2. BitInv /\ IInv /\ IInv' /\ [Next]_vars => BitInv'
  BY BitStep
<1> QED
  BY <1>1, <1>2, BitInit, Invariance, PTL DEF Spec

\* The threads the abstract specification sees.
Active == {t \in Threads : pc[t] \notin {"none", "missing", "done"}}

\* The module is there as long as a thread is.
LEMMA ActiveLoaded == IInv /\ Active # {} => phase # "unloaded"
BY DEF IInv, TypeOK, PhaseInv, StopInv, Active, Last, Threads

\* The drivers implement SharedCounter: every update adds one to the value as
\* it is at that moment, and is made by a thread of a module that is loaded.
THEOREM Refinement == Spec => ImplementsCounter
<1>1. Init => Counter!Init
  BY DEF Init, Counter!Init
<1>2. IInv /\ [Next]_vars => [~clobbered => Counter!Next]_(Counter!vars)
  <2>. SUFFICES ASSUME IInv, [Next]_vars, ~clobbered
                PROVE  Counter!Next \/ UNCHANGED <<counter, Active, phase # "unloaded">>
    BY DEF Counter!vars, Active
  <2>. USE DEF Counter!Next, Counter!Update, Counter!Unload, Counter!Begin,
               Counter!Finish, Counter!Succ, Succ
  <2>1. CASE UNCHANGED vars
    BY <2>1 DEF vars, Active
  <2>2. CASE LockInit \/ Rmmod \/ AskStop \/ StopDies
    BY <2>2 DEF LockInit, Rmmod, AskStop, StopDies, Active
  <2>6. CASE SpawnMissed \/ SpawnDies
    <3>1. /\ pc' = [pc EXCEPT ![turn] = "missing"] /\ turn \in Threads /\ pc[turn] = "none"
          /\ counter' = counter /\ phase # "unloaded" /\ phase' # "unloaded"
      BY <2>6 DEF SpawnMissed, SpawnDies, SpawnNext, IInv, TypeOK, PhaseInv, Threads
    <3>2. Active' = Active
      BY <3>1 DEF IInv, TypeOK, Active
    <3>. QED  BY <3>1, <3>2
  <2>3. CASE Spawn
    <3>1. pc' = [pc EXCEPT ![turn] = "created"] /\ turn \in Threads /\ pc[turn] = "none"
      BY <2>3 DEF Spawn, IInv, TypeOK, PhaseInv, Threads
    <3>2. Active' = Active \cup {turn} /\ turn \notin Active
      BY <3>1 DEF IInv, TypeOK, Active
    <3>3. phase # "unloaded" /\ phase' # "unloaded" /\ counter' = counter
      BY <2>3 DEF Spawn, SpawnNext
    <3>. QED  BY <3>1, <3>2, <3>3 DEF Active
  <2>4. CASE Joined
    <3>1. pc' = pc /\ counter' = counter /\ phase = "stopping"
      BY <2>4 DEF Joined
    <3>2. CASE phase' = "unloaded"
      <4>1. Active = {}
        <5>1. turn = Last /\ pc[turn] = "done"
          BY <2>4, <3>2 DEF Joined
        <5>2. /\ \A t \in Threads : t < turn => pc[t] = "done"
              /\ \A t \in Threads : t > Last => pc[t] = "none"
          BY <3>1 DEF IInv, PhaseInv, StopInv
        <5>3. turn \in Nat /\ \A t \in Threads : t \in Nat
          BY NAssumption DEF IInv, TypeOK, Threads
        <5>. QED  BY <5>1, <5>2, <5>3 DEF Active
      <4>. QED  BY <3>1, <3>2, <4>1 DEF Active
    <3>3. CASE phase' = phase
      BY <3>1, <3>3 DEF Active
    <3>. QED  BY <2>4, <3>2, <3>3 DEF Joined
  <2>5. ASSUME NEW t \in Threads, Thread(t)
        PROVE  Counter!Next \/ UNCHANGED <<counter, Active, phase # "unloaded">>
    <3>1. t \in Active /\ phase # "unloaded" /\ phase' = phase
      <4>1. t \in Active
        BY <2>5 DEF Thread, Active, Start, Loop, Acquire, Load, Store, Release,
                    AtomicInc, FlipBit, Wake
      <4>2. phase' = phase
        BY <2>5 DEF Thread, threadless, Start, Loop, Acquire, Load, Store, Release,
                    AtomicInc, FlipBit, Wake
      <4>. QED  BY <4>1, <4>2, ActiveLoaded
    <3>2. CASE Store(t) \/ AtomicInc(t)
      <4>1. Active' = Active
        BY <3>2 DEF Store, AtomicInc, Goto, IInv, TypeOK, Active
      <4>2. counter' = Succ(counter)
        BY <3>2 DEF Store, AtomicInc, IInv, DataInv
      <4>. QED  BY <3>1, <4>1, <4>2 DEF Active
    <3>3. CASE ~(Store(t) \/ AtomicInc(t))
      <4>1. PICK l \in Pcs \ {"none", "missing"} : pc' = [pc EXCEPT ![t] = l] /\ counter' = counter
        BY <2>5, <3>3 DEF Thread, Goto, Pcs, Start, Loop, Acquire, Load, Release,
                          FlipBit, Wake
      <4>2. CASE l = "done"
        <5>1. Active' = Active \ {t}
          BY <4>1, <4>2 DEF IInv, TypeOK, Active
        <5>. QED  BY <3>1, <4>1, <5>1 DEF Active
      <4>3. CASE l # "done"
        <5>1. Active' = Active
          BY <3>1, <4>1, <4>3 DEF IInv, TypeOK, Active
        <5>. QED  BY <3>1, <4>1, <5>1 DEF Active
      <4>. QED  BY <4>2, <4>3
    <3>. QED  BY <3>2, <3>3
  <2>. QED  BY <2>1, <2>2, <2>3, <2>4, <2>5, <2>6 DEF Next
<1>. QED  BY <1>1, <1>2, Invariance, PTL DEF Spec, ImplementsCounter
=============================================================================
