--------------------------- MODULE ExamplesProofs ---------------------------
(***************************************************************************)
(* What the drivers with programs of their own promise, for every number   *)
(* of processes and users and every size of the memory they share, and     *)
(* what follows for the composition with the netlink drivers.              *)
(***************************************************************************)
EXTENDS MCExamples, NetlinkProofs, WellFoundedInduction

-----------------------------------------------------------------------------
(* The poll driver.                                                        *)

\* Where a process is in a call, after poll_wait.
Inside == {"test_read", "clear_read", "test_write", "clear_write", "return", "asleep"}

\* Where a process is when nothing of it is on the queue.
Outside(p) == \/ at[p] \in {"closed", "killed", "poll_wait"}
              \/ at[p] = "user" /\ (p \in Epollers => pass[p] = "none")

\* Who has passed poll_wait is registered, and an epoll instance from the end
\* of EPOLL_CTL_ADD on.  A process in its program is not in a call.
RegisteredInv ==
  \A p \in Pollers :
    /\ at[p] \in Inside => p \in Registered
    /\ p \in Epollers /\ pass[p] = "again" => p \in Registered
    /\ Outside(p) => p \notin Registered
    /\ p \in Epollers /\ at[p] = "user" => pass[p] \in {"none", "again"}
    /\ p \in Epollers /\ at[p] = "asleep" => pass[p] = "again"
    /\ at[p] = "closed" => pass[p] = "none"

\* Until one of the old entries leaves, these are the ones that a wake-up does
\* not find.
EntriesInv == PassedOver /\ (~mixed => strays = former)

\* With the places and the entries, the properties themselves are inductive.
PollInv == PollTypeOK /\ RegisteredInv /\ EntriesInv /\ StoreNotForgotten

\* Nobody has called before the driver is loaded.
LEMMA PollStart == PollInit => PollInv
<1> SUFFICES ASSUME PollInit PROVE PollInv
  OBVIOUS
<1>1. PollTypeOK
  <2>1. {mixed, canRead, canWrite, unread} \subseteq BOOLEAN /\ Registered = {}
    BY DEF PollInit, Registered
  <2> QED
    BY <2>1, MaxSysfsAssumption DEF PollInit, PollTypeOK
<1>2. RegisteredInv /\ EntriesInv /\ StoreNotForgotten
  BY DEF PollInit, RegisteredInv, Outside, Registered, EntriesInv, PassedOver,
         StoreNotForgotten, Inside
<1> QED
  BY <1>1, <1>2 DEF PollInv

\* Where the entries and their history stay, so does all that is said of them.
LEMMA EntriesStay ==
  ASSUME PollInv, UNCHANGED <<entries, missed>>
  PROVE  Registered' = Registered /\ EntriesInv'
BY DEF entries, Registered, PollInv, EntriesInv, PassedOver

\* Nothing of it changes when only init moves: the head forgets its entries.
LEMMA PollInitSteps == PollInv /\ (PollLoad \/ InitHead) => PollInv'
<1> SUFFICES ASSUME PollInv, PollLoad \/ InitHead PROVE PollInv'
  OBVIOUS
<1> USE DEF PollInv, asking, waiting, entries, flags, news, sysfs
<1>1. Registered' = Registered /\ EntriesInv' /\ former' \subseteq Registered'
      /\ (waitQueue \cap strays)' = {}
  BY DEF PollLoad, InitHead, Registered, EntriesInv, PassedOver, PollTypeOK
<1>2. PollTypeOK'
  <2>1. {mixed, canRead, canWrite, unread}' \subseteq BOOLEAN
        /\ pollPhase' \in {"absent", "init", "live"}
    BY DEF PollLoad, InitHead, PollTypeOK
  <2> QED
    BY <1>1, <2>1 DEF PollLoad, InitHead, PollTypeOK
<1>3. RegisteredInv' /\ StoreNotForgotten'
  BY <1>1 DEF PollLoad, InitHead, RegisteredInv, Outside, StoreNotForgotten, Announced
<1> QED
  BY <1>1, <1>2, <1>3

\* The flag is set between the value and the wake-up; the wake-up passes over
\* the strays.
LEMMA SysfsSteps == PollInv /\ (SysfsStore \/ SysfsShow) => PollInv'
<1> SUFFICES ASSUME PollInv, SysfsStore \/ SysfsShow PROVE PollInv'
  OBVIOUS
<1> USE MaxSysfsAssumption DEF PollInv, asking, flags, news, sysfs
<1>1. UNCHANGED <<pollPhase, at, pass, mask, waitQueue, strays, former, mixed>>
      /\ Registered' = Registered
  BY DEF SysfsStore, SysfsShow, entries, Registered
<1>2. /\ woken' \subseteq Registered /\ missed' \subseteq Registered
      /\ missed' \subseteq missed \cup strays
  BY DEF SysfsStore, SysfsShow, WakeUp, Registered, PollTypeOK
<1>3. PollTypeOK'
  <2>1. {mixed, canRead, canWrite, unread}' \subseteq BOOLEAN
    BY <1>1 DEF SysfsStore, SysfsShow, PollTypeOK
  <2> QED
    BY <1>1, <1>2, <2>1 DEF SysfsStore, SysfsShow, PollTypeOK
<1>4. RegisteredInv' /\ EntriesInv'
  BY <1>1, <1>2 DEF RegisteredInv, Outside, EntriesInv, PassedOver
<1>5. StoreNotForgotten'
  BY <1>1 DEF SysfsStore, SysfsShow, StoreNotForgotten, Announced
<1> QED
  BY <1>3, <1>4, <1>5

\* poll_wait registers a process before dummy_poll looks at the flags.
LEMMA DummyPollSteps == ASSUME NEW p \in Pollers, PollInv, DummyPoll(p) PROVE PollInv'
<1> USE DEF PollInv, asking, waiting, flags, news, sysfs, At
<1>1. CASE PollWait(p)
  <2>1. /\ p \notin Registered /\ Registered' = Registered \cup {p}
        /\ (waitQueue \cap strays)' = {} /\ EntriesInv'
    BY <1>1 DEF PollWait, Register, RegisteredInv, Outside, Registered, EntriesInv, PassedOver,
                PollTypeOK
  <2>2. PollTypeOK'
    BY <1>1, <2>1 DEF PollWait, PollTypeOK
  <2>3. RegisteredInv' /\ StoreNotForgotten'
    BY <1>1, <2>1 DEF PollWait, PollTypeOK, RegisteredInv, Outside, StoreNotForgotten, Announced,
                      Inside
  <2> QED
    BY <2>1, <2>2, <2>3
<1>2. CASE TestRead(p) \/ ClearRead(p) \/ TestWrite(p) \/ ClearWrite(p)
  <2>1. UNCHANGED waiting /\ Registered' = Registered /\ EntriesInv'
    BY <1>2, EntriesStay DEF TestRead, ClearRead, TestWrite, ClearWrite
  <2>2. /\ UNCHANGED <<pollPhase, pass, news, sysfs>>
        /\ at[p] \in Inside /\ \E to \in Inside : at' = [at EXCEPT ![p] = to]
    BY <1>2 DEF TestRead, ClearRead, TestWrite, ClearWrite, Inside
  <2>3. PollTypeOK'
    <3>1. at' \in [Pollers -> {"closed", "killed", "user", "poll_wait", "test_read",
                               "clear_read", "test_write", "clear_write", "return", "asleep"}]
      BY <2>2 DEF PollTypeOK, Inside
    <3>2. canRead' \in BOOLEAN /\ canWrite' \in BOOLEAN
      BY <1>2 DEF TestRead, ClearRead, TestWrite, ClearWrite, PollTypeOK
    <3>3. mask' = mask \/ \E e \in {"in", "out"} : mask' = [mask EXCEPT ![p] = @ \cup {e}]
      BY <1>2 DEF TestRead, ClearRead, TestWrite, ClearWrite
    <3>4. mask' \in [Pollers -> SUBSET {"in", "out"}]
      BY <3>3 DEF PollTypeOK
    <3> QED
      BY <2>1, <2>2, <3>1, <3>2, <3>4 DEF PollTypeOK, entries
  <2>4. RegisteredInv'
    <3>1. /\ at'[p] \in Inside /\ \A q \in Pollers \ {p} : at'[q] = at[q]
          /\ at'[p] # "user" /\ at'[p] \notin {"closed", "killed", "poll_wait"}
      BY <2>2 DEF PollTypeOK, Inside
    <3>2. p \in Epollers /\ at'[p] = "asleep" => pass[p] = "again"
      BY <1>2 DEF TestRead, ClearRead, TestWrite, ClearWrite, PollTypeOK
    <3> QED
      BY <2>1, <2>2, <3>1, <3>2 DEF RegisteredInv, Outside
  <2>5. StoreNotForgotten'
    <3> USE DEF PollTypeOK, StoreNotForgotten, Announced
    <3>1. CASE TestRead(p)
      BY <3>1 DEF TestRead
    <3>2. CASE ClearRead(p)
      BY <3>2 DEF ClearRead
    <3>3. CASE TestWrite(p)
      BY <3>3 DEF TestWrite
    <3>4. CASE ClearWrite(p)
      BY <3>4 DEF ClearWrite
    <3> QED
      BY <1>2, <3>1, <3>2, <3>3, <3>4
  <2> QED
    BY <2>1, <2>3, <2>4, <2>5
<1> QED
  BY <1>1, <1>2 DEF DummyPoll

\* A process leaves the queue: whatever that does to the others, they stay
\* linked, and until an old entry leaves only old ones are strays.
LEMMA PollLeaving ==
  ASSUME NEW p \in Pollers, PollInv, Deregister(p)
  PROVE  /\ Registered' = Registered \ {p} /\ (waitQueue \cap strays)' = {}
         /\ woken' \subseteq Registered' /\ missed' \subseteq Registered'
         /\ former' \subseteq Registered' /\ mixed' \in BOOLEAN
         /\ EntriesInv'
<1>1. Registered' = Registered \ {p} /\ (waitQueue \cap strays)' = {}
  BY DEF PollInv, PollTypeOK, Deregister, Unlink, Registered
<1>2. /\ woken' \subseteq Registered' /\ missed' \subseteq Registered'
      /\ former' \subseteq Registered' /\ mixed' \in BOOLEAN
  BY <1>1 DEF PollInv, PollTypeOK, Deregister
<1>3. ~mixed' => strays' = former'
  BY DEF PollInv, EntriesInv, Deregister, Unlink
<1>4. PassedOver'
  BY DEF PollInv, EntriesInv, PassedOver, Deregister
<1> QED
  BY <1>1, <1>2, <1>3, <1>4 DEF EntriesInv

\* The kernel leaves the wait queue for a process only when the call returns.
LEMMA PollReturnSteps ==
  ASSUME NEW p \in Pollers, PollInv,
         PollReturn(p) \/ AddReturn(p) \/ EpollReturn(p) \/ Awake(p) \/ Timeout(p)
  PROVE  PollInv'
<1> USE DEF PollInv, asking, flags, news, sysfs, At
<1>1. CASE PollReturn(p) /\ (mask[p] # {} \/ pass[p] = "last")
  <2>1. Deregister(p) /\ pass' = [pass EXCEPT ![p] = "none"] /\ At(p, "return", "user")
    BY <1>1 DEF PollReturn
  <2>2. PollTypeOK'
    BY <1>1, <2>1, PollLeaving DEF PollReturn, PollTypeOK
  <2>3. RegisteredInv' /\ StoreNotForgotten'
    BY <1>1, <2>1, PollLeaving DEF PollReturn, PollTypeOK, RegisteredInv, Outside, Inside,
                                   StoreNotForgotten, Announced
  <2> QED
    BY <2>1, <2>2, <2>3, PollLeaving
<1>2. CASE \/ PollReturn(p) /\ ~(mask[p] # {} \/ pass[p] = "last")
           \/ AddReturn(p) \/ EpollReturn(p) \/ Awake(p) \/ Timeout(p)
  <2> USE DEF PollReturn, AddReturn, EpollReturn, Awake, Timeout
  <2>1. UNCHANGED <<pollPhase, entries, missed, flags, unread, sysfs>>
        /\ at[p] \in Inside
    BY <1>2 DEF waiting, Inside
  <2>2. Registered' = Registered /\ EntriesInv' /\ p \in Registered
    BY <2>1, EntriesStay DEF RegisteredInv
  <2>3. woken' \subseteq Registered
    BY <1>2, <2>2 DEF waiting, PollTypeOK
  <2>4. PollTypeOK'
    BY <1>2, <2>1, <2>2, <2>3 DEF Lose, PollTypeOK, entries
  <2>5. RegisteredInv'
    BY <1>2, <2>2 DEF PollTypeOK, RegisteredInv, Outside, Inside
  <2>6. StoreNotForgotten'
    BY <1>2, <2>1 DEF Lose, PollTypeOK, StoreNotForgotten, Announced
  <2> QED
    BY <2>2, <2>4, <2>5, <2>6
<1> QED
  BY <1>1, <1>2

\* The programs ask, read and write, and go on.
LEMMA PollProgramSteps ==
  ASSUME NEW p \in Pollers, PollInv,
         \/ Open(p) \/ Call(p) \/ EpollAdd(p) \/ EpollWait(p)
         \/ Read(p) \/ Write(p) \/ KillPoller(p)
  PROVE  PollInv'
<1> USE DEF PollInv, asking, flags, news, sysfs, At, Ask
<1>1. CASE Open(p) \/ Call(p) \/ EpollAdd(p) \/ EpollWait(p) \/ Read(p) \/ Write(p)
  <2> USE DEF Open, Call, EpollAdd, EpollWait, Read, Write
  <2>1. UNCHANGED waiting /\ Registered' = Registered /\ EntriesInv'
    BY <1>1, EntriesStay DEF waiting
  <2>2. PollTypeOK'
    <3>1. /\ UNCHANGED <<pollPhase, canRead, canWrite, store, show, sysfsCalls>>
          /\ unread' \in BOOLEAN /\ lost' \in {"none", "add", "kill", "write"}
      BY <1>1 DEF PollTypeOK
    <3>2. at' \in [Pollers -> {"closed", "killed", "user", "poll_wait", "test_read",
                               "clear_read", "test_write", "clear_write", "return", "asleep"}]
      BY <1>1 DEF PollTypeOK
    <3>3. /\ pass' \in [Pollers -> {"none", "add", "first", "again", "last"}]
          /\ mask' \in [Pollers -> SUBSET {"in", "out"}]
      BY <1>1 DEF PollTypeOK
    <3> QED
      BY <2>1, <3>1, <3>2, <3>3 DEF PollTypeOK, waiting, entries
  <2>3. RegisteredInv'
    BY <1>1, <2>1 DEF PollTypeOK, RegisteredInv, Outside, Inside
  <2>4. StoreNotForgotten'
    <3>1. CASE Open(p) \/ Call(p) \/ EpollAdd(p) \/ EpollWait(p)
      <4>1. /\ UNCHANGED <<mask, canRead, store, unread, lost>>
            /\ \A q \in Pollers : at[q] = "clear_read" => at'[q] = "clear_read"
        BY <3>1 DEF PollTypeOK
      <4>2. Announced => Announced'
        BY <4>1 DEF Announced
      <4> QED
        BY <4>1, <4>2 DEF StoreNotForgotten
    <3>2. CASE Read(p)
      BY <3>2 DEF StoreNotForgotten
    <3>3. CASE Write(p)
      BY <3>3 DEF PollTypeOK, StoreNotForgotten, Announced
    <3> QED
      BY <1>1, <3>1, <3>2, <3>3
  <2> QED
    BY <2>1, <2>2, <2>3, <2>4
<1>2. CASE KillPoller(p)
  <2>1. PollTypeOK'
    BY <1>2, PollLeaving DEF KillPoller, Lose, PollTypeOK
  <2>2. RegisteredInv' /\ StoreNotForgotten'
    BY <1>2, PollLeaving DEF KillPoller, Lose, PollTypeOK, RegisteredInv, Outside, Inside,
                             StoreNotForgotten, Announced
  <2> QED
    BY <1>2, <2>1, <2>2, PollLeaving DEF KillPoller
<1> QED
  BY <1>1, <1>2

\* PollInv holds in every reachable state of the poll driver.
LEMMA PollInvariance == PollSpec => []PollInv
<1>1. ASSUME PollInv, [PollNext]_pollVars PROVE PollInv'
  <2>1. CASE UNCHANGED pollVars
    BY <1>1, <2>1 DEF pollVars, asking, waiting, entries, flags, news, sysfs, PollInv, PollTypeOK,
                      RegisteredInv, Outside, Registered, EntriesInv, PassedOver,
                      StoreNotForgotten, Announced
  <2> QED
    BY <1>1, <2>1, PollInitSteps, SysfsSteps, DummyPollSteps, PollReturnSteps, PollProgramSteps
    DEF PollNext, PollStep
<1> QED
  BY <1>1, PollStart, PTL DEF PollSpec

-----------------------------------------------------------------------------
(* The signal driver.                                                      *)

\* A process holds its own descriptor as long as it lives, and nobody but its
\* children has it besides.
HoldersInv ==
  \A a \in Apps : /\ a \in holders[a] <=> Alive(a)
                  /\ holders[a] \subseteq {a} \cup Heirs
                  /\ a \notin inherited => holders[a] \subseteq {a}

\* With the holders, the property itself is inductive.
SignalInv == SignalTypeOK /\ HoldersInv /\ SignalTargets

\* Nobody has opened the device before the driver is loaded.
LEMMA SignalStart == SignalInit => SignalInv
<1> SUFFICES ASSUME SignalInit PROVE SignalInv
  OBVIOUS
<1> USE DEF SignalInit, Alive, Waiting
<1>1. SignalTypeOK
  BY DEF SignalTypeOK
<1>2. HoldersInv /\ SignalTargets
  BY DEF HoldersInv, SignalTargets
<1> QED
  BY <1>1, <1>2 DEF SignalInv

\* The handler signals the process that task names, and finds it gone only if
\* a child has kept its file open.
LEMMA HandlerSteps ==
  SignalInv /\ (SignalLoad \/ Interrupt \/ TestTask \/ SendSignal) => SignalInv'
<1> SUFFICES ASSUME SignalInv, SignalLoad \/ Interrupt \/ TestTask \/ SendSignal
             PROVE  SignalInv'
  OBVIOUS
<1> USE DEF SignalInv, program, history
<1>1. CASE SignalLoad \/ Interrupt \/ TestTask
  <2>1. UNCHANGED <<sigTask, program, pending, history, sigFault>>
    BY <1>1 DEF SignalLoad, Interrupt, TestTask
  <2>2. sigLoaded' \in BOOLEAN /\ irq' \in {"idle", "test", "send"}
    BY <1>1 DEF SignalLoad, Interrupt, TestTask, SignalTypeOK
  <2> QED
    BY <2>1, <2>2 DEF SignalTypeOK, HoldersInv, SignalTargets, Alive, Waiting
<1>2. CASE SendSignal
  <2>1. SignalTypeOK'
    BY <1>2 DEF SendSignal, SignalTypeOK, Alive
  <2>2. HoldersInv'
    BY <1>2 DEF SendSignal, HoldersInv, Alive
  <2>3. sigFault' = "stale" => sigTask \in inherited
    BY <1>2 DEF SendSignal, SignalTypeOK, HoldersInv, SignalTargets, Alive
  <2>4. SignalTargets'
    BY <1>2, <2>3 DEF SendSignal, SignalTargets, Waiting
  <2> QED
    BY <2>1, <2>2, <2>4
<1> QED
  BY <1>1, <1>2

\* Only a process itself clears task, not a child that closes for it.
LEMMA Dropping ==
  ASSUME NEW a \in Apps, NEW p \in Apps \cup Heirs, SignalInv, Drop(p, a)
  PROVE  /\ holders' = [holders EXCEPT ![a] = @ \ {p}]
         /\ sigTask' \in {sigTask, Nobody}
         /\ sigTask' # sigTask => sigTask = p /\ holders[a] = {p}
         /\ sigTask = p /\ holders[a] = {p} => sigTask' = Nobody
BY DEF Drop, Release

\* A process that lives goes on in its program; its file stays open.
LEMMA AppSteps ==
  ASSUME NEW a \in Apps, SignalInv, sigFault = "none",
         \/ OpenDevice(a) \/ RegisterTask(a) \/ WaitLoop(a)
         \/ SigEventHandler(a) \/ CtrlC(a) \/ Reap(a)
  PROVE  SignalInv'
<1> USE AppsAssumption DEF SignalInv, program, history, Move
<1>1. CASE OpenDevice(a)
  BY <1>1 DEF OpenDevice, SignalTypeOK, HoldersInv, SignalTargets, Alive, Waiting
<1>2. CASE RegisterTask(a)
  BY <1>2 DEF RegisterTask, SignalTypeOK, HoldersInv, SignalTargets, Alive, Waiting
<1>3. CASE WaitLoop(a)
  BY <1>3 DEF WaitLoop, SignalTypeOK, HoldersInv, SignalTargets, Alive, Waiting
<1>4. CASE SigEventHandler(a)
  BY <1>4 DEF SigEventHandler, SignalTypeOK, HoldersInv, SignalTargets, Alive, Waiting
<1>5. CASE CtrlC(a)
  BY <1>5 DEF CtrlC, SignalTypeOK, HoldersInv, SignalTargets, Alive, Waiting
<1>6. CASE Reap(a)
  BY <1>6 DEF Reap, SignalTypeOK, HoldersInv, SignalTargets, Alive, Waiting
<1> QED
  BY <1>1, <1>2, <1>3, <1>4, <1>5, <1>6

\* A process closes its file, or dies: a child may keep it open.
LEMMA AppEnds ==
  ASSUME NEW a \in Apps, SignalInv, sigFault = "none", CloseDevice(a) \/ CtrlCAgain(a)
  PROVE  SignalInv'
<1> USE AppsAssumption DEF SignalInv, program, history, Move
<1>1. /\ Alive(a) /\ Drop(a, a)
      /\ appAt' = [appAt EXCEPT ![a] = "zombie"]
      /\ pending' = pending \ {a}
      /\ UNCHANGED <<sigLoaded, irq, done, check, displaced, inherited, sigFault>>
  BY DEF CloseDevice, CtrlCAgain, Alive
<1>2. /\ holders' = [holders EXCEPT ![a] = @ \ {a}]
      /\ sigTask' \in {sigTask, Nobody}
      /\ sigTask' # sigTask => sigTask = a
      /\ sigTask = a /\ holders[a] = {a} => sigTask' = Nobody
  BY <1>1, Dropping
<1>3. SignalTypeOK'
  BY <1>1, <1>2 DEF SignalTypeOK, Alive
<1>4. HoldersInv'
  BY <1>1, <1>2 DEF SignalTypeOK, HoldersInv, Alive
<1>5. SignalTargets'
  <2>1. a \notin inherited => holders[a] = {a}
    BY <1>1 DEF HoldersInv
  <2> QED
    BY <1>1, <1>2, <2>1 DEF SignalTypeOK, SignalTargets, Waiting
<1> QED
  BY <1>3, <1>4, <1>5

\* A child comes to hold the file of its parent and gives it up.
LEMMA HeirSteps ==
  ASSUME NEW a \in Apps, NEW h \in Heirs, SignalInv, sigFault = "none",
         Fork(a, h) \/ HeirExits(a, h)
  PROVE  SignalInv'
<1> USE AppsAssumption DEF SignalInv, program, history
<1>1. CASE Fork(a, h)
  BY <1>1 DEF Fork, SignalTypeOK, HoldersInv, SignalTargets, Alive, Waiting
<1>2. CASE HeirExits(a, h)
  <2>1. holders' = [holders EXCEPT ![a] = @ \ {h}] /\ sigTask' = sigTask
    BY <1>2, Dropping DEF HeirExits, SignalTypeOK
  <2> QED
    BY <1>2, <2>1 DEF HeirExits, SignalTypeOK, HoldersInv, SignalTargets, Alive, Waiting
<1> QED
  BY <1>1, <1>2

\* SignalInv holds in every reachable state of the signal driver.
LEMMA SignalInvariance == SignalSpec => []SignalInv
<1>1. ASSUME SignalInv, [SignalNext]_sigVars PROVE SignalInv'
  <2>1. CASE UNCHANGED sigVars
    BY <1>1, <2>1 DEF sigVars, program, history, SignalInv, SignalTypeOK, HoldersInv,
                      SignalTargets, Alive, Waiting
  <2> QED
    BY <1>1, <2>1, HandlerSteps, AppSteps, AppEnds, HeirSteps DEF SignalNext
<1> QED
  BY <1>1, SignalStart, PTL DEF SignalSpec

-----------------------------------------------------------------------------
(* The drivers that users share.                                           *)

\* What a cell of a row holds.
Letters  == Users \cup {Greeting, Nul}

\* The rows that fill the memory.
CellRows == [1..Cells -> Letters]

\* What a session may return: a row cut at Nul, whole rows, or a number.
Answers  == Seq(Letters \cup Nat \cup CellRows)

Places == {"start", "end", "copyin", "copyout", "read", "clear", "set",
           "wr_value", "rd_value", "load", "store", "show"}

\* Every variable stays in its range.
TypeInv ==
  /\ shDriver \in {"none", "buffer", "ioctl", "proc", "export"}
  /\ memory \in CellRows
  /\ ioValue \in Users \cup {0}
  /\ procLen \in {0, 1}
  /\ dummyCount \in Nat
  /\ userAt \in [Users -> Places]
  /\ userDoes \in [Users -> {"nothing", "write", "read", "ioctl", "count"}]
  /\ got \in [Users -> Seq(Letters \cup Nat)]
  /\ text \in [Users -> Seq(Letters)]
  /\ answer \in [Users -> Answers]
  /\ party \in SUBSET Users /\ left \in SUBSET Users
  /\ before \in [cells : CellRows, len : {0, 1}, count : Nat]

\* Where a user is shows which driver is loaded and what the user does, and
\* who is in the driver is of the party.
PlaceInv ==
  \A u \in Users :
    /\ shDriver = "none" => userAt[u] = "start"
    /\ userAt[u] = "start" <=> userDoes[u] = "nothing"
    /\ userAt[u] = "start" => u \notin party
    /\ u \in Active => u \in party
    /\ userDoes[u] \in {"write", "read"} => shDriver \in {"buffer", "proc"}
    /\ userDoes[u] = "ioctl" => shDriver = "ioctl"
    /\ userDoes[u] = "count" => shDriver = "export"
    /\ userAt[u] = "copyin" => userDoes[u] = "write"
    /\ userAt[u] = "copyout" => userDoes[u] = "read"
    /\ userAt[u] \in {"read", "clear", "set"} => userDoes[u] = "read" /\ shDriver = "proc"
    /\ userAt[u] \in {"wr_value", "rd_value"} => userDoes[u] = "ioctl"
    /\ userAt[u] \in {"load", "store", "show"} => userDoes[u] = "count"

\* How far a user has copied.
RowInv ==
  \A u \in Users :
    /\ userAt[u] \in {"start", "read", "clear", "set"} => got[u] = <<>>
    /\ userAt[u] = "copyin" => Len(got[u]) < Len(text[u]) /\ Len(text[u]) <= Cells
    /\ userAt[u] = "copyout" => got[u] \in Seq(Letters) /\ Len(got[u]) < Cells
    /\ Len(got[u]) <= Cells

\* How much a user has been told.  The proc file is read again until it says
\* that there is no more, and the program gives up after MaxReads.
AnswerInv ==
  \A u \in Users :
    /\ userAt[u] = "start" => answer[u] = <<>>
    /\ shDriver = "proc" => Len(answer[u]) <= MaxReads
    /\ shDriver = "buffer" => Len(answer[u]) <= Cells
    /\ shDriver \in {"ioctl", "export"} => Len(answer[u]) <= 1
    /\ shDriver = "proc" /\ userAt[u] \in {"clear", "copyout"} => Len(answer[u]) < MaxReads

\* A cell holds what one of the party has written, or what it held when the
\* driver was last quiet and all who will overwrite it are still on the way.
CellInv ==
  \A i \in 1..Cells :
    \/ memory[i] \in Written(i)
    \/ /\ memory[i] = before.cells[i]
       /\ \A w \in Covering(i) : userAt[w] = "copyin" /\ Len(got[w]) < i

\* What u has copied or been given was there at the last quiet moment or has
\* been written since.
Pictured(u) ==
  /\ userAt[u] = "copyout" => \A i \in 1..Len(got[u]) : got[u][i] \in MayShow(i)
  /\ shDriver = "proc" /\ u \in Doing("read") =>
       \A k \in 1..Len(answer[u]) : \A i \in 1..Cells : answer[u][k][i] \in MayShow(i)
  /\ shDriver = "buffer" /\ u \in Doing("read") /\ userAt[u] = "end" =>
       /\ \A i \in 1..Len(answer[u]) : answer[u][i] \in MayShow(i) \ {Nul}
       /\ Len(answer[u]) < Cells => Nul \in MayShow(Len(answer[u]) + 1)

PictureInv == \A u \in Users : Pictured(u)

\* Where a reader of the proc file that has met nobody finds the toggle.
Solo(u) ==
  /\ userAt[u] = "read" => \/ answer[u] = <<>> /\ procLen = before.len
                           \/ Len(answer[u]) = 1 /\ before.len = 1 /\ procLen = 0
  /\ userAt[u] = "clear" => answer[u] = <<>> /\ before.len = 1
  /\ userAt[u] = "copyout" => answer[u] = <<>> /\ before.len = 1 /\ procLen = 0
  /\ userAt[u] \in {"set", "end"} => Len(answer[u]) = before.len

\* The toggle is at 0 only while a reader is there or when one has left early.
ToggleInv ==
  /\ shDriver # "proc" => procLen = 1 /\ before.len = 1
  /\ Doing("read") = {} => procLen = before.len
  /\ Doing("read") # {} /\ procLen = 0 => Active \cap Doing("read") # {} \/ left \cap party # {}
  /\ \A u \in Doing("read") : shDriver = "proc" /\ party = {u} => Solo(u)

\* Who of the party has stored a new count, and the counts it may have stored.
Stored == {u \in Doing("count") : userAt[u] \in {"show", "end"}}
Tally  == before.count..(before.count + Cardinality(Stored))

\* Each of the party adds at most one, the first to store at least one.
TallyInv ==
  /\ dummyCount \in Tally
  /\ Stored # {} => dummyCount > before.count
  /\ \A u \in Users : userAt[u] = "store" => got[u] = <<got[u][1]>> /\ got[u][1] \in Tally
  /\ \A u \in Stored : userAt[u] = "end" =>
       \E n \in (before.count + 1)..(before.count + Cardinality(Doing("count"))) : answer[u] = <<n>>

\* The ioctl driver holds the value of one of the party once one has set it.
ValueInv ==
  \A u \in Doing("ioctl") : /\ userAt[u] = "rd_value" => ioValue \in party
                            /\ userAt[u] = "end" => \E v \in party : answer[u] = <<v>>

\* All of it.
SharedInv == /\ TypeInv /\ PlaceInv /\ RowInv /\ AnswerInv /\ CellInv /\ PictureInv
             /\ ToggleInv /\ TallyInv /\ ValueInv
-----------------------------------------------------------------------------
\* A set of numbers that is not empty has a least one.
LEMMA Least == ASSUME NEW T \in SUBSET Nat, T # {} PROVE \E x \in T : \A y \in T : x <= y
<1> DEFINE LT == {ss \in Nat \X Nat : ss[1] < ss[2]}
<1>1. IsWellFoundedOn(LT, Nat)
  BY NatLessThanWellFounded, Zenon DEF OpToRel
<1>2. \A x, y \in Nat : x < y => <<x, y>> \in LT
  OBVIOUS
<1> HIDE DEF LT
<1>3. PICK x \in T : \A y \in T : ~ (<<y, x>> \in LT)
  BY <1>1, WFMin
<1>4. \A y \in T : ~ (y < x)
  BY <1>2, <1>3
<1> QED
  BY <1>4

\* What is shown of a row is the row up to the first Nul, or all of it.
LEMMA ShownCells ==
  ASSUME NEW row \in CellRows
  PROVE  /\ Shown(row) \in Seq(Letters) /\ Len(Shown(row)) <= Cells
         /\ \A i \in 1..Len(Shown(row)) : Shown(row)[i] = row[i] /\ row[i] # Nul
         /\ Len(Shown(row)) < Cells => row[Len(Shown(row)) + 1] = Nul
<1>1. row \in Seq(Letters) /\ Len(row) = Cells /\ DOMAIN row = 1..Cells
  BY CellsAssumption DEF CellRows
<1>2. CASE \E i \in DOMAIN row : row[i] = Nul
  <2> DEFINE first == CHOOSE i \in DOMAIN row : row[i] = Nul /\ \A j \in 1..(i - 1) : row[j] # Nul
  <2>1. \E i \in DOMAIN row : row[i] = Nul /\ \A j \in 1..(i - 1) : row[j] # Nul
    <3> DEFINE T == {i \in DOMAIN row : row[i] = Nul}
    <3>1. T \in SUBSET Nat /\ T # {}
      BY <1>1, <1>2
    <3>2. PICK x \in T : \A y \in T : x <= y
      BY <3>1, Least
    <3>3. \A j \in 1..(x - 1) : j \in DOMAIN row /\ ~(x <= j)
      BY <1>1, CellsAssumption
    <3> QED
      BY <3>2, <3>3
  <2>2. first \in DOMAIN row /\ row[first] = Nul /\ \A j \in 1..(first - 1) : row[j] # Nul
    BY <2>1
  <2> HIDE DEF first
  <2>3. first \in 1..Len(row) /\ Len(row) \in Nat
    BY <1>1, <2>2, CellsAssumption
  <2>4. /\ SubSeq(row, 1, first - 1) \in Seq(Letters) /\ Len(SubSeq(row, 1, first - 1)) = first - 1
        /\ \A i \in 1..(first - 1) : SubSeq(row, 1, first - 1)[i] = row[i]
    BY <1>1, <2>3, SubSeqProperties, ElementOfSeq
  <2>5. Shown(row) = SubSeq(row, 1, first - 1)
    BY <1>2 DEF Shown, first
  <2>6. first - 1 <= Cells /\ first - 1 + 1 = first
    BY <1>1, <2>3, CellsAssumption
  <2> HIDE DEF Shown
  <2> QED
    BY <2>2, <2>4, <2>5, <2>6
<1>3. CASE ~\E i \in DOMAIN row : row[i] = Nul
  <2>1. Shown(row) = row
    BY <1>3 DEF Shown
  <2> QED
    BY <1>1, <1>3, <2>1, CellsAssumption
<1> QED
  BY <1>2, <1>3

\* What Row returns, with and without the Nul that ends it.
LEMMA Rows ==
  ASSUME NEW len \in Nat, NEW c
  PROVE  /\ Row(len, c) \in Seq({c}) /\ Len(Row(len, c)) = len
         /\ Row(len, c) \o <<Nul>> \in Seq({c, Nul}) /\ Len(Row(len, c) \o <<Nul>>) = len + 1
<1>1. Row(len, c) \in Seq({c}) /\ Len(Row(len, c)) = len
  BY DEF Row
<1> HIDE DEF Row
<1>2. Row(len, c) \in Seq({c, Nul}) /\ <<Nul>> \in Seq({c, Nul}) /\ Len(<<Nul>>) = 1
  BY <1>1
<1> QED
  BY <1>1, <1>2

\* The memory starts as a row.
LEMMA AtFirst == Initially \in CellRows
<1>1. Cells - 1 \in Nat
  BY CellsAssumption
<1> DEFINE row == Row(Cells - 1, Greeting) \o <<Nul>>
<1>2. row \in Seq({Greeting, Nul}) /\ Len(row) = Cells - 1 + 1
  BY <1>1, Rows
<1>3. Len(row) = Cells
  BY <1>2, CellsAssumption
<1> HIDE DEF row
<1>4. row \in [1..Cells -> {Greeting, Nul}]
  BY <1>2, <1>3, LenProperties
<1> QED
  BY <1>4 DEF CellRows, Letters, Initially, row

\* Sets of users have a size, and the larger set the larger one.
LEMMA Sizes ==
  ASSUME NEW S \in SUBSET Users, NEW T \in SUBSET Users, S \subseteq T
  PROVE  Cardinality(S) \in Nat /\ Cardinality(T) \in Nat /\ Cardinality(S) <= Cardinality(T)
<1>1. IsFiniteSet(T)
  BY UsersAssumption, FS_Subset
<1> QED
  BY <1>1, FS_Subset, FS_CardinalityType

\* Before a driver is loaded nothing has been written or read.
LEMMA SharedStart == SharedInit => SharedInv
<1> SUFFICES ASSUME SharedInit PROVE SharedInv
  OBVIOUS
<1>1. /\ party = {} /\ left = {} /\ Active = {} /\ Stored = {}
      /\ \A what : Doing(what) = {}
      /\ \A i : Covering(i) = {}
  BY DEF SharedInit, Active, Stored, Doing, Covering
<1>2. TypeInv
  <2>1. before \in [cells : CellRows, len : {0, 1}, count : Nat]
    BY AtFirst DEF SharedInit
  <2>2. /\ got \in [Users -> Seq(Letters \cup Nat)] /\ text \in [Users -> Seq(Letters)]
        /\ answer \in [Users -> Answers]
    BY DEF SharedInit, Answers
  <2> QED
    BY <2>1, <2>2, AtFirst DEF SharedInit, TypeInv, Places
<1>3. PlaceInv /\ RowInv /\ AnswerInv
  BY <1>1, CellsAssumption DEF SharedInit, PlaceInv, RowInv, AnswerInv
<1>4. CellInv /\ PictureInv /\ ToggleInv /\ ValueInv
  BY <1>1 DEF SharedInit, CellInv, PictureInv, Pictured, ToggleInv, ValueInv
<1>5. TallyInv
  <2>1. Cardinality(Stored) = 0
    BY <1>1, FS_EmptySet
  <2> QED
    BY <1>1, <2>1 DEF SharedInit, TallyInv, Tally
<1> QED
  BY <1>2, <1>3, <1>4, <1>5 DEF SharedInv

\* Loading changes nothing but the driver.
LEMMA LoadSteps == SharedInv /\ SharedLoad => SharedInv'
<1> SUFFICES ASSUME SharedInv, SharedLoad PROVE SharedInv'
  OBVIOUS
<1> USE DEF SharedInv, driverData, session
<1>1. /\ \A u \in Users : userAt[u] = "start" /\ userDoes[u] = "nothing"
                          /\ answer[u] = <<>> /\ u \notin party
      /\ Active = {} /\ party = {} /\ Active' = Active
  BY DEF SharedLoad, PlaceInv, AnswerInv, TypeInv, Active
<1>2. /\ Stored' = Stored /\ \A what : Doing(what)' = Doing(what) /\ Doing(what) = {}
      /\ \A i : Covering(i)' = Covering(i) /\ Written(i)' = Written(i) /\ MayShow(i)' = MayShow(i)
  BY <1>1 DEF SharedLoad, Stored, Doing, Covering, Written, MayShow
<1>3. TypeInv' /\ PlaceInv' /\ RowInv'
  BY <1>1 DEF SharedLoad, TypeInv, PlaceInv, RowInv
<1>4. AnswerInv'
  BY <1>1, CellsAssumption, MaxReadsAssumption DEF SharedLoad, AnswerInv
<1>5. CellInv'
  BY <1>2 DEF SharedLoad, CellInv
<1>6. PictureInv' /\ ToggleInv' /\ ValueInv'
  BY <1>1, <1>2 DEF SharedLoad, PictureInv, Pictured, ToggleInv, ValueInv
<1>7. TallyInv'
  BY <1>1, <1>2 DEF SharedLoad, TallyInv, Tally
<1> QED
  BY <1>3, <1>4, <1>5, <1>6, <1>7

\* What a user is to do, and where it begins to.
Errands == {<<"write", "copyin">>, <<"read", "copyout">>, <<"read", "read">>,
            <<"ioctl", "wr_value">>, <<"count", "load">>}

\* A user that begins a session changes nothing that others rely on.  Alone, it
\* begins a party; otherwise it joins one.
LEMMA Beginning ==
  ASSUME SharedInv, NEW u \in Users, NEW what, NEW to, <<what, to>> \in Errands, Begin(u, what, to),
         text' \in [Users -> Seq(Letters)], \A v \in Users \ {u} : text'[v] = text[v],
         what = "write" => Len(text'[u]) \in 1..Cells,
         what \in {"write", "read"} => shDriver \in {"buffer", "proc"},
         what = "read" => (shDriver = "proc" <=> to = "read"),
         what = "ioctl" => shDriver = "ioctl", what = "count" => shDriver = "export"
  PROVE  SharedInv'
<1> USE DEF SharedInv, driverData, Errands
<1>1. /\ userAt[u] = "start" /\ u \notin Active /\ u \notin party /\ userDoes[u] = "nothing"
      /\ userAt'[u] = to /\ userDoes'[u] = what /\ got[u] = <<>> /\ answer[u] = <<>>
      /\ Len(<<>>) = 0
      /\ \A v \in Users \ {u} : userAt'[v] = userAt[v] /\ userDoes'[v] = userDoes[v]
      /\ Active' = Active \cup {u}
      /\ UNCHANGED <<shDriver, memory, ioValue, procLen, dummyCount, got, answer, left>>
  BY DEF Begin, TypeInv, PlaceInv, RowInv, AnswerInv, Active
<1>2. /\ userAt' \in [Users -> Places]
      /\ userDoes' \in [Users -> {"nothing", "write", "read", "ioctl", "count"}]
      /\ party' \in SUBSET Users /\ u \in party' /\ Active' \subseteq party' /\ party' \subseteq party \cup {u}
      /\ before' \in [cells : CellRows, len : {0, 1}, count : Nat]
  <2>1. Active \subseteq party
    BY DEF PlaceInv, Active
  <2>2. [cells |-> memory, len |-> procLen, count |-> dummyCount]
          \in [cells : CellRows, len : {0, 1}, count : Nat]
    BY DEF TypeInv
  <2>3. /\ userAt' \in [Users -> Places]
        /\ userDoes' \in [Users -> {"nothing", "write", "read", "ioctl", "count"}]
    BY DEF Begin, TypeInv, Places
  <2>4. CASE Active = {}
    BY <1>1, <2>2, <2>3, <2>4 DEF Begin
  <2>5. CASE Active # {}
    <3>1. party' = party \cup {u} /\ before' = before
      BY <2>5 DEF Begin
    <3>2. party \in SUBSET Users /\ before \in [cells : CellRows, len : {0, 1}, count : Nat]
      BY DEF TypeInv
    <3> QED
      BY <1>1, <2>1, <2>3, <3>1, <3>2
  <2> QED
    BY <2>4, <2>5
<1>3. TypeInv'
  <2>1. text' \in [Users -> Seq(Letters)]
    BY DEF TypeInv
  <2> QED
    BY <1>1, <1>2, <2>1 DEF TypeInv
<1>4. PlaceInv'
  <2>1. u \in Active' /\ u \in party' /\ shDriver' = shDriver /\ shDriver # "none"
    BY <1>1, <1>2 DEF TypeInv
  <2>2. \A v \in Users \ {u} : /\ v \in party' => v \in party
                               /\ v \in Active' => v \in party'
                               /\ v \in Active' <=> v \in Active
    BY <1>1, <1>2
  <2> QED
    BY <1>1, <2>1, <2>2 DEF PlaceInv
<1>5. RowInv'
  <2>1. to = "copyin" => Len(text'[u]) \in 1..Cells
    OBVIOUS
  <2>2. to = "copyin" => 0 < Len(text'[u]) /\ Len(text'[u]) <= Cells
    BY <2>1, CellsAssumption
  <2>3. <<>> \in Seq(Letters) /\ 0 < Cells /\ 0 <= Cells
    BY CellsAssumption
  <2>4. \A v \in Users \ {u} : userAt'[v] = userAt[v] /\ got'[v] = got[v] /\ text'[v] = text[v]
    BY <1>1
  <2>5. /\ got'[u] = <<>> /\ userAt'[u] = to
        /\ to \in {"copyin", "copyout", "read", "wr_value", "load"}
    BY <1>1
  <2> QED
    BY <1>1, <2>2, <2>3, <2>4, <2>5 DEF RowInv
<1>6. AnswerInv'
  BY <1>1, MaxReadsAssumption, CellsAssumption DEF AnswerInv
<1>7. CASE Active = {}
  <2>1. /\ party' = {u} /\ before' = [cells |-> memory, len |-> procLen, count |-> dummyCount]
        /\ Stored' = {}
        /\ Doing("write")' \subseteq {u} /\ Doing("count")' \subseteq {u} /\ Doing("ioctl")' \subseteq {u}
        /\ Doing("read")' = IF what = "read" THEN {u} ELSE {}
        /\ \A v \in Users \ {u} : userAt[v] \in {"start", "end"}
        /\ \A i \in 1..Cells : Covering(i)' \subseteq {u} /\ (Covering(i)' # {} => what = "write")
    BY <1>1, <1>7 DEF Begin, Doing, Stored, Covering, Active
  <2>2. CellInv'
    BY <1>1, <2>1 DEF CellInv
  <2>3. PictureInv'
    BY <1>1, <2>1 DEF PictureInv, Pictured
  <2>4. ToggleInv'
    <3>1. /\ Doing("read")' # {} => Active' \cap Doing("read")' # {}
          /\ procLen' = before'.len
      BY <1>1, <2>1
    <3>2. \A v \in Doing("read")' : v = u /\ userAt'[v] \in {"read", "copyout"}
            /\ (shDriver' = "proc" => userAt'[v] = "read")
      BY <1>1, <2>1
    <3>3. \A v \in Doing("read")' : shDriver' = "proc" => Solo(v)'
      BY <1>1, <3>1, <3>2 DEF Solo
    <3>4. shDriver' # "proc" => procLen' = 1
      BY <1>1 DEF ToggleInv
    <3> QED
      BY <3>1, <3>3, <3>4 DEF ToggleInv
  <2>5. TallyInv'
    <3>1. Cardinality({}) = 0
      BY FS_EmptySet
    <3>2. dummyCount' \in Tally'
      BY <1>1, <2>1, <3>1 DEF Tally, TypeInv
    <3>3. \A v \in Users : userAt'[v] # "store"
      BY <1>1, <2>1
    <3> QED
      BY <2>1, <3>2, <3>3 DEF TallyInv
  <2>6. ValueInv'
    BY <1>1, <2>1 DEF ValueInv
  <2> QED
    BY <1>3, <1>4, <1>5, <1>6, <2>2, <2>3, <2>4, <2>5, <2>6
<1>8. CASE Active # {}
  <2>1. /\ party' = party \cup {u} /\ before' = before
        /\ Stored' = Stored
        /\ \A w \in {"write", "read", "ioctl", "count"} :
             Doing(w)' = Doing(w) \cup (IF what = w THEN {u} ELSE {})
    BY <1>1, <1>8 DEF Begin, Doing, Stored
  <2>2. \A i \in 1..Cells : /\ Covering(i)' \subseteq Covering(i) \cup {u}
                            /\ u \in Covering(i)' => what = "write"
                            /\ Covering(i) \subseteq Covering(i)'
                            /\ Written(i) \subseteq Written(i)'
    <3> TAKE i \in 1..Cells
    <3>1. /\ Doing("write")' \subseteq Doing("write") \cup {u}
          /\ Doing("write") \subseteq Doing("write")'
          /\ u \in Doing("write")' => what = "write"
          /\ u \notin Doing("write")
          /\ Doing("write") \subseteq Users
      BY <1>1, <2>1 DEF Doing, TypeInv
    <3>2. \A v \in Doing("write") : text'[v] = text[v]
      BY <3>1
    <3>3. /\ Covering(i)' \subseteq Covering(i) \cup {u}
          /\ u \in Covering(i)' => what = "write"
          /\ Covering(i) \subseteq Covering(i)'
          /\ Covering(i) \subseteq Doing("write")
      BY <3>1, <3>2 DEF Covering
    <3>4. Written(i) \subseteq Written(i)'
      BY <3>2, <3>3 DEF Written
    <3> QED
      BY <3>3, <3>4
  <2>3. \A i \in 1..Cells : MayShow(i) \subseteq MayShow(i)'
    BY <2>1, <2>2 DEF MayShow
  <2>4. CellInv'
    <3> SUFFICES ASSUME NEW i \in 1..Cells
                 PROVE  \/ memory'[i] \in Written(i)'
                        \/ /\ memory'[i] = before'.cells[i]
                           /\ \A w \in Covering(i)' : userAt'[w] = "copyin" /\ Len(got'[w]) < i
      BY DEF CellInv
    <3>1. \A w \in Covering(i) : w \in Users \ {u}
      BY <1>1 DEF Covering, Doing, TypeInv
    <3>2. u \in Covering(i)' => userAt'[u] = "copyin" /\ Len(got'[u]) < i
      BY <1>1, <2>2
    <3> QED
      BY <1>1, <2>1, <2>2, <3>1, <3>2 DEF CellInv
  <2>5. PictureInv'
    <3>1. \A v \in Users \ {u} : Pictured(v)'
      <4> TAKE v \in Users \ {u}
      <4>1. /\ userAt'[v] = userAt[v] /\ got'[v] = got[v] /\ answer'[v] = answer[v]
            /\ shDriver' = shDriver /\ (v \in Doing("read")' <=> v \in Doing("read"))
        BY <1>1, <2>1
      <4>2. Len(got[v]) <= Cells /\ Len(got[v]) \in Nat
        BY DEF RowInv, TypeInv
      <4>3. shDriver = "buffer" => Len(answer[v]) <= Cells /\ Len(answer[v]) \in Nat
        BY DEF AnswerInv, TypeInv, Answers
      <4>4. Pictured(v)
        BY DEF PictureInv
      <4> DEFINE len == Len(got[v])
                 size == Len(answer[v])
      <4>5. /\ \A i \in 1..len : i \in 1..Cells
            /\ shDriver = "buffer" => \A i \in 1..size : i \in 1..Cells
            /\ shDriver = "buffer" /\ size < Cells => size + 1 \in 1..Cells
        BY <4>2, <4>3, CellsAssumption
      <4>6. Len(got'[v]) = len /\ Len(answer'[v]) = size
        BY <4>1
      <4> HIDE DEF len, size
      <4>7. (\A i \in 1..len : got[v][i] \in MayShow(i)) =>
              \A i \in 1..len : got'[v][i] \in MayShow(i)'
        BY <2>3, <4>1, <4>5
      <4>8. (\A k \in 1..size : \A i \in 1..Cells : answer[v][k][i] \in MayShow(i)) =>
              \A k \in 1..size : \A i \in 1..Cells : answer'[v][k][i] \in MayShow(i)'
        BY <2>3, <4>1
      <4>9. shDriver = "buffer" =>
              /\ (\A i \in 1..size : answer[v][i] \in MayShow(i) \ {Nul}) =>
                    \A i \in 1..size : answer'[v][i] \in MayShow(i)' \ {Nul}
              /\ size < Cells =>
                   (Nul \in MayShow(size + 1) => \A i \in {size + 1} : Nul \in MayShow(i)')
        BY <2>3, <4>1, <4>5
      <4> QED
        BY <4>1, <4>4, <4>7, <4>8, <4>9, <4>6 DEF Pictured, len, size
    <3>2. Pictured(u)'
      BY <1>1 DEF Pictured
    <3> QED
      BY <3>1, <3>2 DEF PictureInv
  <2>6. ToggleInv'
    <3>1. \A v \in Users : party' # {v}
      BY <1>1, <1>8, <2>1 DEF PlaceInv, Active
    <3>2. Doing("read") \subseteq Doing("read")' /\ Active \subseteq Active'
      BY <1>1, <2>1
    <3>3. Doing("read")' # {} => Doing("read") # {} \/ Active' \cap Doing("read")' # {}
      BY <1>1, <2>1
    <3>4. Doing("read")' \subseteq Users
      BY <1>2 DEF Doing
    <3> QED
      BY <1>1, <2>1, <3>1, <3>2, <3>3, <3>4 DEF ToggleInv
  <2>7. TallyInv'
    <3>1. /\ Cardinality(Doing("count")) \in Nat /\ Cardinality(Doing("count")') \in Nat
          /\ Cardinality(Doing("count")) <= Cardinality(Doing("count")')
      <4>1. /\ Doing("count") \in SUBSET Users /\ Doing("count")' \in SUBSET Users
            /\ Doing("count") \subseteq Doing("count")'
        BY <1>2, <2>1 DEF Doing, TypeInv
      <4> QED
        BY <4>1, Sizes
    <3>2. Tally' = Tally /\ dummyCount' = dummyCount
      BY <1>1, <2>1 DEF Tally
    <3>3. u \notin Stored /\ Stored \subseteq Users
      BY <1>1 DEF Stored, Doing, TypeInv
    <3>4. \A v \in Stored : /\ v \in Users \ {u} /\ userAt'[v] = userAt[v] /\ answer'[v] = answer[v]
      BY <1>1, <3>3
    <3>5. before.count \in Nat /\ before'.count = before.count
      BY <2>1 DEF TypeInv
    <3>6. \A n \in (before.count + 1)..(before.count + Cardinality(Doing("count"))) :
             n \in (before'.count + 1)..(before'.count + Cardinality(Doing("count")'))
      BY <3>1, <3>5
    <3>7. \A v \in Stored' : userAt'[v] = "end" =>
             \E n \in (before'.count + 1)..(before'.count + Cardinality(Doing("count")')) :
                answer'[v] = <<n>>
      BY <2>1, <3>4, <3>6 DEF TallyInv
    <3>8. \A v \in Users : userAt'[v] = "store" => got'[v] = <<got'[v][1]>> /\ got'[v][1] \in Tally'
      BY <1>1, <3>2 DEF TallyInv
    <3> QED
      BY <2>1, <3>2, <3>5, <3>7, <3>8 DEF TallyInv
  <2>8. ValueInv'
    <3>1. \A v \in Doing("ioctl")' : v = u \/ (v \in Doing("ioctl") /\ v \in Users \ {u})
      BY <1>1, <2>1 DEF Doing, TypeInv
    <3>2. userAt'[u] \notin {"rd_value", "end"} /\ party \subseteq party'
      BY <1>1, <2>1
    <3> QED
      BY <1>1, <3>1, <3>2 DEF ValueInv
  <2> QED
    BY <1>3, <1>4, <1>5, <1>6, <2>4, <2>5, <2>6, <2>7, <2>8
<1> QED
  BY <1>7, <1>8

\* The three ways to begin.
LEMMA Begins ==
  ASSUME SharedInv, NEW u \in Users, BeginWrite(u) \/ BeginRead(u) \/ BeginCall(u)
  PROVE  SharedInv'
<1>1. SharedInv /\ text \in [Users -> Seq(Letters)]
  BY DEF SharedInv, TypeInv
<1>2. CASE BeginWrite(u)
  <2>1. PICK len \in 1..(Cells - 1) :
          /\ shDriver \in {"buffer", "proc"} /\ Begin(u, "write", "copyin")
          /\ text' = [text EXCEPT ![u] = IF shDriver = "buffer" THEN WithNul(u, len) ELSE Row(len, u)]
    BY <1>2 DEF BeginWrite
  <2>2. len \in Nat /\ len + 1 \in 1..Cells /\ len \in 1..Cells
    BY CellsAssumption
  <2>3. /\ Row(len, u) \in Seq(Letters) /\ Len(Row(len, u)) = len
        /\ WithNul(u, len) \in Seq(Letters) /\ Len(WithNul(u, len)) = len + 1
    <3>1. {u} \subseteq Letters /\ {u, Nul} \subseteq Letters
      BY DEF Letters
    <3>2. /\ Row(len, u) \in Seq({u}) /\ Len(Row(len, u)) = len
          /\ WithNul(u, len) \in Seq({u, Nul}) /\ Len(WithNul(u, len)) = len + 1
      BY <2>2, Rows DEF WithNul
    <3> QED
      BY <3>1, <3>2
  <2>4. /\ text' \in [Users -> Seq(Letters)] /\ \A v \in Users \ {u} : text'[v] = text[v]
        /\ Len(text'[u]) \in 1..Cells
    BY <1>1, <2>1, <2>2, <2>3
  <2> QED
    BY <1>1, <2>1, <2>4, Beginning DEF Errands
<1>3. CASE BeginRead(u)
  BY <1>1, <1>3, Beginning DEF BeginRead, Errands
<1>4. CASE BeginCall(u)
  BY <1>1, <1>4, Beginning DEF BeginCall, Errands
<1> QED
  BY <1>2, <1>3, <1>4

\* What changes when a user goes from one place of its session to the next.
LEMMA Stepping ==
  ASSUME SharedInv, NEW u \in Users, NEW from \in Places \ {"start", "end"},
         NEW to \in Places \ {"start"}, Step(u, from, to)
  PROVE  /\ userAt[u] = from /\ userAt'[u] = to /\ u \in Active /\ u \in party
         /\ \A v \in Users \ {u} : userAt'[v] = userAt[v]
         /\ userAt' \in [Users -> Places]
         /\ Active' = IF to = "end" THEN Active \ {u} ELSE Active
         /\ UNCHANGED <<shDriver, userDoes, text, party, before>>
         /\ \A w \in {"write", "read", "ioctl", "count"} : Doing(w)' = Doing(w)
         /\ \A i \in Nat : /\ Covering(i)' = Covering(i) /\ Written(i)' = Written(i)
                           /\ MayShow(i)' = MayShow(i)
<1> USE DEF Step, session
<1>1. /\ userAt[u] = from /\ userAt'[u] = to /\ u \in Active
      /\ \A v \in Users \ {u} : userAt'[v] = userAt[v]
      /\ userAt' \in [Users -> Places]
  BY DEF SharedInv, TypeInv, Active
<1>2. Active' = IF to = "end" THEN Active \ {u} ELSE Active
  BY <1>1 DEF Active
<1>3. u \in party
  BY <1>1 DEF SharedInv, PlaceInv
<1>4. UNCHANGED <<shDriver, userDoes, text, party, before>>
  OBVIOUS
<1>5. \A w \in {"write", "read", "ioctl", "count"} : Doing(w)' = Doing(w)
  BY <1>4 DEF Doing
<1>6. \A i \in Nat : Covering(i)' = Covering(i)
  BY <1>4 DEF Covering, Doing
<1>7. \A i \in Nat : Written(i)' = Written(i)
  BY <1>4, <1>6 DEF Written
<1>8. \A i \in Nat : MayShow(i)' = MayShow(i)
  BY <1>4, <1>7 DEF MayShow
<1> QED
  BY <1>1, <1>2, <1>3, <1>4, <1>5, <1>6, <1>7, <1>8

\* A user that does not copy into the memory leaves the cells alone.
LEMMA CellsStay ==
  ASSUME SharedInv, NEW u \in Users, NEW from \in Places \ {"start", "end"},
         NEW to \in Places \ {"start"}, Step(u, from, to), from # "copyin",
         memory' = memory, \A v \in Users \ {u} : got'[v] = got[v]
  PROVE  CellInv'
<1> SUFFICES ASSUME NEW i \in 1..Cells
             PROVE  \/ memory'[i] \in Written(i)'
                    \/ /\ memory'[i] = before'.cells[i]
                       /\ \A w \in Covering(i)' : userAt'[w] = "copyin" /\ Len(got'[w]) < i
  BY DEF CellInv
<1>1. /\ Covering(i)' = Covering(i) /\ Written(i)' = Written(i) /\ before' = before
      /\ userAt[u] = from /\ \A v \in Users \ {u} : userAt'[v] = userAt[v]
  BY Stepping, CellsAssumption
<1>2. Covering(i) \subseteq Users
  BY DEF Covering, Doing, SharedInv, TypeInv
<1>3. \/ memory[i] \in Written(i)
      \/ /\ memory[i] = before.cells[i]
         /\ \A w \in Covering(i) : userAt[w] = "copyin" /\ Len(got[w]) < i
  BY DEF SharedInv, CellInv
<1> QED
  BY <1>1, <1>2, <1>3

\* What v has copied and been given stays what was there, whatever others do.
LEMMA PicturesStay ==
  ASSUME SharedInv, NEW u \in Users, NEW from \in Places \ {"start", "end"},
         NEW to \in Places \ {"start"}, Step(u, from, to), NEW v \in Users,
         got'[v] = got[v], answer'[v] = answer[v],
         v = u => shDriver # "buffer" \/ u \notin Doing("read"),
         v = u /\ to = "copyout" => got[u] = <<>>
  PROVE  Pictured(v)'
<1>1. /\ userAt'[u] = to
      /\ v # u => userAt'[v] = userAt[v]
      /\ shDriver' = shDriver /\ Doing("read")' = Doing("read")
      /\ \A i \in Nat : MayShow(i)' = MayShow(i)
  BY Stepping
<1>2. Pictured(v)
  BY DEF SharedInv, PictureInv
<1>3. Len(got[v]) \in Nat /\ Len(answer[v]) \in Nat /\ Cells \in Nat
  BY CellsAssumption DEF SharedInv, TypeInv, Answers
<1> DEFINE len == Len(got[v])
           size == Len(answer[v])
<1>4. /\ \A i \in 1..len : i \in Nat
      /\ \A i \in 1..size : i \in Nat
      /\ \A i \in 1..Cells : i \in Nat
      /\ size + 1 \in Nat
  BY <1>3
<1>5. Len(got'[v]) = len /\ Len(answer'[v]) = size
  OBVIOUS
<1> HIDE DEF len, size
<1>6. (\A i \in 1..len : got[v][i] \in MayShow(i)) => \A i \in 1..len : got'[v][i] \in MayShow(i)'
  BY <1>1, <1>4
<1>7. (\A k \in 1..size : \A i \in 1..Cells : answer[v][k][i] \in MayShow(i)) =>
        \A k \in 1..size : \A i \in 1..Cells : answer'[v][k][i] \in MayShow(i)'
  BY <1>1, <1>4
<1>8. /\ (\A i \in 1..size : answer[v][i] \in MayShow(i) \ {Nul}) =>
           \A i \in 1..size : answer'[v][i] \in MayShow(i)' \ {Nul}
      /\ Nul \in MayShow(size + 1) => \A i \in {size + 1} : Nul \in MayShow(i)'
  BY <1>1, <1>4
<1>9. CASE v # u
  <2>1. /\ userAt'[v] = userAt[v] /\ shDriver' = shDriver
        /\ v \in Doing("read")' <=> v \in Doing("read")
    BY <1>1, <1>9
  <2> QED
    BY <1>2, <1>5, <1>6, <1>7, <1>8, <2>1 DEF Pictured, len, size
<1>10. CASE v = u
  <2>1. Len(<<>>) = 0 /\ (userAt'[v] = "copyout" => len = 0)
    BY <1>1, <1>10 DEF len
  <2>2. \A i \in 1..0 : FALSE
    OBVIOUS
  <2> QED
    BY <1>1, <1>2, <1>5, <1>7, <1>10, <2>1, <2>2 DEF Pictured, len, size
<1> QED
  BY <1>9, <1>10

\* Who does not read leaves the toggle as it is.
LEMMA ToggleStays ==
  ASSUME SharedInv, NEW u \in Users, NEW from \in Places \ {"start", "end"},
         NEW to \in Places \ {"start"}, Step(u, from, to), procLen' = procLen, left' = left,
         \A v \in Users \ {u} : answer'[v] = answer[v],
         u \notin Doing("read") \/ shDriver # "proc"
  PROVE  ToggleInv'
<1>1. /\ \A v \in Users \ {u} : userAt'[v] = userAt[v]
      /\ Active' = IF to = "end" THEN Active \ {u} ELSE Active
      /\ UNCHANGED <<shDriver, party, before>> /\ Doing("read")' = Doing("read")
  BY Stepping
<1>2. Doing("read") \subseteq Users
  BY DEF Doing, SharedInv, TypeInv
<1>3. ToggleInv
  BY DEF SharedInv
<1>4. CASE shDriver # "proc"
  BY <1>1, <1>3, <1>4 DEF ToggleInv
<1>5. CASE u \notin Doing("read")
  <2>1. \A v \in Doing("read") : v \in Users \ {u}
    BY <1>2, <1>5
  <2>2. \A v \in Doing("read") : Solo(v) => Solo(v)'
    BY <1>1, <2>1 DEF Solo
  <2>3. Active \cap Doing("read") \subseteq Active'
    BY <1>1, <1>5
  <2> QED
    BY <1>1, <1>3, <2>2, <2>3 DEF ToggleInv
<1> QED
  BY <1>4, <1>5

\* Who does not count leaves the count as it is.
LEMMA TallyStays ==
  ASSUME SharedInv, NEW u \in Users, NEW from \in Places \ {"start", "end"},
         NEW to \in Places \ {"start", "store"}, Step(u, from, to), dummyCount' = dummyCount,
         u \notin Doing("count"),
         \A v \in Users \ {u} : got'[v] = got[v] /\ answer'[v] = answer[v]
  PROVE  TallyInv'
<1>1. /\ \A v \in Users \ {u} : userAt'[v] = userAt[v]
      /\ userAt'[u] = to
      /\ before' = before /\ Doing("count")' = Doing("count")
  BY Stepping
<1>2. Stored \subseteq Users \ {u} /\ Stored' = Stored
  BY <1>1 DEF Stored, Doing, SharedInv, TypeInv
<1>3. Tally' = Tally
  BY <1>1, <1>2 DEF Tally
<1> QED
  BY <1>1, <1>2, <1>3 DEF SharedInv, TallyInv

\* Who does not use the ioctl driver leaves the value as it is.
LEMMA ValueStays ==
  ASSUME SharedInv, NEW u \in Users, NEW from \in Places \ {"start", "end"},
         NEW to \in Places \ {"start"}, Step(u, from, to), ioValue' = ioValue,
         u \notin Doing("ioctl"),
         \A v \in Users \ {u} : answer'[v] = answer[v]
  PROVE  ValueInv'
<1>1. /\ \A v \in Users \ {u} : userAt'[v] = userAt[v]
      /\ party' = party /\ Doing("ioctl")' = Doing("ioctl")
  BY Stepping
<1>2. Doing("ioctl") \subseteq Users \ {u}
  BY DEF Doing, SharedInv, TypeInv
<1> QED
  BY <1>1, <1>2 DEF SharedInv, ValueInv

\* The two ioctl calls of a user.
LEMMA IoctlSteps ==
  ASSUME SharedInv, NEW u \in Users, WrValue(u) \/ RdValue(u) PROVE SharedInv'
<1> USE DEF driverData
<1>1. SharedInv
  OBVIOUS
<1>2. PICK from \in {"wr_value", "rd_value"}, to \in {"rd_value", "end"} :
        /\ Step(u, from, to)
        /\ UNCHANGED <<memory, procLen, dummyCount, got, left>>
        /\ from = "wr_value" => to = "rd_value" /\ ioValue' = u /\ answer' = answer
        /\ from = "rd_value" => to = "end" /\ ioValue' = ioValue
                                /\ answer' = [answer EXCEPT ![u] = <<ioValue>>]
  BY DEF WrValue, RdValue
<1>3. /\ userAt[u] = from /\ userAt'[u] = to /\ u \in party
      /\ \A v \in Users \ {u} : userAt'[v] = userAt[v]
      /\ userAt' \in [Users -> Places]
      /\ Active' = IF to = "end" THEN Active \ {u} ELSE Active
      /\ UNCHANGED <<shDriver, userDoes, text, party, before>>
      /\ Doing("ioctl")' = Doing("ioctl")
  BY <1>1, <1>2, Stepping DEF Places
<1>4. /\ userDoes[u] = "ioctl" /\ shDriver = "ioctl"
      /\ u \in Doing("ioctl") /\ u \notin Doing("read") /\ u \notin Doing("count")
  BY <1>1, <1>3 DEF SharedInv, PlaceInv, Doing
<1>5. /\ answer' \in [Users -> Answers] /\ \A v \in Users \ {u} : answer'[v] = answer[v]
      /\ from = "rd_value" => answer'[u] = <<ioValue>> /\ Len(answer'[u]) = 1
      /\ from = "wr_value" => answer'[u] = answer[u]
  <2>1. <<ioValue>> \in Answers /\ Len(<<ioValue>>) = 1 /\ answer \in [Users -> Answers]
    BY <1>1 DEF Answers, SharedInv, TypeInv, Letters
  <2> QED
    BY <1>2, <2>1
<1>6. TypeInv' /\ RowInv'
  <2>1. ioValue' \in Users \cup {0}
    BY <1>1, <1>2 DEF SharedInv, TypeInv
  <2> QED
    BY <1>1, <1>2, <1>3, <1>5, <2>1 DEF SharedInv, TypeInv, RowInv
<1>7. PlaceInv'
  BY <1>1, <1>2, <1>3, <1>4 DEF SharedInv, PlaceInv
<1>8. AnswerInv'
  <2>1. Len(answer'[u]) <= 1 /\ userAt'[u] # "start"
    <3>1. Len(answer[u]) <= 1
      BY <1>1, <1>4 DEF SharedInv, AnswerInv
    <3>2. CASE from = "wr_value"
      BY <1>2, <1>3, <1>5, <3>1, <3>2
    <3>3. CASE from # "wr_value"
      <4>1. Len(answer'[u]) = 1
        BY <1>2, <1>5, <3>3
      <4> QED
        BY <1>2, <1>3, <4>1
    <3> QED
      BY <3>2, <3>3
  <2> QED
    BY <1>1, <1>3, <1>4, <1>5, <2>1 DEF SharedInv, AnswerInv
<1>9. CellInv' /\ PictureInv' /\ ToggleInv' /\ TallyInv'
  <2>1. CellInv'
    BY <1>1, <1>2, CellsStay DEF Places
  <2>2. ToggleInv'
    BY <1>1, <1>2, <1>4, <1>5, ToggleStays DEF Places
  <2>3. TallyInv'
    BY <1>1, <1>2, <1>4, <1>5, TallyStays DEF Places
  <2>4. Pictured(u)'
    BY <1>2, <1>3, <1>4 DEF Pictured, Doing
  <2>5. \A v \in Users \ {u} : Pictured(v)'
    BY <1>1, <1>2, <1>5, PicturesStay DEF Places
  <2> QED
    BY <2>1, <2>2, <2>3, <2>4, <2>5 DEF PictureInv
<1>10. ValueInv'
  <2>1. /\ userAt'[u] = "rd_value" => ioValue' \in party
        /\ userAt'[u] = "end" => \E v \in party : answer'[u] = <<v>>
    BY <1>1, <1>2, <1>3, <1>4, <1>5 DEF SharedInv, ValueInv
  <2>2. Doing("ioctl") \subseteq Users
    BY <1>1 DEF SharedInv, TypeInv, Doing
  <2>3. \A v \in Doing("ioctl") : v # u => /\ userAt'[v] = "rd_value" => ioValue' \in party
                                           /\ userAt'[v] = "end" => \E w \in party : answer'[v] = <<w>>
    BY <1>1, <1>2, <1>3, <1>5, <2>2 DEF SharedInv, ValueInv
  <2> QED
    BY <1>3, <2>1, <2>3 DEF ValueInv
<1> QED
  BY <1>6, <1>7, <1>8, <1>9, <1>10 DEF SharedInv

\* The exported function loads, adds and stores, and its caller shows.
LEMMA CountSteps ==
  ASSUME SharedInv, NEW u \in Users, LoadCount(u) \/ StoreCount(u) \/ ShowCount(u)
  PROVE  SharedInv'
<1> USE DEF driverData
<1>1. SharedInv
  OBVIOUS
<1>2. PICK from \in {"load", "store", "show"}, to \in {"store", "show", "end"} :
        /\ Step(u, from, to)
        /\ UNCHANGED <<memory, ioValue, procLen, left>>
        /\ from = "load"  => /\ to = "store" /\ got' = [got EXCEPT ![u] = <<dummyCount>>]
                             /\ UNCHANGED <<dummyCount, answer>>
        /\ from = "store" => /\ to = "show" /\ dummyCount' = got[u][1] + 1
                             /\ UNCHANGED <<got, answer>>
        /\ from = "show"  => /\ to = "end" /\ answer' = [answer EXCEPT ![u] = <<dummyCount>>]
                             /\ UNCHANGED <<got, dummyCount>>
  BY DEF LoadCount, StoreCount, ShowCount
<1>3. /\ userAt[u] = from /\ userAt'[u] = to /\ u \in party
      /\ \A v \in Users \ {u} : userAt'[v] = userAt[v]
      /\ userAt' \in [Users -> Places]
      /\ Active' = IF to = "end" THEN Active \ {u} ELSE Active
      /\ UNCHANGED <<shDriver, userDoes, text, party, before>>
      /\ Doing("count")' = Doing("count")
  BY <1>1, <1>2, Stepping DEF Places
<1>4. /\ userDoes[u] = "count" /\ shDriver = "export"
      /\ u \in Doing("count") /\ u \notin Doing("read") /\ u \notin Doing("ioctl")
  BY <1>1, <1>3 DEF SharedInv, PlaceInv, Doing
<1>5. /\ dummyCount \in Nat /\ before.count \in Nat
      /\ Cardinality(Stored) \in Nat /\ Cardinality(Doing("count")) \in Nat
      /\ Cardinality(Stored) <= Cardinality(Doing("count"))
  <2>1. /\ Stored \in SUBSET Users /\ Doing("count") \in SUBSET Users
        /\ Stored \subseteq Doing("count")
    BY <1>1 DEF Stored, Doing, SharedInv, TypeInv
  <2>2. dummyCount \in Nat /\ before.count \in Nat
    BY <1>1 DEF SharedInv, TypeInv
  <2> QED
    BY <2>1, <2>2, Sizes
<1>6. /\ got' \in [Users -> Seq(Letters \cup Nat)] /\ answer' \in [Users -> Answers]
      /\ \A v \in Users \ {u} : got'[v] = got[v] /\ answer'[v] = answer[v]
      /\ from = "load" => got'[u] = <<dummyCount>>
      /\ from # "load" => got'[u] = got[u]
      /\ from = "show" => answer'[u] = <<dummyCount>> /\ Len(answer'[u]) = 1
      /\ from # "show" => answer'[u] = answer[u]
      /\ Len(<<dummyCount>>) = 1 /\ <<dummyCount>>[1] = dummyCount
  <2>1. <<dummyCount>> \in Answers /\ <<dummyCount>> \in Seq(Letters \cup Nat)
    BY <1>5 DEF Answers
  <2>2. got \in [Users -> Seq(Letters \cup Nat)] /\ answer \in [Users -> Answers]
    BY <1>1 DEF SharedInv, TypeInv
  <2>3. from \in {"load", "store", "show"}
    BY <1>2
  <2>4. /\ got' = IF from = "load" THEN [got EXCEPT ![u] = <<dummyCount>>] ELSE got
        /\ answer' = IF from = "show" THEN [answer EXCEPT ![u] = <<dummyCount>>] ELSE answer
    BY <1>2, <2>3
  <2> QED
    BY <2>1, <2>2, <2>4
<1>7. from = "store" => got[u][1] \in Nat /\ got[u][1] \in Tally /\ dummyCount' = got[u][1] + 1
  BY <1>1, <1>2, <1>3, <1>5 DEF SharedInv, TallyInv, Tally
<1>8. TypeInv' /\ RowInv'
  <2>1. dummyCount' \in Nat
    BY <1>2, <1>5, <1>7
  <2>2. TypeInv'
    BY <1>1, <1>2, <1>3, <1>6, <2>1 DEF SharedInv, TypeInv
  <2>3. RowInv'
    <3>1. Len(got'[u]) <= Cells /\ userAt'[u] \in {"store", "show", "end"}
      <4>1. Len(got[u]) <= Cells /\ 1 <= Cells
        BY <1>1, CellsAssumption DEF SharedInv, RowInv
      <4>2. got'[u] = got[u] \/ Len(got'[u]) = 1
        BY <1>6
      <4> QED
        BY <1>2, <1>3, <4>1, <4>2
    <3> QED
      BY <1>1, <1>3, <1>6, <3>1 DEF SharedInv, RowInv
  <2> QED
    BY <2>2, <2>3
<1>9. PlaceInv'
  BY <1>1, <1>2, <1>3, <1>4 DEF SharedInv, PlaceInv
<1>10. AnswerInv'
  <2>1. Len(answer'[u]) <= 1 /\ userAt'[u] # "start"
    <3>1. Len(answer[u]) <= 1
      BY <1>1, <1>4 DEF SharedInv, AnswerInv
    <3>2. CASE from = "show"
      <4>1. Len(answer'[u]) = 1
        BY <1>6, <3>2
      <4> QED
        BY <1>2, <1>3, <4>1
    <3>3. CASE from # "show"
      BY <1>2, <1>3, <1>6, <3>1, <3>3
    <3> QED
      BY <3>2, <3>3
  <2> QED
    BY <1>1, <1>3, <1>4, <1>6, <2>1 DEF SharedInv, AnswerInv
<1>11. CellInv' /\ PictureInv' /\ ToggleInv' /\ ValueInv'
  <2>1. CellInv'
    BY <1>1, <1>2, <1>6, CellsStay DEF Places
  <2>2. ToggleInv'
    BY <1>1, <1>2, <1>4, <1>6, ToggleStays DEF Places
  <2>3. ValueInv'
    BY <1>1, <1>2, <1>4, <1>6, ValueStays DEF Places
  <2>4. Pictured(u)'
    BY <1>2, <1>3, <1>4 DEF Pictured, Doing
  <2>5. \A v \in Users \ {u} : Pictured(v)'
    BY <1>1, <1>2, <1>6, PicturesStay DEF Places
  <2> QED
    BY <2>1, <2>2, <2>3, <2>4, <2>5 DEF PictureInv
<1>12. TallyInv'
  <2>1. Doing("count") \subseteq Users /\ before' = before
    BY <1>1, <1>3 DEF SharedInv, TypeInv, Doing
  <2>2. \A v \in Stored \ {u} : userAt'[v] = userAt[v] /\ answer'[v] = answer[v]
    BY <1>3, <1>6, <2>1 DEF Stored
  <2>3. CASE from = "load"
    <3>1. Stored' = Stored
      BY <1>2, <1>3, <2>1, <2>3 DEF Stored
    <3>2. Tally' = Tally /\ dummyCount' = dummyCount
      BY <1>2, <2>1, <2>3, <3>1 DEF Tally
    <3>3. got'[u] = <<got'[u][1]>> /\ got'[u][1] \in Tally
      BY <1>1, <1>6, <2>3 DEF SharedInv, TallyInv
    <3>4. u \notin Stored
      BY <1>3, <2>3 DEF Stored
    <3>5. \A v \in Users : userAt'[v] = "store" => got'[v] = <<got'[v][1]>> /\ got'[v][1] \in Tally'
      BY <1>1, <1>3, <1>6, <3>2, <3>3 DEF SharedInv, TallyInv
    <3> QED
      BY <1>1, <1>3, <2>1, <2>2, <3>1, <3>2, <3>4, <3>5 DEF SharedInv, TallyInv
  <2>4. CASE from = "store"
    <3>1. Stored' = Stored \cup {u} /\ u \notin Stored
      BY <1>2, <1>3, <1>4, <2>1, <2>4 DEF Stored
    <3>2. Cardinality(Stored') = Cardinality(Stored) + 1
      <4>1. IsFiniteSet(Stored)
        BY <2>1, UsersAssumption, FS_Subset DEF Stored
      <4> QED
        BY <3>1, <4>1, FS_AddElement
    <3>3. dummyCount' \in Tally' /\ Tally \subseteq Tally' /\ dummyCount' > before.count
      BY <1>5, <1>7, <2>1, <2>4, <3>2 DEF Tally
    <3>4. \A v \in Users : userAt'[v] = "store" => got'[v] = <<got'[v][1]>> /\ got'[v][1] \in Tally'
      BY <1>1, <1>2, <1>3, <1>6, <2>4, <3>3 DEF SharedInv, TallyInv
    <3>5. \A v \in Stored' : userAt'[v] = "end" => v \in Stored \ {u} /\ userAt[v] = "end"
      BY <1>2, <1>3, <2>2, <2>4, <3>1
    <3> QED
      BY <1>1, <1>3, <2>1, <2>2, <3>3, <3>4, <3>5 DEF SharedInv, TallyInv
  <2>5. CASE from = "show"
    <3>1. Stored' = Stored /\ u \in Stored
      BY <1>2, <1>3, <1>4, <2>1, <2>5 DEF Stored
    <3>2. Tally' = Tally /\ dummyCount' = dummyCount
      BY <1>2, <2>1, <2>5, <3>1 DEF Tally
    <3>3. dummyCount \in (before.count + 1)..(before.count + Cardinality(Doing("count")))
      BY <1>1, <1>5, <3>1 DEF SharedInv, TallyInv, Tally
    <3>4. \A v \in Users : userAt'[v] = "store" => got'[v] = <<got'[v][1]>> /\ got'[v][1] \in Tally'
      BY <1>1, <1>2, <1>3, <1>6, <2>5, <3>2 DEF SharedInv, TallyInv
    <3>5. \A v \in Stored' : userAt'[v] = "end" =>
             \E n \in (before'.count + 1)..(before'.count + Cardinality(Doing("count")')) :
                answer'[v] = <<n>>
      <4>1. answer'[u] = <<dummyCount>>
        BY <1>6, <2>5
      <4>2. \A v \in Stored \ {u} : userAt[v] = "end" =>
             \E n \in (before.count + 1)..(before.count + Cardinality(Doing("count"))) :
                answer[v] = <<n>>
        BY <1>1 DEF SharedInv, TallyInv
      <4> QED
        BY <1>3, <2>1, <2>2, <3>1, <3>3, <4>1, <4>2
    <3>6. Stored # {} => dummyCount > before.count
      BY <1>1 DEF SharedInv, TallyInv
    <3>7. dummyCount \in Tally
      BY <1>1 DEF SharedInv, TallyInv
    <3> QED
      BY <2>1, <3>1, <3>2, <3>4, <3>5, <3>6, <3>7 DEF TallyInv
  <2> QED
    BY <2>3, <2>4, <2>5
<1> QED
  BY <1>8, <1>9, <1>10, <1>11, <1>12 DEF SharedInv

\* The proc driver tests, clears and sets its toggle, and readers leave.
LEMMA ToggleSteps ==
  ASSUME SharedInv, NEW u \in Users, TestLen(u) \/ ClearLen(u) \/ SetLen(u) \/ Leave(u)
  PROVE  SharedInv'
<1> USE DEF driverData
<1>1. SharedInv
  OBVIOUS
<1>2. PICK from \in {"read", "clear", "set"}, to \in {"clear", "set", "copyout", "end"} :
        /\ Step(u, from, to)
        /\ UNCHANGED <<memory, ioValue, dummyCount, got, answer>>
        /\ from = "read" => /\ procLen' = procLen
                            /\ \/ left' = left /\ Len(answer[u]) < MaxReads
                                  /\ to = IF procLen = 1 THEN "clear" ELSE "set"
                               \/ left' = left \cup {u} /\ answer[u] # <<>> /\ to = "end"
        /\ from = "clear" => procLen' = 0 /\ to = "copyout" /\ left' = left
        /\ from = "set" => procLen' = 1 /\ to = "end" /\ left' = left
  BY DEF TestLen, ClearLen, SetLen, Leave
<1>3. /\ userAt[u] = from /\ userAt'[u] = to /\ u \in party /\ u \in Active
      /\ \A v \in Users \ {u} : userAt'[v] = userAt[v]
      /\ userAt' \in [Users -> Places]
      /\ Active' = IF to = "end" THEN Active \ {u} ELSE Active
      /\ UNCHANGED <<shDriver, userDoes, text, party, before>>
      /\ Doing("read")' = Doing("read")
  BY <1>1, <1>2, Stepping DEF Places
<1>4. /\ userDoes[u] = "read" /\ shDriver = "proc"
      /\ u \in Doing("read") /\ u \notin Doing("count") /\ u \notin Doing("ioctl")
  BY <1>1, <1>3 DEF SharedInv, PlaceInv, Doing
<1>5. got[u] = <<>> /\ Len(<<>>) = 0 /\ <<>> \in Seq(Letters) /\ 0 < Cells /\ Len(<<>>) <= Cells
  BY <1>1, <1>3, CellsAssumption DEF SharedInv, RowInv
<1>6. procLen \in {0, 1} /\ procLen' \in {0, 1} /\ before.len \in {0, 1}
  BY <1>1, <1>2 DEF SharedInv, TypeInv
<1>7. TypeInv'
  <2>1. left' \in SUBSET Users
    BY <1>1, <1>2 DEF SharedInv, TypeInv
  <2> QED
    BY <1>1, <1>2, <1>3, <1>6, <2>1 DEF SharedInv, TypeInv
<1>8. PlaceInv'
  BY <1>1, <1>2, <1>3, <1>4 DEF SharedInv, PlaceInv
<1>9. RowInv'
  BY <1>1, <1>2, <1>3, <1>5 DEF SharedInv, RowInv
<1>10. AnswerInv'
  BY <1>1, <1>2, <1>3, <1>4 DEF SharedInv, AnswerInv
<1>11. CellInv' /\ PictureInv' /\ TallyInv' /\ ValueInv'
  <2>1. CellInv'
    BY <1>1, <1>2, CellsStay DEF Places
  <2>2. TallyInv'
    BY <1>1, <1>2, <1>4, TallyStays DEF Places
  <2>3. ValueInv'
    BY <1>1, <1>2, <1>4, ValueStays DEF Places
  <2>4. \A v \in Users : Pictured(v)'
    BY <1>1, <1>2, <1>4, <1>5, PicturesStay DEF Places
  <2> QED
    BY <2>1, <2>2, <2>3, <2>4 DEF PictureInv
<1>12. ToggleInv'
  <2>1. procLen' = 0 => Active' \cap Doing("read")' # {} \/ left' \cap party' # {}
    BY <1>1, <1>2, <1>3, <1>4 DEF SharedInv, ToggleInv
  <2>2. \A v \in Users : party = {v} => v = u
    BY <1>3
  <2>3. party = {u} => Solo(u)'
    <3> SUFFICES ASSUME party = {u} PROVE Solo(u)'
      OBVIOUS
    <3>1. Solo(u)
      BY <1>1, <1>4 DEF SharedInv, ToggleInv
    <3>2. CASE from = "read" /\ to = "end"
      BY <1>2, <1>3, <3>1, <3>2 DEF Solo
    <3>3. CASE from = "read" /\ to # "end"
      <4>1. (procLen = 1 /\ to = "clear") \/ (procLen = 0 /\ to = "set")
        <5>1. (procLen = 1 => to = "clear") /\ (procLen # 1 => to = "set")
          BY <1>2, <3>3
        <5>2. procLen = 0 \/ procLen = 1
          BY <1>6
        <5> QED
          BY <5>1, <5>2
      <4>2. \/ answer[u] = <<>> /\ Len(answer[u]) = 0 /\ procLen = before.len
            \/ Len(answer[u]) = 1 /\ before.len = 1 /\ procLen = 0
        BY <1>3, <1>5, <3>1, <3>3 DEF Solo
      <4>3. answer'[u] = answer[u] /\ userAt'[u] = to /\ before' = before
        BY <1>2, <1>3
      <4>4. CASE procLen = 1 /\ to = "clear"
        BY <4>2, <4>3, <4>4 DEF Solo
      <4>5. CASE procLen = 0 /\ to = "set"
        <5>1. Len(answer'[u]) = before'.len
          BY <4>2, <4>3, <4>5
        <5> QED
          BY <4>3, <4>5, <5>1 DEF Solo
      <4> QED
        BY <4>1, <4>4, <4>5
    <3>4. CASE from # "read"
      BY <1>2, <1>3, <3>1, <3>4 DEF Solo
    <3> QED
      BY <3>2, <3>3, <3>4
  <2>4. Doing("read") \subseteq Users
    BY <1>1 DEF SharedInv, TypeInv, Doing
  <2> QED
    BY <1>3, <1>4, <2>1, <2>2, <2>3, <2>4 DEF ToggleInv
<1> QED
  BY <1>7, <1>8, <1>9, <1>10, <1>11, <1>12 DEF SharedInv

\* A writer copies one cell more.
LEMMA CopyInSteps == ASSUME SharedInv, NEW u \in Users, CopyIn(u) PROVE SharedInv'
<1> USE DEF driverData
<1> DEFINE i == Len(got[u]) + 1
           to == IF i = Len(text[u]) THEN "end" ELSE "copyin"
<1>1. SharedInv
  OBVIOUS
<1>2. /\ Step(u, "copyin", to) /\ to \in {"end", "copyin"}
      /\ memory' = [memory EXCEPT ![i] = text[u][i]]
      /\ got' = [got EXCEPT ![u] = Append(@, text[u][i])]
      /\ UNCHANGED <<ioValue, procLen, dummyCount, answer, left>>
  BY DEF CopyIn
<1>3. /\ userAt[u] = "copyin" /\ userAt'[u] = to /\ u \in party
      /\ \A v \in Users \ {u} : userAt'[v] = userAt[v]
      /\ userAt' \in [Users -> Places]
      /\ Active' = IF to = "end" THEN Active \ {u} ELSE Active
      /\ UNCHANGED <<shDriver, userDoes, text, party, before>>
      /\ \A j \in Nat : Covering(j)' = Covering(j) /\ Written(j)' = Written(j)
  <2> HIDE DEF to
  <2> QED
    BY <1>1, <1>2, Stepping DEF Places
<1>4. /\ userDoes[u] = "write" /\ shDriver \in {"buffer", "proc"} /\ u \in Doing("write")
      /\ u \notin Doing("read") /\ u \notin Doing("count") /\ u \notin Doing("ioctl")
  BY <1>1, <1>3 DEF SharedInv, PlaceInv, Doing
<1>5. /\ i \in 1..Cells /\ i \in 1..Len(text[u]) /\ Len(text[u]) \in 1..Cells
      /\ text[u][i] \in Letters /\ Len(got[u]) \in Nat
  <2>1. got[u] \in Seq(Letters \cup Nat) /\ text[u] \in Seq(Letters)
    BY <1>1 DEF SharedInv, TypeInv
  <2>2. Len(got[u]) < Len(text[u]) /\ Len(text[u]) <= Cells
    BY <1>1, <1>3 DEF SharedInv, RowInv
  <2>3. i \in 1..Len(text[u]) /\ i \in 1..Cells /\ Len(text[u]) \in 1..Cells
    BY <2>1, <2>2, CellsAssumption
  <2> QED
    BY <2>1, <2>3, ElementOfSeq
<1>6. /\ got' \in [Users -> Seq(Letters \cup Nat)]
      /\ Len(got'[u]) = i /\ \A v \in Users \ {u} : got'[v] = got[v]
  <2>1. got[u] \in Seq(Letters \cup Nat) /\ text[u][i] \in Letters \cup Nat
    BY <1>1, <1>5 DEF SharedInv, TypeInv
  <2>2. Append(got[u], text[u][i]) \in Seq(Letters \cup Nat) /\ Len(Append(got[u], text[u][i])) = i
    BY <2>1
  <2> QED
    BY <1>1, <1>2, <2>2 DEF SharedInv, TypeInv
<1>7. memory' \in CellRows /\ \A j \in 1..Cells : memory'[j] = IF j = i THEN text[u][i] ELSE memory[j]
  BY <1>1, <1>2, <1>5 DEF SharedInv, TypeInv, CellRows
<1>8. /\ to = "copyin" => i < Len(text[u])
      /\ to = "end" => i = Len(text[u])
  BY <1>5
<1> DEFINE old == Len(got[u])
<1>9. i = old + 1 /\ old \in Nat
  BY <1>5
<1> HIDE DEF i, to, old
<1>10. TypeInv'
  BY <1>1, <1>2, <1>3, <1>6, <1>7 DEF SharedInv, TypeInv
<1>11. PlaceInv' /\ AnswerInv'
  BY <1>1, <1>2, <1>3, <1>4 DEF SharedInv, PlaceInv, AnswerInv
<1>12. RowInv'
  <2>1. Len(got'[u]) <= Cells /\ userAt'[u] \in {"end", "copyin"}
        /\ (userAt'[u] = "copyin" => Len(got'[u]) < Len(text'[u]) /\ Len(text'[u]) <= Cells)
    BY <1>2, <1>3, <1>5, <1>6, <1>8
  <2> QED
    BY <1>1, <1>3, <1>6, <2>1 DEF SharedInv, RowInv
<1>13. PictureInv' /\ ToggleInv' /\ TallyInv' /\ ValueInv'
  <2>1. ToggleInv'
    BY <1>1, <1>2, <1>4, ToggleStays DEF Places
  <2>2. TallyInv'
    BY <1>1, <1>2, <1>4, <1>6, TallyStays DEF Places
  <2>3. ValueInv'
    BY <1>1, <1>2, <1>4, ValueStays DEF Places
  <2>4. Pictured(u)'
    BY <1>2, <1>3, <1>4 DEF Pictured, Doing
  <2>5. \A v \in Users \ {u} : Pictured(v)'
    BY <1>1, <1>2, <1>6, PicturesStay DEF Places
  <2> QED
    BY <2>1, <2>2, <2>3, <2>4, <2>5 DEF PictureInv
<1>14. CellInv'
  <2> SUFFICES ASSUME NEW j \in 1..Cells
               PROVE  \/ memory'[j] \in Written(j)
                      \/ /\ memory'[j] = before.cells[j]
                         /\ \A w \in Covering(j) : userAt'[w] = "copyin" /\ Len(got'[w]) < j
    BY <1>3, CellsAssumption DEF CellInv
  <2>1. CASE j = i
    <3>1. u \in Covering(i) /\ text[u][i] \in Written(i)
      BY <1>4, <1>5 DEF Covering, Written
    <3> QED
      BY <1>7, <2>1, <3>1
  <2>2. CASE j # i
    <3>1. memory'[j] = memory[j]
      BY <1>7, <2>2
    <3>2. Covering(j) \subseteq Users
      BY <1>1 DEF Covering, Doing, SharedInv, TypeInv
    <3>3. \/ memory[j] \in Written(j)
          \/ /\ memory[j] = before.cells[j]
             /\ \A w \in Covering(j) : userAt[w] = "copyin" /\ Len(got[w]) < j
      BY <1>1 DEF SharedInv, CellInv
    <3>4. u \in Covering(j) /\ Len(got[u]) < j => userAt'[u] = "copyin" /\ Len(got'[u]) < j
      <4> SUFFICES ASSUME u \in Covering(j), old < j PROVE to = "copyin" /\ i < j
        BY <1>3, <1>6 DEF old
      <4>1. j <= Len(text[u])
        BY DEF Covering
      <4> QED
        BY <1>2, <1>5, <1>8, <1>9, <2>2, <4>1
    <3> QED
      BY <1>3, <1>6, <3>1, <3>2, <3>3, <3>4
  <2> QED
    BY <2>1, <2>2
<1> QED
  BY <1>10, <1>11, <1>12, <1>13, <1>14 DEF SharedInv

\* What a cell holds may be shown.
LEMMA CellsShown == ASSUME CellInv, NEW i \in 1..Cells PROVE memory[i] \in MayShow(i)
BY DEF CellInv, MayShow

\* A reader copies one cell more, and in the end it has them all.
LEMMA CopyOutSteps == ASSUME SharedInv, NEW u \in Users, CopyOut(u) PROVE SharedInv'
<1> USE DEF driverData
<1> DEFINE old == Len(got[u])
           row == Append(got[u], memory[Len(got[u]) + 1])
           to  == IF Len(row) < Cells THEN "copyout" ELSE IF shDriver = "buffer" THEN "end" ELSE "read"
           ans == IF shDriver = "buffer" THEN Shown(row) ELSE Append(answer[u], row)
           size == Len(answer[u])
<1>1. SharedInv
  OBVIOUS
<1>2. /\ Step(u, "copyout", to) /\ to \in {"copyout", "end", "read"}
      /\ UNCHANGED <<memory, ioValue, procLen, dummyCount, left>>
      /\ to = "copyout" => Len(row) < Cells /\ got' = [got EXCEPT ![u] = row] /\ answer' = answer
      /\ to # "copyout" => /\ Len(row) = Cells /\ got' = [got EXCEPT ![u] = <<>>]
                           /\ answer' = [answer EXCEPT ![u] = ans]
      /\ to # "copyout" => to = IF shDriver = "buffer" THEN "end" ELSE "read"
  BY DEF CopyOut
<1>3. /\ userAt[u] = "copyout" /\ userAt'[u] = to /\ u \in party /\ u \in Active
      /\ \A v \in Users \ {u} : userAt'[v] = userAt[v]
      /\ userAt' \in [Users -> Places]
      /\ Active' = IF to = "end" THEN Active \ {u} ELSE Active
      /\ UNCHANGED <<shDriver, userDoes, text, party, before>>
      /\ Doing("read")' = Doing("read")
      /\ \A j \in Nat : MayShow(j)' = MayShow(j)
  <2> HIDE DEF to
  <2> QED
    BY <1>1, <1>2, Stepping DEF Places
<1>4. /\ userDoes[u] = "read" /\ shDriver \in {"buffer", "proc"} /\ u \in Doing("read")
      /\ u \notin Doing("write") /\ u \notin Doing("count") /\ u \notin Doing("ioctl")
  BY <1>1, <1>3 DEF SharedInv, PlaceInv, Doing
<1>5. /\ row \in Seq(Letters) /\ Len(row) \in 1..Cells
      /\ \A j \in 1..Len(row) : row[j] \in MayShow(j)
  <2>1. got[u] \in Seq(Letters) /\ old \in Nat /\ old < Cells /\ memory \in CellRows
    BY <1>1, <1>3 DEF SharedInv, RowInv, TypeInv
  <2>2. old + 1 \in 1..Cells
    BY <2>1, CellsAssumption
  <2>3. memory[old + 1] \in Letters /\ memory[old + 1] \in MayShow(old + 1)
    BY <1>1, <2>1, <2>2, CellsShown DEF SharedInv, CellRows
  <2>4. /\ row \in Seq(Letters) /\ Len(row) = old + 1 /\ row[old + 1] = memory[old + 1]
        /\ \A j \in 1..old : row[j] = got[u][j]
    BY <2>1, <2>2, <2>3
  <2>5. \A j \in 1..old : got[u][j] \in MayShow(j)
    BY <1>1, <1>3 DEF SharedInv, PictureInv, Pictured
  <2> HIDE DEF row, old
  <2>6. \A j \in 1..(old + 1) : j \in 1..old \/ j = old + 1
    BY <2>1
  <2> QED
    BY <2>2, <2>3, <2>4, <2>5, <2>6
<1> HIDE DEF row, old
<1>6. Len(row) = Cells => row \in CellRows
  BY <1>5, LenProperties DEF CellRows
<1>7. Len(row) = Cells => ans \in Answers
  <2>1. answer[u] \in Answers
    BY <1>1 DEF SharedInv, TypeInv
  <2>2. Len(row) = Cells => Shown(row) \in Answers
    BY <1>6, ShownCells DEF Answers
  <2>3. Len(row) = Cells => Append(answer[u], row) \in Answers
    BY <2>1, <1>6 DEF Answers
  <2> QED
    BY <2>2, <2>3
<1>8. /\ size \in Nat
      /\ Len(row) = Cells /\ shDriver = "buffer" => Len(ans) <= Cells
      /\ shDriver # "buffer" => /\ Len(ans) = size + 1 /\ ans[size + 1] = row
                                /\ \A k \in 1..size : ans[k] = answer[u][k]
  BY <1>1, <1>6, ShownCells DEF SharedInv, TypeInv, Answers
<1>9. /\ got' \in [Users -> Seq(Letters \cup Nat)] /\ answer' \in [Users -> Answers]
      /\ \A v \in Users \ {u} : got'[v] = got[v] /\ answer'[v] = answer[v]
      /\ got'[u] = IF to = "copyout" THEN row ELSE <<>>
      /\ answer'[u] = IF to = "copyout" THEN answer[u] ELSE ans
  <2>1. row \in Seq(Letters \cup Nat) /\ <<>> \in Seq(Letters \cup Nat)
    BY <1>5
  <2>2. got \in [Users -> Seq(Letters \cup Nat)] /\ answer \in [Users -> Answers]
    BY <1>1 DEF SharedInv, TypeInv
  <2> HIDE DEF to, ans
  <2>3. CASE to = "copyout"
    BY <1>2, <2>1, <2>2, <2>3
  <2>4. CASE to # "copyout"
    <3>1. ans \in Answers
      BY <1>2, <1>7, <2>4
    <3> QED
      BY <1>2, <2>1, <2>2, <2>4, <3>1
  <2> QED
    BY <2>3, <2>4
<1>10. \/ to = "copyout" /\ Len(row) < Cells
       \/ to = "end" /\ Len(row) = Cells /\ shDriver = "buffer"
       \/ to = "read" /\ Len(row) = Cells /\ shDriver = "proc"
  BY <1>2, <1>4, <1>5
<1>11. \A k \in 1..Cells : k \in Nat
  BY CellsAssumption
<1>12. Len(row) = Cells /\ shDriver = "buffer" =>
         /\ \A j \in 1..Len(ans) : ans[j] \in MayShow(j) \ {Nul}
         /\ Len(ans) < Cells => Nul \in MayShow(Len(ans) + 1)
  <2> SUFFICES ASSUME Len(row) = Cells, shDriver = "buffer"
               PROVE  /\ \A j \in 1..Len(ans) : ans[j] \in MayShow(j) \ {Nul}
                      /\ Len(ans) < Cells => Nul \in MayShow(Len(ans) + 1)
    OBVIOUS
  <2>1. /\ Len(ans) \in Nat /\ Len(ans) <= Cells
        /\ \A j \in 1..Len(ans) : ans[j] = row[j] /\ row[j] # Nul
        /\ Len(ans) < Cells => row[Len(ans) + 1] = Nul
    BY <1>6, ShownCells
  <2>2. /\ \A j \in 1..Len(ans) : j \in 1..Cells
        /\ Len(ans) < Cells => Len(ans) + 1 \in 1..Cells
    BY <2>1, CellsAssumption
  <2> HIDE DEF ans
  <2> QED
    BY <1>5, <2>1, <2>2
<1> HIDE DEF to, ans, size
<1>13. TypeInv'
  BY <1>1, <1>2, <1>3, <1>9 DEF SharedInv, TypeInv
<1>14. PlaceInv'
  BY <1>1, <1>3, <1>4, <1>10 DEF SharedInv, PlaceInv
<1>15. RowInv'
  <2>1. Len(<<>>) = 0 /\ Len(<<>>) <= Cells /\ Len(row) <= Cells
    BY <1>5, CellsAssumption
  <2>2. /\ userAt'[u] = "read" => got'[u] = <<>>
        /\ userAt'[u] = "copyout" => got'[u] \in Seq(Letters) /\ Len(got'[u]) < Cells
        /\ userAt'[u] \in {"copyout", "end", "read"} /\ Len(got'[u]) <= Cells
    BY <1>3, <1>5, <1>9, <1>10, <2>1
  <2> QED
    BY <1>1, <1>3, <1>9, <2>2 DEF SharedInv, RowInv
<1>16. AnswerInv'
  <2>1. /\ shDriver = "proc" => size < MaxReads
        /\ shDriver = "buffer" => size <= Cells
    BY <1>1, <1>3 DEF SharedInv, AnswerInv, size
  <2>2. /\ shDriver = "proc" => Len(answer'[u]) <= MaxReads
        /\ shDriver = "proc" /\ to = "copyout" => Len(answer'[u]) < MaxReads
        /\ shDriver = "buffer" => Len(answer'[u]) <= Cells
    <3>1. CASE to = "copyout"
      <4>1. Len(answer'[u]) = size
        BY <1>9, <3>1 DEF size
      <4> QED
        BY <1>8, <2>1, <4>1, MaxReadsAssumption
    <3>2. CASE to # "copyout"
      <4>1. answer'[u] = ans /\ Len(row) = Cells
        BY <1>9, <1>10, <3>2
      <4> QED
        BY <1>4, <1>8, <2>1, <3>2, <4>1, MaxReadsAssumption
    <3> QED
      BY <3>1, <3>2
  <2>3. userAt'[u] \notin {"start", "clear"} /\ shDriver' = shDriver
    BY <1>3, <1>10
  <2> QED
    BY <1>1, <1>3, <1>4, <1>9, <2>2, <2>3 DEF SharedInv, AnswerInv
<1>17. CellInv' /\ TallyInv' /\ ValueInv'
  <2>1. to \in Places \ {"start", "store"}
    BY <1>2 DEF Places
  <2>2. CellInv'
    BY <1>1, <1>2, <1>9, <2>1, CellsStay DEF Places
  <2>3. TallyInv'
    BY <1>1, <1>2, <1>4, <1>9, <2>1, TallyStays DEF Places
  <2>4. ValueInv'
    BY <1>1, <1>2, <1>4, <1>9, <2>1, ValueStays DEF Places
  <2> QED
    BY <2>2, <2>3, <2>4
<1>18. PictureInv'
  <2>1. \A v \in Users \ {u} : Pictured(v)'
    BY <1>1, <1>2, <1>9, PicturesStay DEF Places
  <2>2. CASE to = "copyout"
    <3>1. \A j \in 1..Len(row) : row[j] \in MayShow(j)'
      <4>1. \A j \in 1..Len(row) : j \in Nat
        BY <1>5
      <4> QED
        BY <1>3, <1>5, <4>1
    <3>2. got'[u] = row /\ answer'[u] = answer[u] /\ userAt'[u] = "copyout"
      BY <1>3, <1>9, <2>2
    <3>3. shDriver = "proc" => \A k \in 1..size : \A j \in 1..Cells : answer[u][k][j] \in MayShow(j)
      BY <1>1, <1>4 DEF SharedInv, PictureInv, Pictured, size
    <3>4. shDriver = "proc" => \A k \in 1..size : \A j \in 1..Cells : answer[u][k][j] \in MayShow(j)'
      BY <1>3, <1>11, <3>3
    <3>5. Pictured(u)'
      BY <1>3, <3>1, <3>2, <3>4 DEF Pictured, size
    <3> QED
      BY <2>1, <3>5 DEF PictureInv
  <2>3. CASE to = "end"
    <3>1. answer'[u] = ans /\ userAt'[u] = "end" /\ shDriver' = "buffer"
      BY <1>3, <1>9, <1>10, <2>3
    <3>2. /\ \A j \in 1..Len(ans) : ans[j] \in MayShow(j) \ {Nul}
          /\ Len(ans) < Cells => Nul \in MayShow(Len(ans) + 1)
      BY <1>10, <1>12, <2>3
    <3>3. Len(ans) \in Nat
      <4>1. ans \in Answers
        BY <1>7, <1>10, <2>3
      <4> QED
        BY <4>1 DEF Answers
    <3> DEFINE len == Len(ans)
    <3>4. len + 1 \in Nat /\ \A j \in 1..len : j \in Nat
      BY <3>3
    <3>5. Len(answer'[u]) = len
      BY <3>1
    <3> HIDE DEF len
    <3>6. /\ \A j \in 1..len : answer'[u][j] \in MayShow(j)' \ {Nul}
          /\ len < Cells => \A j \in {len + 1} : Nul \in MayShow(j)'
      BY <1>3, <3>1, <3>2, <3>4 DEF len
    <3>7. Pictured(u)'
      BY <3>1, <3>5, <3>6 DEF Pictured
    <3> QED
      BY <2>1, <3>7 DEF PictureInv
  <2>4. CASE to = "read"
    <3>1. answer'[u] = ans /\ userAt'[u] = "read" /\ shDriver' = "proc" /\ shDriver = "proc"
      BY <1>3, <1>9, <1>10, <2>4
    <3>2. \A k \in 1..size : \A j \in 1..Cells : answer[u][k][j] \in MayShow(j)
      BY <1>1, <1>4, <3>1 DEF SharedInv, PictureInv, Pictured, size
    <3>3. Len(ans) = size + 1 /\ ans[size + 1] = row /\ \A k \in 1..size : ans[k] = answer[u][k]
      BY <1>8, <3>1
    <3>4. \A j \in 1..Cells : row[j] \in MayShow(j)
      BY <1>5, <1>10, <2>4
    <3>5. \A k \in 1..(size + 1) : k \in 1..size \/ k = size + 1
      BY <1>8
    <3>6. \A k \in 1..(size + 1) : \A j \in 1..Cells : ans[k][j] \in MayShow(j)
      BY <3>2, <3>3, <3>4, <3>5
    <3>7. \A k \in 1..(size + 1) : \A j \in 1..Cells : answer'[u][k][j] \in MayShow(j)'
      BY <1>3, <1>11, <3>1, <3>6
    <3>8. Len(answer'[u]) = size + 1
      BY <3>1, <3>3
    <3>9. Pictured(u)'
      BY <3>1, <3>7, <3>8 DEF Pictured
    <3> QED
      BY <2>1, <3>9 DEF PictureInv
  <2> QED
    BY <1>10, <2>2, <2>3, <2>4
<1>19. ToggleInv'
  <2>1. CASE shDriver = "buffer"
    BY <1>1, <1>2, <1>9, <2>1, ToggleStays DEF Places
  <2>2. CASE shDriver = "proc"
    <3>1. to # "end" /\ Active' = Active
      BY <1>3, <1>10, <2>2
    <3>2. \A v \in Users : party = {v} => v = u
      BY <1>3
    <3>3. party = {u} => Solo(u)'
      <4> SUFFICES ASSUME party = {u} PROVE Solo(u)'
        OBVIOUS
      <4>1. answer[u] = <<>> /\ before.len = 1 /\ procLen = 0 /\ Len(<<>>) = 0
        BY <1>1, <1>3, <1>4, <2>2 DEF SharedInv, ToggleInv, Solo
      <4>2. to = "read" => Len(answer'[u]) = 1
        BY <1>8, <1>9, <1>10, <4>1 DEF size
      <4>3. userAt'[u] = to /\ procLen' = procLen /\ before' = before
            /\ (to = "copyout" => answer'[u] = answer[u])
        BY <1>2, <1>3, <1>9
      <4> QED
        BY <1>10, <2>2, <3>1, <4>1, <4>2, <4>3 DEF Solo
    <3>4. Doing("read") \subseteq Users
      BY <1>1 DEF SharedInv, TypeInv, Doing
    <3>5. Active' \cap Doing("read")' # {} /\ Doing("read")' # {}
      BY <1>3, <1>4, <3>1
    <3> QED
      BY <1>2, <1>3, <1>4, <2>2, <3>2, <3>3, <3>4, <3>5 DEF ToggleInv
  <2> QED
    BY <1>4, <2>1, <2>2
<1> QED
  BY <1>13, <1>14, <1>15, <1>16, <1>17, <1>18, <1>19 DEF SharedInv

\* SharedInv holds in every reachable state.
LEMMA SharedInvariance == SharedSpec => []SharedInv
<1>1. SharedInv /\ [SharedNext]_sharedVars => SharedInv'
  <2> SUFFICES ASSUME SharedInv, [SharedNext]_sharedVars PROVE SharedInv'
    OBVIOUS
  <2>1. CASE UNCHANGED sharedVars
    <3>1. UNCHANGED <<shDriver, memory, ioValue, procLen, dummyCount, userAt, got, answer,
                      userDoes, text, party, before, left>>
      BY <2>1 DEF sharedVars, session, driverData
    <3>2. Stored' = Stored /\ Active' = Active /\ \A what : Doing(what)' = Doing(what)
      BY <3>1 DEF Stored, Active, Doing
    <3>3. \A i : Covering(i)' = Covering(i) /\ Written(i)' = Written(i) /\ MayShow(i)' = MayShow(i)
      BY <3>1, <3>2 DEF Covering, Written, MayShow
    <3>4. TypeInv' /\ PlaceInv' /\ RowInv' /\ AnswerInv' /\ CellInv'
      BY <3>1, <3>2, <3>3 DEF SharedInv, TypeInv, PlaceInv, RowInv, AnswerInv, CellInv
    <3>5. PictureInv' /\ ToggleInv' /\ TallyInv' /\ ValueInv'
      BY <3>1, <3>2, <3>3 DEF SharedInv, PictureInv, Pictured, ToggleInv, Solo, TallyInv, Tally, ValueInv
    <3> QED
      BY <3>4, <3>5 DEF SharedInv
  <2>2. CASE SharedLoad
    BY <2>2, LoadSteps
  <2>3. ASSUME NEW u \in Users,
               \/ BeginWrite(u) \/ BeginRead(u) \/ BeginCall(u)
               \/ CopyIn(u) \/ CopyOut(u)
               \/ TestLen(u) \/ ClearLen(u) \/ SetLen(u) \/ Leave(u)
               \/ WrValue(u) \/ RdValue(u)
               \/ LoadCount(u) \/ StoreCount(u) \/ ShowCount(u)
        PROVE  SharedInv'
    BY <2>3, Begins, CopyInSteps, CopyOutSteps, ToggleSteps, IoctlSteps, CountSteps
  <2> QED
    BY <2>1, <2>2, <2>3 DEF SharedNext
<1> QED
  BY <1>1, SharedStart, PTL DEF SharedSpec

\* The type invariant that the runs check follows from it.
LEMMA SharedTypes == SharedInv => SharedTypeOK
<1> SUFFICES ASSUME SharedInv PROVE SharedTypeOK
  OBVIOUS
<1>1. memory \in Seq(Users \cup {Greeting, Nul}) /\ Len(memory) = Cells
  BY CellsAssumption DEF SharedInv, TypeInv, CellRows, Letters
<1>2. \A u \in Users : Len(got[u]) <= Cells /\ Len(answer[u]) <= Cells + MaxReads
  <2> TAKE u \in Users
  <2>1. Len(answer[u]) \in Nat
    BY DEF SharedInv, TypeInv, Answers
  <2>2. \/ Len(answer[u]) <= MaxReads \/ Len(answer[u]) <= Cells \/ Len(answer[u]) <= 1
    <3>1. shDriver = "none" => Len(answer[u]) = 0
      BY DEF SharedInv, PlaceInv, AnswerInv
    <3> QED
      BY <2>1, <3>1 DEF SharedInv, TypeInv, AnswerInv
  <2> QED
    BY <2>1, <2>2, CellsAssumption, MaxReadsAssumption DEF SharedInv, RowInv
<1> QED
  BY <1>1, <1>2 DEF SharedInv, TypeInv, Places, SharedTypeOK

\* What sessions that meet come to, and leave: MeetingsKnown.
LEMMA SharedMeetings == SharedInv => MeetingsKnown
<1> SUFFICES ASSUME SharedInv PROVE MeetingsKnown
  OBVIOUS
<1>1. ASSUME Active = {} PROVE DataKnown
  <2>1. \A i \in 1..Cells :
          memory[i] \in IF Covering(i) = {} THEN {before.cells[i]} ELSE Written(i)
    <3> TAKE i \in 1..Cells
    <3>1. \A w \in Covering(i) : userAt[w] # "copyin"
      BY <1>1 DEF Active, Covering, Doing, SharedInv, TypeInv
    <3>2. Covering(i) = {} => Written(i) = {}
      BY DEF Written
    <3> QED
      BY <3>1, <3>2 DEF SharedInv, CellInv
  <2>2. IF Doing("read") = {} THEN procLen = before.len
                              ELSE procLen = 1 \/ left \cap party # {}
    BY <1>1 DEF SharedInv, TypeInv, ToggleInv
  <2>3. IF Doing("count") = {}
        THEN dummyCount = before.count
        ELSE dummyCount \in (before.count + 1)..(before.count + Cardinality(Doing("count")))
    <3>1. Stored = Doing("count")
      <4>1. \A u \in Doing("count") : u \in Users /\ userAt[u] = "end"
        BY <1>1 DEF Active, Doing, SharedInv, TypeInv, PlaceInv
      <4> QED
        BY <4>1 DEF Stored
    <3>2. dummyCount \in before.count..(before.count + Cardinality(Doing("count")))
          /\ dummyCount \in Nat /\ before.count \in Nat
      BY <3>1 DEF SharedInv, TypeInv, TallyInv, Tally
    <3>3. CASE Doing("count") = {}
      <4>1. Cardinality(Doing("count")) = 0
        BY <3>3, FS_EmptySet
      <4> QED
        BY <3>2, <3>3, <4>1
    <3>4. CASE Doing("count") # {}
      <4>1. dummyCount > before.count
        BY <3>1, <3>4 DEF SharedInv, TallyInv
      <4>2. Cardinality(Doing("count")) \in Nat
        BY Sizes DEF Doing, SharedInv, TypeInv
      <4> QED
        BY <3>2, <3>4, <4>1, <4>2
    <3> QED
      BY <3>3, <3>4
  <2> QED
    BY <2>1, <2>2, <2>3 DEF DataKnown
<1>2. ASSUME NEW u \in party, userAt[u] = "end" PROVE AnswerKnown(u)
  <2>1. u \in Users /\ userDoes[u] \in {"write", "read", "ioctl", "count"} /\ u \in Doing(userDoes[u])
        /\ Pictured(u)
    BY <1>2 DEF SharedInv, TypeInv, PlaceInv, PictureInv, Doing
  <2>2. CASE userDoes[u] = "write"
    BY <2>2 DEF AnswerKnown
  <2>3. CASE userDoes[u] = "read"
    <3>1. u \in Doing("read") /\ shDriver \in {"buffer", "proc"}
      BY <2>1, <2>3 DEF SharedInv, PlaceInv
    <3>2. CASE shDriver = "buffer"
      BY <1>2, <2>1, <2>3, <3>1, <3>2 DEF Pictured, AnswerKnown
    <3>3. CASE shDriver = "proc"
      <4>1. party = {u} => Len(answer[u]) = before.len
        BY <1>2, <3>1, <3>3 DEF SharedInv, ToggleInv, Solo
      <4> QED
        BY <2>1, <2>3, <3>1, <3>3, <4>1 DEF Pictured, AnswerKnown
    <3> QED
      BY <3>1, <3>2, <3>3
  <2>4. CASE userDoes[u] = "ioctl"
    BY <1>2, <2>1, <2>4 DEF SharedInv, ValueInv, AnswerKnown
  <2>5. CASE userDoes[u] = "count"
    <3>1. u \in Stored
      BY <1>2, <2>1, <2>5 DEF Stored
    <3> QED
      BY <1>2, <2>5, <3>1 DEF SharedInv, TallyInv, AnswerKnown
  <2> QED
    BY <2>1, <2>2, <2>3, <2>4, <2>5
<1> QED
  BY <1>1, <1>2 DEF MeetingsKnown

-----------------------------------------------------------------------------
(* The examples together: in each behaviour every component keeps to its   *)
(* own specification, so that what was shown of it carries over.           *)

\* A step of the examples is a step of each component or leaves it alone.
LEMMA ComponentSteps ==
  ASSUME [Next]_<<example, drivers, netlink>>
  PROVE  /\ [PollNext]_pollVars /\ [SignalNext]_sigVars /\ [SharedNext]_sharedVars
         /\ [EchoNext]_echoVars /\ [DumpNext]_dumpVars
         /\ [MonitorNext]_monitorVars /\ [McNext]_mcVars
<1>1. CASE UNCHANGED <<example, drivers, netlink>>
  BY <1>1 DEF drivers, netlink
<1>2. CASE Next
  BY <1>2 DEF Next, drivers, netlink
<1> QED
  BY <1>1, <1>2

\* Every behaviour of the examples is one of each component.
LEMMA Components ==
  Spec => /\ PollSpec /\ SignalSpec /\ SharedSpec
          /\ EchoSpec /\ DumpSpec /\ MonitorSpec /\ McSpec
<1>1. Init => /\ PollInit /\ SignalInit /\ SharedInit
              /\ EchoInit /\ DumpInit /\ MonitorInit /\ McInit
  BY DEF Init
<1> QED
  BY <1>1, ComponentSteps, PTL
     DEF Spec, PollSpec, SignalSpec, SharedSpec, EchoSpec, DumpSpec, MonitorSpec, McSpec

\* The inductive invariants of the components hold together.
LEMMA ExamplesInvariance ==
  Spec => [](PollInv /\ SignalInv /\ SharedInv /\ EchoInv /\ DumpInv /\ MonitorInv /\ McInv)
BY Components, PollInvariance, SignalInvariance, SharedInvariance, EchoInvariance,
   DumpInvariance, MonitorInvariance, McInvariance, PTL

\* Every variable of every example stays in its range.
THEOREM ExamplesTypes == Spec => []ExamplesTypeOK
<1>1. PollInv /\ SignalInv /\ SharedInv /\ EchoInv /\ DumpInv /\ MonitorInv /\ McInv
        => ExamplesTypeOK
  BY SharedTypes, EchoTypes, DumpTypes, MonitorTypes, McTypes
     DEF ExamplesTypeOK, PollInv, SignalInv
<1> QED
  BY <1>1, ExamplesInvariance, PTL

\* A value that was stored through sysfs stays announced to who polls until it
\* is read, but for the ways to lose it that are known: StoreNotForgotten.
THEOREM StoresAnnounced == Spec => []StoreNotForgotten
<1>1. PollInv => StoreNotForgotten
  BY DEF PollInv
<1> QED
  BY <1>1, ExamplesInvariance, PTL

\* A wake-up passes over nobody but who was on the queue before
\* init_waitqueue_head, until one of those leaves: PassedOver.
THEOREM EntriesPassedOver == Spec => []PassedOver
<1>1. PollInv => PassedOver
  BY DEF PollInv, EntriesInv
<1> QED
  BY <1>1, ExamplesInvariance, PTL

\* Who waits for the signal is who gets it, and a process that has gone is
\* signalled only when it had a child, but for the known ways: SignalTargets.
THEOREM SignalsArrive == Spec => []SignalTargets
<1>1. SignalInv => SignalTargets
  BY DEF SignalInv
<1> QED
  BY <1>1, ExamplesInvariance, PTL

\* Sessions that meet in a driver that keeps one state for all lose writes and
\* counts, and mix texts, but only their own and only so far: MeetingsKnown.
THEOREM MeetingsBounded == Spec => []MeetingsKnown
BY SharedMeetings, ExamplesInvariance, PTL

\* A program that asks the kernel over netlink waits in vain, or meets a fault,
\* only for the causes listed: RequestFaultsKnown.
THEOREM RequestFaults == Spec => []RequestFaultsKnown
<1>1. EchoInv /\ DumpInv => RequestFaultsKnown
  BY DumpFaults DEF EchoInv, RequestFaultsKnown
<1> QED
  BY <1>1, ExamplesInvariance, PTL

\* Members of a netlink group hear of each message once or of an error:
\* GroupTold.
THEOREM GroupHears == Spec => []GroupTold
<1>1. MonitorInv /\ McInv => GroupTold
  BY MonitorIsTold, McTold DEF GroupTold
<1> QED
  BY <1>1, ExamplesInvariance, PTL
=============================================================================
