# Verification of the character and network device drivers

The repository is a course of Linux kernel modules: some fifty small drivers, each
showing one kernel facility, and the user programs that exercise them. Every module
stands alone; what the system is made of is *one driver, the kernel underneath, and the
processes that open its device file*. The interesting behaviour is concurrency inside one
driver: kernel threads, readers of the device file, interrupt handlers, and the init and
exit functions, which run while all of these are active. The netlink examples are the same
with a socket in place of the device file: a process sends, the driver's callback runs in the
sender's system call, and an answer or a multicast comes back.

## 1. Inventory

| part of the repository | state it keeps | operations | who interacts with whom |
|---|---|---|---|
| every driver: `*_init`, `*_exit` | what is registered with the kernel (device number, cdev, class, device, kobject, sysfs file, interrupt, work queue, tasklet, buffer, proc entries, threads, timer, network device, netlink socket, namespace operations) | a sequence of acquisitions, `goto` labels that release, an exit list | insmod and rmmod with users who open and close the device file |
| 14, 16, 17, 23 kernel threads | `dummy_global_variable`, `etc_bit_check`, the lock | `thread_function1/2`, `kthread_run`, `kthread_stop` | threads with each other over the lock; init and exit with the threads |
| 24 seqlock | sequence number, `dummy_global_variable` | writer thread, reader thread, `seqlock_init` | as above |
| 9 wait queues | `wait_queue_flag`, `read_count`, the queue | `wait_function`, `dummy_read`, exit | readers and exit set a flag and wake a thread |
| 21 completions | `completion_flag`, `read_count`, `data_read_done` | `wait_function`, `dummy_read`, exit | the same over a completion |
| 11, 12, 13, 15 interrupts and bottom halves | pending work or tasklet, the list of 13 | interrupt handler, work function, tasklet, read and write | reader raises the interrupt, the handler defers, a worker runs |
| 19, 20 timers | the armed timer | callback that arms it again | timer softirq with exit |
| 18 signal and its program | `task`; `done` and `check` of the program | ioctl, release, interrupt handler; the two signal handlers, the waiting loop | a process registers, the interrupt handler signals it, children inherit its descriptor |
| 26 poll and its three programs | `can_read`, `can_write`, the queue | `dummy_poll`, sysfs show and store; poll, select, epoll | pollers with sysfs writers and with each other over the two flags |
| 6, 7, 8, 22 | a buffer, an integer, a text and its toggle, an exported counter | read, write, ioctl, proc file | processes that use the one variable at a time |
| 10, 25 | a volatile integer; nothing | sysfs show and store; file operations that print | |
| 51, 54 unicast, 54 namespace | the kernel socket, one for all or one in each namespace | receive callback; request and answer of the programs | clients with init, exit and the ends of namespaces |
| 54 multicast | the kernel socket, the group | receive callback that multicasts; `nl_recv`, `nl_recv1`, `nl_send` | senders with listeners over their receive queues |
| 52 network monitor | its receive queue | the reading loop | the kernel's announcements with a slow reader |
| 53 routing table | the buffer of one datagram | request, receive, the loop through the messages | the kernel, and any process that sends to the socket |
| 50 network device | the device | callbacks that hand on | |
| 1, 2, 3, 4, 5 | nothing beyond registrations | | |

Hard behaviours, by kind (PROJECT.json "hazards" has them by line): a flag that is tested
and reset in separate steps; objects initialised *after* somebody can already use them
(9 dynamic, 12, 13, 15, 17, 21, 24, 26); init functions that fail in the middle, or take an
error pointer for a success and go on (all that create a class, a device or a thread); exit
functions that then die on it; exit functions that do not wait for what they started
(9, 12, 19, 21) or tear down in an order that leaves a gap (12, 13, 15); counters and
sequence numbers that wrap; a mask of `dummy_poll` that is thrown away after the flag behind
it was cleared (26); a process that is signalled after it has gone (18); one variable for
all users (6, 7, 8, 22); answers that never come because nobody looked at a result (51, 54),
queues that overflow (52, 54), and a loop that does not move on (53).

## 2. The modules and the code

| module | models | state | actions |
|---|---|---|---|
| `ModuleLifecycle` | init and exit of all 39 drivers | the statements left, the resources held, open files | a statement of init that works or fails, a release, rmmod, open, close |
| `WaitqueueDriver` | `9_...` both methods | flag, program counter of `wait_function` and of each reader, membership of the queue | one action per read or write of the flag and per kernel call |
| `CompletionDriver` | `21_...` both methods | the same with the completion's counter | the same |
| `KthreadLocks` | `14`, `16`, `17` (both), `23` | the lock word, the variable, what each thread has loaded, stop flags | acquire, load, store, release, atomic operations, sleep; kthread_run, kthread_stop |
| `SharedCounter` | what the threads of `KthreadLocks` promise | value, active threads, loaded | begin, update, finish, unload |
| `SeqlockDriver` | `24` | sequence number, variable, what the reader has read | enter, load, store, leave; begin, read, retry |
| `DeferredWork` | `11`, `12`, `13`, `15`, `19`, `20` | statements left of init or exit, the line, the item (work, tasklet, timer) and its bit, the worker, the list | interrupt, handler, one action per step of the work function, per statement of init and exit |
| `PollDriver` | `26` and its programs | the two flags, the wait queue, where each process is in its program, in `dummy_poll` or asleep, the mask it was given | each test and each reset of a flag, sysfs show and store in their steps, return to poll, select or epoll, wake-up, timeout |
| `SignalDriver` | `18`, in both versions, and its program | `task`, the handler, each process with `done`, `check` and who holds its descriptor | ioctl, release, interrupt in three steps, the waiting loop, ctrl-c, fork and the end of processes |
| `SharedState` | `6`, `7`, `8`, `22` and their programs | the variable of each driver, where each user is | copying cell by cell, the toggle, load and store of the counter, the two ioctl commands |
| `NetlinkEcho` | `51`, `54` unicast and namespace, and their programs | the kernel sockets, the clients, the answers, references to namespaces | creating and storing a socket, the callback, each call of the programs, rmmod, the end of a namespace |
| `RouteDump` | `53` | the datagrams that have come, the buffer, the message looked at | request, receive, one action per branch of the loop, free |
| `NetlinkQueue` | the receive queue of a group member (the kernel's, as the programs use it) | | operators only |
| `NetMonitor` | `52` | its queue, what it printed | a change, read, error, sleep |
| `NetlinkMulticast` | `54` multicast driver and programs | the kernel socket, the group in its order, queues | join, send, delivery to one member after the other, read |
| `MCExamples` | the seven modules before it together | which one runs | theirs |
| `ModuleLifecycleProofs`, `WaitqueueDriverProofs`, `CompletionDriverProofs`, `KthreadLocksProofs`, `SeqlockDriverProofs`, `DeferredWorkProofs` | proofs about the modules they are named after | | |
| `NetlinkProofs` | proofs about `NetlinkEcho`, `RouteDump`, `NetMonitor` and `NetlinkMulticast`, each by itself | | |
| `ExamplesProofs` | proofs about `PollDriver`, `SignalDriver` and `SharedState`, and the theorems about `MCExamples` | | |

`MC...` modules and the `.cfg` files beside them give the constants their values. The modules
from `PollDriver` on share nothing with each other, so `MCExamples` composes them as
alternatives: its variable `example` says which one runs, and a property of one of them is
checked in all behaviours of the composition.

A driver is modelled twice when both views matter: its registrations in
`ModuleLifecycle`, its running core in the module of its own, which starts where the
device file has become reachable. A failure is what the code makes of it, not what the
branch behind a test intends: `class_create`, `device_create`, `kthread_create` and
`kthread_run` fail with an error pointer, the code compares it with NULL, and so the `goto` is
never taken. init goes on, and the error pointer does its harm where it is used: at once in
`wake_up_process` (9, 14, 21), otherwise in the exit function.

`ModuleLifecycle` is a table. One definition per driver gives the acquisitions of init
with the label each failure jumps to, the releases under each label, and the releases of
exit. An acquisition is a `Try` (init notices the failure and jumps, `FailAcquire`),
`Unnoticed` (the result is not looked at, or is an error pointer that is compared with NULL:
`Miss`), `Used` (the same, and the next function follows the pointer: `Oops`, insmod dies and
the module stays half loaded) or `Surely`. `Acquire` is the success; `Needs` says that there is
no device without its class and no file without its directory. `Unwind` and `Exit` release; a
resource is a name, and `Released` says what the kernel gives up (a kobject takes its files
along). Most releases of what is not there come back; `Deadly` lists those that do not,
because they follow a pointer or unlink what was never linked: `kthread_stop`,
`device_destroy` with the error pointer of a class, `destroy_workqueue(NULL)` and
`unregister_pernet_subsys` of operations that were never registered. On these rmmod dies
(`ExitOops`), and `ExitCleansUp` says that it dies of nothing else.

In the wait drivers `wait_event_interruptible` is what the macro does: test, go on the
queue, test again, sleep. A completion is atomic, as the kernel's own spinlock makes it.
On a queue head or completion that is all zeros the caller that follows the list dies, with
the spinlock held; `complete` has raised `done` by then, so that a later `completion_done`
finds it, and asks for the spinlock before it says so (`ReadSkip`; the kernel is taken to be
one for several processors, where that spinlock exists). The kernel closes the file of a
process that died, so a dead reader does not hold off rmmod (`NoReadInProgress`). What it
leaves behind is a flag, and for the completion a `done` that `init_completion` then sets to
zero: `wiped` notes that, until the next read.
A thread that cannot be created ends insmod in `wake_up_process` (`CreateDies`) with the device
file in place: it can be read for ever after, and the module cannot be unloaded.

In `KthreadLocks` `dummy_global_variable++` is a load and a store. The lock word is -1,
0 or the number of readers. `clobbered` records that `spin_lock_init` (17 Spinlock:194)
met a lock that was held; the safety properties are stated up to that event, and
`OnlySpinlockClobbers` says which driver can have it. A thread that could not be created is
"missing" (`SpawnMissed`): init goes on with the others, and rmmod dies when `kthread_stop`
comes to it (`StopDies`); driver 14 wakes it at once, and insmod dies (`SpawnDies`).
`SeqlockDriver` does the same. Likewise `torn` for
`seqlock_init` (24:215). `passed` counts how far the sequence number has moved under a
reader, so that a full circle can be told from standing still.

`DeferredWork` treats a work, a tasklet and a timer alike: an *item* with a bit that says
it is scheduled, a queue on which a worker finds it, a function that never runs twice at
a time. What differs is in `InitOf` and `ExitOf`, the statements of each driver, and in
what the kernel's calls do: `free_irq` waits for the handler, `tasklet_kill` for the
tasklet (and lets it be scheduled again afterwards), `destroy_workqueue` drains the queue,
refusing new work, and gives up if work came in between; `del_timer` waits for nothing,
`hrtimer_cancel` tries until the callback is not running. The line is shared, so
interrupts come at any moment between `request_irq` and `free_irq`, not only from
`dummy_read`. A fault ends the behaviour: a null pointer (`own_workqueue` before 12:194 or
when `create_workqueue` failed, `tasklet` before 15:188), uninitialised memory (between
15:188 and 15:193), a freed queue or tasklet, a function that runs after the unload, a
node linked behind one that exit has freed, a `kmalloc` in the work function that failed
(13:77). `FaultsKnown` says which of them each driver can have.

`PollDriver` keeps a process at a label (`at`) and a reason for which `dummy_poll` was called
(`pass`): poll and select ask once, sleep, ask again when woken, and a last time after five
seconds; `EPOLL_CTL_ADD` asks once and only notes that the file is ready; `epoll_wait` asks
only for a file on its ready list. poll and select differ in nothing that matters here and
are one action, `Call`. `init_waitqueue_head` (26:260) on a list that is not empty makes its
entries `strays`: they stay linked to each other, but the head does not lead to them. An entry
that is removed later writes to its neighbours, and the head is the left neighbour of the first
stray: when this one goes, the head leads to the other strays, and those that were on the queue
become the strays (`Unlink`; which stray is the first is left open). `former` and `mixed` note
who was there before the head was initialised and that one of these has gone, `missed` whom the
last wake-up did not find. `lost` notes how the news of a stored value came to
nothing.

In `SignalDriver` the handler tests `task` in one step and uses it in the next, `Reap` makes a
process that has ended go away, and a descriptor is given up when its last holder has
closed it. `displaced` and `inherited` note that another process registered, and that a
process had a child. Signal 44 is a real-time signal: several can be pending at a time.

`SharedState` has one session for each user: a write, a read, two ioctl calls, a count. `party`
are those who have had a session since the driver was last quiet, `before` is what it held at
that moment, `left` are readers of the proc file that did not wait for its end. A text is a
row of cells, each naming who wrote it, so that a mixture of two texts can be seen.
`MeetingsKnown` bounds what sessions that meet do to each other, and says of a session that
met nobody that it finds what was there.

In `NetlinkEcho` a socket is created in one step and stored in the next, as
`netlink_kernel_create` makes the protocol known before it returns. An answer is sent to the
process id in the message, and arrives if the client's `bind` got that id. `stuck` notes why
it does not. `RouteDump` follows the pointer through the messages of one datagram; a foreign
datagram can come before the kernel's, and with the flag that the dump was interrupted or
without. `NetlinkQueue` is the rule by which the kernel drops what does not fit: one error,
then silence until the queue has been read empty.

## 3. What the runs show

| run | bounds | states | shows |
|---|---|---|---|
| `lifecycle` | all 39 drivers, 2 open files | 3 905 | an exit that comes to its end gives everything back, in a safe order; when rmmod dies; what exactly a failed init leaves; which releases hit nothing; when memory goes away under an open file |
| `waitqueue` | 2 readers, 3 reads, both methods | 1 267 | no lost wake-up, no read counted twice, every read noticed, exit noticed outside one window; the read of a process lost to an uninitialised queue head is announced |
| `waitqueue_exit` (violated) | as above | | the comment at 9 Dynamic:118 promises that exit ends the thread; line 61 can overwrite the flag |
| `completion` | 2 readers, 3 reads, both methods | 1 541 | no read forgotten, but for one case; announcements, and the completions that pile up, bounded by reads; exit noticed outside one window |
| `completion_init` (violated) | as above | | the thread waits on a completion that is not initialised (21 dynamic:164 after 146) |
| `kthread` | 2 threads, variable of 2 bits, 5 drivers, any thread missing | 13 388 | exclusion, printed value is current, bit follows counter, refinement of `SharedCounter`, rmmod ends, or dies when a thread is missing |
| `seqlock` | sequence number and variable of 2 bits, either thread missing | 27 712 | parity, what a reader accepts, when rmmod ends and when it cannot |
| `seqlock_parity` (violated) | as above | | parity does not mean writing once `seqlock_init` hit the writer |
| `deferred` | 9 drivers, 2 writers, 2 values, 4 interrupts and writes | 73 851 | each driver fails in the ways listed and in no other; while it is loaded and not unloading only for want of memory; the list ends with what was written last; exit frees what was listed; rmmod ends; timers go on |
| `deferred_timer` (violated) | the timer driver | | a timer comes back after the unload (19:150, with 19:51) |
| `examples` | `MCExamples`: 2 pollers, 2 sysfs calls; 2 processes and a child; 3 users, 3 cells; 2 clients in 2 namespaces; 3 routes, 2 in a datagram; 5 changes; queues of 1, a listener and a sender | 437 488 | how the news of a stored value gets lost and in no other way; whom a wake-up passes over; whom the signal goes to; how much sessions that meet lose or mix; why a request is not answered; what a group member is told; that a flag is taken and a request ends, each with its exceptions |
| `poll_epoll` (violated) | as above | | the comment at 26:14 promises that the user is told of a stored value; `EPOLL_CTL_ADD` throws the mask away after 26:200 cleared the flag |

Bounds. Two threads is what the code starts; two readers are enough for each to be in
any step beside the other, and three reads let one of them come twice. Four interrupts and
writes let one fall into each of handler, work function, exit and list loop. Two bits for a
counter make it wrap within a run, and a sequence number of two bits makes a full circle
under a reader happen. The lifecycle has no counter besides open files; with two, one
can be closed while the other keeps the module.

In `examples`, two pollers, one of them epoll, can both test a flag before either clears it,
and can be registered on the queue together when `init_waitqueue_head` hits it; two sysfs
calls let a second value come while the first is on its way, and a show run beside a store.
Of two processes one can register after the other, and the child holds a descriptor when
its parent is gone. Of three users two can meet and the third come alone afterwards, or all
three meet; three cells hold two letters and the end of the string, the
least in which two texts can mix. Two namespaces are the initial one and one that can end.
Three routes do not fit into a datagram of two. A queue of one message overflows when a
listener's own message is followed by the sender's before it reads; five changes let the
monitor's queue overflow, be emptied, and overflow again.

Fairness. Threads, entered system calls and entered init and exit functions are
scheduled (weak fairness): the kernel is preemptive and nothing in the code stops them.
Nobody is obliged to read, to call rmmod, or to open anything, nor is anybody killed. `KthreadLocks` assumes
strong fairness of acquiring a lock, as mutexes and queued spinlocks serve their waiters
in order. `DeferredWork` assumes it of `hrtimer_cancel`, which tries without pause while the
callback runs once in a period of seconds. `SeqlockDriver` assumes nothing of the kind for the reader, who is not
promised to look at the number while it is even. `PollFairness`: a process that runs one of
the programs goes on and its five seconds pass; init gets to its last statement; a call of a
sysfs file that has begun ends, and none has to begin. `EchoFairness`: a client that has
opened its socket goes on. `DumpFairness`: so does the routing table program once it has sent
its request. The answer itself needs no fairness, as the callback runs in the client's call.
Of the signal program, the shared variables, the monitor and the multicast nothing is
claimed that needs fairness.

Deadlock is not checked: every driver stops when its module is unloaded, when init has
failed, when insmod or rmmod died, or when its thread has gone.

## 4. What is proved

Every invariant that a passing run checks is a theorem for every value of the constants, and
so is the refinement of `SharedCounter`. The assumptions are the ones the modules state, as
`ASSUME`s that TLC evaluates on each run: bounds are natural numbers, sets of readers, users and
clients are finite, the drivers are those of the repository. The
bounds of section 3 do not enter the proofs. Each proof has the same
shape: an inductive invariant, one lemma for each action or family of actions, and a theorem for each property it implies.

`ModuleLifecycleProofs`, for any of the 39 drivers and any number of open files. None
of the properties is inductive: what is left registered at the end depends on which
statements were left in between. The proof separates the table from the machine that
executes it.

- `Enumerates(s, S, f)`: the list `s` names the members of `S` in the order `f` ranks them;
  `Rest` says that taking the first statement off leaves such a list of the others. A
  state then only has to say which *set* of statements is left. The ranks are one order for
  all init functions (`InitOrder`), one for all exit functions (`ExitOrder`) and one for all
  labels (`LabelOrder`); that the 39 drivers agree on three orders is itself proved.
- `Sound(d, ...)`: the lists of one driver are in order and fit each other. `SoundFailure`: a
  label releases only what is held by then, or what init missed without harm, or is excused,
  and all that may be held but the residue. `SoundExit`: exit names all that may be held, and what a resource
  rests on is acquired before it. It is proved for twenty families of drivers, and
  `AllSound` collects them.
- `IInv`: each statement of init that is done has its resource either held or missed
  (`InitInv`); while exit runs, a release is left for all that is held, and where it dies what
  is missed is what it died of (`ExitInv`); while a label unwinds, the residue is what is held
  and no release is left for (`WildInv`). A file is open only
  if the cdev or misc device was there (`OpenInv`). The steps use `Sound` and the orders,
  never a particular driver.
- `TypeCorrect`, `ExitReleasesAll`, `ResidueExact`, `WildReleases` and
  `NeverUnderOpenFile` follow.

`WaitqueueDriverProofs`, for every set of readers, every number of reads and both methods:
`NoLostWakeup` is inductive as it stands. `DeadReadIsKept` needs `QueueInv` (when the head is not
valid), `WakeInv` (a reader on its way to die has left its flag) and of `FlagInv` that the
thread, which alone clears the flag, has counted before.
`CountsOnlyReads` is not inductive: a set flag is a read the thread will count, unless the
thread is about to reset it. `Owed` counts that read, and `CountInv` bounds counted and owed
reads together. `FlagInv` says that the thread passes its wait only beside a set flag.

`CompletionDriverProofs`, for every finite set of readers and every number of reads: for
`Announcing` each read stands for one completion, counted, taken, given or to be given
(`CountInv`), and exit gives one more. `TokensBounded` is that the test before `complete` bounds
what piles up. `Remembering` is not inductive while the thread does not exist
yet: `WaitInv` says that nobody takes a completion away before it waits. A dead reader does
not count as on its way: `ReadyInv` says that before `init_completion` only a reader that died
can have completed, which is the one case in which a completion is wiped.

`KthreadLocksProofs`, for every number of threads and every width of the variable, from
the assumptions that both are positive:

- `Invariance`: the inductive invariant `IInv`. `MutualExclusion` is not inductive by
  itself: that the lock word is free says something about the threads only together with
  `LockInv` (free means no writer inside, a positive word is the number of readers
  inside), that nobody is in a critical section at `mutex_init` needs `PhaseInv` (which
  threads exist in which phase of init), and that a lock of the right kind is released
  needs `PathInv` (each driver runs its own thread function). `StopInv` says who has been
  asked to stop and joined, `DataInv` that a loaded value is still the current one.
- `TypeCorrect`, `Exclusion`, `Printing`, `Clobbering`, `Joining`, `Dying` follow from it.
- `BitParity`: the bit follows the counter. It has a hypothesis more, that the number of
  values of the variable is even, as it is for an `int`: with an odd number the first
  wrap would break the parity. `BitInv` is about the size of the set of threads between the
  two operations, which changes by one when a thread enters or leaves it.
- `Refinement`: every step of the drivers is a step of `SharedCounter` or leaves it alone.

`SeqlockDriverProofs`, for every width of sequence number and variable: `Parity` follows
from `WrapFlips`, as the number of values is even. For `Accepting`, `SeqInv` says how far
the number is from the one the reader noted, so that equal means not moved at all, and
`DataInv` that what was read is current until it moves. `Blocking` is a stability
argument: in such a state no action is enabled.

`DeferredWorkProofs`, for every set of writers, every set of values and every number of
interrupts, for all nine drivers. `FaultsKnown` is part of the invariant and not inductive alone: that
a driver cannot meet a freed queue needs to know which statements of exit are left when
the queue is freed (`TodoInv`, with one set of possible rests for each shape of exit), in
which state the item is then (`ItemInv`), and what the handler and the worker can still be
doing (`RestInv`). `LastWrite` is a statement about a quiet moment; at the others either
somebody is still to make a node of the value (`News`), or it is the last number of the
list (`LatestInv`). `ListFreed` needs how far the
freeing loop is and which nodes it has passed (`NodesInv`).

`NetlinkProofs`, for every finite set of clients, every set of namespaces, listeners and
senders, every number of routes and changes, and every length of a queue:

- `EchoInv`: the reasons for which a client may wait are read off the driver's state; `SockInv`
  says which sockets exist in each phase, `ClientInv` who has been heard.
- `DumpInv`: the pointer stays in the buffer that was received last, and the program has printed
  exactly the messages behind it (`PrintInv`).
- `MonitorInv`: what the monitor knows, shown or queued, is in order and has no more gaps
  than errors. A change that is appended to a queue that is not congested makes no gap
  (`GapsOfAppended`); a congested queue already has its gap behind the last entry.
- `McInv`: each message is at one place for each listener, so none is printed twice, and a
  queue that dropped one has an error or had one that was read.

`ExamplesProofs`: `StoreNotForgotten`, `PassedOver` and `SignalTargets` become inductive once it is
known who is registered (`RegisteredInv`), that the strays are the old entries as long as none
of these has gone (`EntriesInv`), and who holds which descriptor (`HoldersInv`). For
`MeetingsKnown`, for every finite set of users and every length of the memory: a cell either
has been written by one of the party or still waits for all who will write it (`CellInv`), so
that what a reader has copied was there at the last quiet moment or was written since
(`PictureInv`); the toggle is at 0 only beside a reader, or behind one that left
(`ToggleInv`); and the count has grown by at least one and at most the number of those who
have stored (`TallyInv`), which is why counts are lost but never all.
`Components` then says that each of the seven specifications holds in the
composition, as the others leave its variables alone, and the theorems are stated of
`MCExamples`.

Model-checked only: what must eventually happen (`ReadIsNoticed`, `ExitSeenOutsideWindow`,
`StopEnds`, `StopEndsUnlessTorn`, `ExitEnds`, `KeepsTicking`, `FlagIsTaken`, `RequestEnds`). They
rest on fairness, and so on ENABLED, which the prover cannot reason about.

## 5. Plan

The components are modelled and the invariants proved. What is left:

1. The steps behind the liveness properties, which need no fairness: that nothing takes back
   what the thread waits for (a stop request, a flag of exit, a pending completion), as
   action properties beside the invariants.
2. An abstract specification of what the wait and completion drivers promise together (reads
   come, are announced at most once each, exit ends the announcements), with both drivers
   shown to implement it.
3. A property of the multicast driver for rmmod under a callback, with its proof.

## 6. What is not modelled

Printing, formatting of values for sysfs, build files, the generated `*.mod.c`, the
vendored text files and binaries. Hello World and the parameter example (1, 2) have no
state beyond variables set by the kernel's own code. Of the network device (50) init and exit
are modelled; its callbacks hand on to the network stack and keep nothing. Memory after a
module is freed is not modelled: that a thread, a work function or an open file is left at
that point is what the properties speak of.

Of the modelled drivers these details are left out:

- 26 copies with `strcpy` between the kernel and pointers of the user: whether that works
  depends on the processor's settings, and the model takes it to work.
- 6: a write longer than the buffer.
- 18: optimised builds of the program, in which `done` and `check`, not being volatile, may
  never be read again.
- 51 and 54: the bytes after the text of a message, which is sent without its terminator
  (54 multicast:46), and what the programs print of them. 54 multicast and 52 pass `recvmsg` a
  `msghdr` of which they set only some members; as no ancillary data is asked for, the others
  are not used.
- 52 and 53: what is printed of a message, beyond that it is printed. 52 handles the first
  message of a datagram only; on the groups it joins the kernel puts one message in each.
- 54 multicast: that rmmod finds a callback running is in the model (`mcFault` is
  "unloaded") and no property is about it.
