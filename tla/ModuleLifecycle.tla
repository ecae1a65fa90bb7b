--------------------------- MODULE ModuleLifecycle ---------------------------
(***************************************************************************)
(* Loading and unloading the modules of the repository.  Every driver has  *)
(* an init function that acquires kernel resources one after the other,    *)
(* and on a failure jumps to a label from which it falls through a list of *)
(* releases, and an exit function that releases what a successful init     *)
(* acquired.  One definition per driver lists the three; the actions below *)
(* execute them statement by statement while users open and close the      *)
(* device file.                                                            *)
(*                                                                         *)
(* class_create, device_create, kthread_create and kthread_run fail with   *)
(* an error pointer.  The code tests them against NULL, so the goto behind *)
(* the test is never taken: init goes on with the error pointer.           *)
(* The data behind a resource is left out: a resource is a name.           *)
(***************************************************************************)
EXTENDS Naturals, Sequences, FiniteSets

CONSTANTS Explored,  \* the drivers whose modules may be loaded
          MaxOpen    \* bound on the open file descriptions of the device file

VARIABLES driver,    \* the module being loaded
          phase,     \* where insmod / rmmod stand
          todo,      \* statements left of the current list
          held,      \* resources registered with the kernel
          missed,    \* acquisitions that failed unnoticed: NULL or an error
                     \* pointer is in the variable, or nothing was registered
          failedAt,  \* the resource whose acquisition made init fail
          wild,      \* releases executed for something that was not held
          opened     \* open file descriptions of the device file

vars == <<driver, phase, todo, held, missed, failedAt, wild, opened>>

-----------------------------------------------------------------------------
(* The statements of an init function.                                     *)

\* if (acquire(...) fails) goto label;  "out" is a plain return.
Try(r, label) == [get |-> r, label |-> label]

\* acquire(...) whose failure goes unnoticed, as the result is not looked at,
\* or is an error pointer that is compared with NULL: init goes on without it.
Unnoticed(r) == [get |-> r, label |-> "none"]

\* The same, with the result handed at once to a function that follows the
\* pointer: wake_up_process, register_netdev.
Used(r) == [get |-> r, label |-> "used"]

\* An acquisition that cannot fail: arming a timer of the module.
Surely(r) == [get |-> r, label |-> "never"]

\* The first four acquisitions, the same in all the character drivers.
Base == << Try("region", "out"), Try("cdev", "r_class"),
           Unnoticed("class"), Unnoticed("device") >>

Sysfs == << Unnoticed("kobj"), Try("attr", "r_sysfs") >>
Irq   == << Try("irq", "irq") >>
TwoThreads == << Unnoticed("thread1"), Unnoticed("thread2") >>

\* Mutant: r_device falls through without destroying the class.
LabelsKeepingClass(tail) ==
  LET sys == <<"kobj", "rootattr">> \o tail
  IN  [out |-> <<>>, r_class |-> tail, r_device |-> tail, r_sysfs |-> sys,
       irq |-> <<"irq">> \o sys]

\* The labels at the end of init; a label falls through to those above it.
\* The drivers differ in what r_class releases (tail) and in what the irq
\* label falls into.
Labels(tail) ==
  LET dev == <<"class">> \o tail
      sys == <<"kobj", "rootattr">> \o dev
  IN  [out |-> <<>>, r_class |-> tail, r_device |-> dev, r_sysfs |-> sys,
       irq |-> <<"irq">> \o sys]
NoCdevDel == Labels(<<"region">>)
CdevDel   == Labels(<<"region", "cdev">>)

BaseExit  == <<"device", "class", "cdev", "region">>
SysfsExit == <<"kobj", "rootattr">> \o BaseExit
StopTwo   == <<"thread1", "thread2">>

Driver(init, labels, exit) == [init |-> init, labels |-> labels, exit |-> exit]

-----------------------------------------------------------------------------
(* One definition per driver, from its init and exit functions.            *)

DynamicMajor == Driver(<<Try("region", "out")>>, NoCdevDel, <<"region">>)
StaticMajor  == Driver(<<Unnoticed("region")>>, NoCdevDel, <<"region">>)
ManualNode   == DynamicMajor
AutoNode     ==
  Driver(<<Try("region", "out"), Unnoticed("class"), Unnoticed("device")>>,
         NoCdevDel, <<"device", "class", "region">>)
FileOps      == Driver(Base, NoCdevDel, BaseExit)
\* Mutant: the buffer is freed twice.
RealDeviceFreeingTwice ==
  Driver(Append(Base, Try("buffer", "r_device")), NoCdevDel,
         <<"buffer", "buffer">> \o BaseExit)

RealDevice   == Driver(Append(Base, Try("buffer", "r_device")), NoCdevDel,
                       <<"buffer">> \o BaseExit)
Ioctl        == Driver(Base, NoCdevDel, BaseExit)
Procfs       == Driver(Base \o <<Try("procdir", "r_device"), Unnoticed("procfile")>>,
                       NoCdevDel, <<"procdir">> \o BaseExit)
\* The wait drivers ask their thread to leave and do not wait for it.
WaitDynamic  == Driver(Append(Base, Used("thread1")), NoCdevDel, BaseExit)
WaitStatic   == Driver(Append(Base, Used("thread1")), NoCdevDel, BaseExit)
CompletionDynamic == Driver(Append(Base, Used("thread1")), NoCdevDel, BaseExit)
CompletionStatic  == Driver(Append(Base, Used("thread1")), NoCdevDel, BaseExit)
SysfsAttr    == Driver(Base \o Sysfs, CdevDel, SysfsExit)
IrqOld       == Driver(Base \o Sysfs \o Irq, CdevDel, <<"irq">> \o SysfsExit)
IrqWorking   == Driver(Base \o Sysfs \o Irq, CdevDel, <<"irq">> \o SysfsExit)
GlobalWorkDynamic == Driver(Base \o Sysfs \o Irq, CdevDel, <<"irq">> \o SysfsExit)
GlobalWorkStatic  == Driver(Base \o Sysfs \o Irq, CdevDel, <<"irq">> \o SysfsExit)
OwnWorkqueue == Driver(Base \o Sysfs \o Irq \o <<Unnoticed("workqueue")>>,
                       CdevDel, <<"workqueue", "irq">> \o SysfsExit)
LinkedList   == Driver(Base \o Sysfs \o Irq \o <<Unnoticed("workqueue")>>,
                       CdevDel, <<"workqueue", "irq">> \o SysfsExit)
TaskletDynamic == Driver(Base \o Sysfs \o Irq \o <<Try("tasklet", "irq")>>,
                         CdevDel, <<"tasklet", "irq">> \o SysfsExit)
TaskletStatic  == Driver(Base \o Sysfs \o Irq, CdevDel, <<"irq">> \o SysfsExit)
Kthread      == Driver(Append(Base, Used("thread1")), CdevDel,
                       <<"thread1">> \o BaseExit)
\* Mutant: the second thread is not stopped.
MutexStoppingOne == Driver(Base \o TwoThreads, CdevDel, <<"thread1">> \o BaseExit)

Mutex        == Driver(Base \o TwoThreads, CdevDel, StopTwo \o BaseExit)
Spinlock     == Driver(Base \o TwoThreads, CdevDel, StopTwo \o BaseExit)
RwSpinlock   == Driver(Base \o TwoThreads, CdevDel, StopTwo \o BaseExit)
Atomic       == Driver(Base \o TwoThreads, CdevDel, StopTwo \o BaseExit)
Seqlock      == Driver(Base \o TwoThreads, CdevDel, StopTwo \o BaseExit)
\* No sysfs entry: the irq label falls into r_device.
Signal       == Driver(Base \o Irq,
                       [NoCdevDel EXCEPT !.irq = <<"irq", "class", "region">>],
                       <<"irq">> \o BaseExit)
KernelTimer  == Driver(Append(Base, Surely("timer")), NoCdevDel,
                       <<"timer">> \o BaseExit)
HrTimer      == Driver(Append(Base, Surely("timer")), NoCdevDel,
                       <<"timer">> \o BaseExit)
ExportDefinition == Driver(Base, NoCdevDel, BaseExit)
ExportCaller == Driver(Base, NoCdevDel, BaseExit)
Misc         == Driver(<<Try("misc", "out")>>, NoCdevDel, <<"misc">>)
PollSelect   == Driver(Base \o Sysfs, NoCdevDel, SysfsExit)
NetDevice    == Driver(<<Used("netalloc"), Try("netdev", "r_netdev")>>,
                       [r_netdev |-> <<"netalloc">>], <<"netdev", "netalloc">>)
NetlinkHello     == Driver(<<Try("nlsock", "out")>>, NoCdevDel, <<"nlsock">>)
NetlinkUnicast   == Driver(<<Try("nlsock", "out")>>, NoCdevDel, <<"nlsock">>)
NetlinkMulticast == Driver(<<Try("nlsock", "out")>>, NoCdevDel, <<"nlsock">>)
NetlinkNamespace == Driver(<<Unnoticed("pernet")>>, NoCdevDel, <<"pernet">>)

Drivers ==
  [DynamicMajor |-> DynamicMajor, StaticMajor |-> StaticMajor,
   ManualNode |-> ManualNode, AutoNode |-> AutoNode, FileOps |-> FileOps,
   RealDevice |-> RealDevice, Ioctl |-> Ioctl, Procfs |-> Procfs,
   WaitDynamic |-> WaitDynamic, WaitStatic |-> WaitStatic,
   CompletionDynamic |-> CompletionDynamic, CompletionStatic |-> CompletionStatic,
   SysfsAttr |-> SysfsAttr, IrqOld |-> IrqOld, IrqWorking |-> IrqWorking,
   GlobalWorkDynamic |-> GlobalWorkDynamic, GlobalWorkStatic |-> GlobalWorkStatic,
   OwnWorkqueue |-> OwnWorkqueue, LinkedList |-> LinkedList,
   TaskletDynamic |-> TaskletDynamic, TaskletStatic |-> TaskletStatic,
   Kthread |-> Kthread, Mutex |-> Mutex, Spinlock |-> Spinlock,
   RwSpinlock |-> RwSpinlock, Atomic |-> Atomic, Seqlock |-> Seqlock,
   Signal |-> Signal, KernelTimer |-> KernelTimer, HrTimer |-> HrTimer,
   ExportDefinition |-> ExportDefinition, ExportCaller |-> ExportCaller,
   Misc |-> Misc, PollSelect |-> PollSelect, NetDevice |-> NetDevice,
   NetlinkHello |-> NetlinkHello, NetlinkUnicast |-> NetlinkUnicast,
   NetlinkMulticast |-> NetlinkMulticast, NetlinkNamespace |-> NetlinkNamespace]

ASSUME ExploredAssumption == Explored \subseteq DOMAIN Drivers
ASSUME MaxOpenAssumption == MaxOpen \in Nat \ {0}

-----------------------------------------------------------------------------
Resources == {"region", "cdev", "class", "device", "kobj", "attr", "irq",
              "workqueue", "tasklet", "buffer", "procdir", "procfile",
              "thread1", "thread2", "timer", "misc", "netalloc", "netdev",
              "nlsock", "pernet"}

\* What each resource is registered under.
Under(r) == CASE r = "device"   -> {"class", "region"}
              [] r = "cdev"     -> {"region"}
              [] r = "attr"     -> {"kobj"}
              [] r = "procfile" -> {"procdir"}
              [] r = "netdev"   -> {"netalloc"}
              [] OTHER          -> {}

\* What the kernel gives up on a release: kobject_put and proc_remove take
\* the directory's entries along; sysfs_remove_file(kernel_kobj, ...) names
\* the wrong directory ("rootattr") and removes nothing.
Released(r) == CASE r = "kobj"    -> {"kobj", "attr"}
                 [] r = "procdir" -> {"procdir", "procfile"}
                 [] OTHER         -> {r}

\* What the acquisition of a resource is given: device_create hands the error
\* pointer of a class on, sysfs_create_file refuses a NULL directory.
Needs(r) == CASE r = "device" -> {"class"}
              [] r = "attr"   -> {"kobj"}
              [] OTHER        -> {}

-----------------------------------------------------------------------------
Init == /\ driver \in Explored
        /\ phase = "init"
        /\ todo = Drivers[driver].init
        /\ held = {} /\ missed = {} /\ wild = {}
        /\ failedAt = "none"
        /\ opened = 0

\* The phase once one more statement of the list is done.
After(last, current) == IF Len(todo) = 1 THEN last ELSE current

\* init goes on to its next statement.
Proceed ==
  /\ todo' = Tail(todo)
  /\ phase' = After("live", "init")
  /\ UNCHANGED <<driver, failedAt, wild, opened>>

\* A statement of init that works.
Acquire ==
  /\ phase = "init"
  /\ Needs(Head(todo).get) \subseteq held
  /\ held' = held \cup {Head(todo).get}
  /\ UNCHANGED missed
  /\ Proceed

\* A statement of init that fails, and init does not notice.
Miss ==
  /\ phase = "init" /\ Head(todo).label = "none"
  /\ missed' = missed \cup {Head(todo).get}
  /\ UNCHANGED held
  /\ Proceed

\* A statement of init that fails: goto its label, or return at once.
FailAcquire ==
  /\ phase = "init"
  /\ Head(todo).label \notin {"none", "never", "used"}
  /\ todo' = Drivers[driver].labels[Head(todo).label]
  /\ failedAt' = Head(todo).get
  /\ phase' = IF Head(todo).label = "out" THEN "failed" ELSE "unwind"
  /\ UNCHANGED <<driver, held, missed, wild, opened>>

\* A statement that fails and whose result is used all the same: insmod dies,
\* and the module stays half loaded.
Oops ==
  /\ phase = "init" /\ Head(todo).label = "used"
  /\ phase' = "oops"
  /\ todo' = <<>>
  /\ UNCHANGED <<driver, held, missed, failedAt, wild, opened>>

\* A release, whether or not there is something to release.
Release ==
  /\ held' = held \ Released(Head(todo))
  /\ wild' = IF Head(todo) \in held THEN wild ELSE wild \cup {Head(todo)}
  /\ todo' = Tail(todo)
  /\ UNCHANGED <<driver, missed, failedAt, opened>>

Unwind == phase = "unwind" /\ Release /\ phase' = After("failed", "unwind")

\* Mutant: .owner is not set, nothing pins the module.
RmmodUnpinned ==
  /\ phase = "live"
  /\ phase' = "exit"
  /\ todo' = Drivers[driver].exit
  /\ UNCHANGED <<driver, held, missed, failedAt, wild, opened>>

\* rmmod is refused while a file operation table of the module is in use.
Rmmod ==
  /\ phase = "live" /\ opened = 0
  /\ phase' = "exit"
  /\ todo' = Drivers[driver].exit
  /\ UNCHANGED <<driver, held, missed, failedAt, wild, opened>>

\* The releases that follow a pointer, or a list, without a look:
\* device_destroy that of the class, kthread_stop and destroy_workqueue their
\* own, unregister_pernet_subsys the links of the operations.
Deadly == \/ Head(todo) = "device" /\ "class" \notin held
          \/ Head(todo) \in {"thread1", "thread2", "workqueue", "pernet"} \ held

Exit == phase = "exit" /\ ~Deadly /\ Release /\ phase' = After("unloaded", "exit")

\* rmmod dies, and the module stays, half torn down and never to be loaded
\* again.
ExitOops ==
  /\ phase = "exit" /\ Deadly
  /\ phase' = "dead"
  /\ todo' = <<>>
  /\ UNCHANGED <<driver, held, missed, failedAt, wild, opened>>

\* open() reaches the module as soon as its cdev is in the kernel's map, also
\* while init still runs or after it died; .owner = THIS_MODULE makes it fail
\* once rmmod began.
Open ==
  /\ held \cap {"cdev", "misc"} # {}
  /\ phase \in {"init", "unwind", "live", "oops"}
  /\ opened < MaxOpen
  /\ opened' = opened + 1
  /\ UNCHANGED <<driver, phase, todo, held, missed, failedAt, wild>>

\* Mutant: a file is released more often than it was opened.
CloseTwice ==
  /\ opened' = opened - 1
  /\ UNCHANGED <<driver, phase, todo, held, missed, failedAt, wild>>

Close ==
  /\ opened > 0
  /\ opened' = opened - 1
  /\ UNCHANGED <<driver, phase, todo, held, missed, failedAt, wild>>

Next == Acquire \/ Miss \/ FailAcquire \/ Oops \/ Unwind \/ Rmmod \/ Exit
        \/ ExitOops \/ Open \/ Close

Spec == Init /\ [][Next]_vars

-----------------------------------------------------------------------------
Phases == {"init", "unwind", "live", "exit", "failed", "unloaded", "oops", "dead"}

\* The acquisitions that can fail unnoticed.
Missable == {"region", "class", "device", "kobj", "procfile", "thread1", "thread2",
             "workqueue", "pernet"}

\* Every variable stays in its range.
TypeOK == /\ driver \in Explored
          /\ phase \in Phases
          /\ held \subseteq Resources
          /\ missed \subseteq Missable
          /\ failedAt \in Resources \cup {"none"}
          /\ wild \subseteq Resources \cup {"rootattr"}
          /\ opened \in 0..MaxOpen

\* The drivers whose thread is asked to leave but not waited for.
SelfEnding == {"WaitDynamic", "WaitStatic", "CompletionDynamic", "CompletionStatic"}

\* What exit cannot do without.
Fatal == {"class", "thread1", "thread2", "workqueue", "pernet"}

\* An exit function comes to its end unless init missed a class, a thread of its
\* own, its work queue or its registration in the namespaces and took the result
\* for good: on that, and on nothing else, it dies.  One that comes to its end
\* has given back all that init acquired (only the thread of the wait and
\* completion drivers may still be there).  On the way, and wherever it dies, it
\* takes no resource away under one that rests on it: the device goes before its
\* class, the cdev before its number, a file before its directory.
ExitCleansUp ==
  /\ phase = "dead" => missed \cap Fatal # {}
  /\ phase = "unloaded" =>
       /\ missed \cap Fatal = {}
       /\ held \subseteq IF driver \in SelfEnding THEN {"thread1"} ELSE {}
  /\ phase \in {"exit", "unloaded", "dead"} => \A r \in held : Under(r) \subseteq held

\* The drivers whose r_class label deletes the cdev.
UnwindsCdev == {"SysfsAttr", "IrqOld", "IrqWorking", "GlobalWorkDynamic",
                "GlobalWorkStatic", "OwnWorkqueue", "LinkedList", "TaskletDynamic",
                "TaskletStatic", "Kthread", "Mutex", "Spinlock", "RwSpinlock",
                "Atomic", "Seqlock"}

\* What a failed init leaves registered while the kernel frees the module: the
\* device, when there was one, as no label destroys it; the cdev, when the
\* driver does not delete it.  Never a number, a class, an interrupt, a thread,
\* a sysfs or a proc entry.
FailedInitResidue ==
  phase = "failed" =>
    held = {r \in {"device", "cdev"} :
              CASE r = "device"  -> /\ failedAt \in {"attr", "irq", "tasklet", "buffer", "procdir"}
                                    /\ "device" \notin missed
                [] r = "cdev"    -> /\ driver \notin UnwindsCdev
                                    /\ failedAt \notin {"region", "cdev", "misc", "netdev", "nlsock"}}

\* A release that comes back never hit a resource the module does not hold,
\* apart from: the sysfs file named in the wrong directory, the interrupt
\* request that failed (its own label frees it), the cdev that could not be
\* added, and what init missed: a fixed number, a NULL kobject, a device that
\* is not there.  The error pointer of a class is only ever handed to
\* class_destroy by a label: exit dies before it gets there.
WildReleasesKnown ==
  /\ wild \subseteq {"rootattr"} \cup ({failedAt} \cap {"irq", "cdev"})
                   \cup (missed \cap {"region", "kobj", "device", "class"})
  /\ "class" \in wild => failedAt # "none"

\* The module's memory goes away under an open file only when init failed
\* after the cdev was added, never through rmmod.
GoneUnderOpenFile ==
  opened > 0 /\ phase \in {"exit", "unloaded", "failed"} =>
    phase = "failed" /\ failedAt \notin {"region", "cdev", "misc"}
=============================================================================
