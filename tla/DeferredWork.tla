---------------------------- MODULE DeferredWork ----------------------------
(***************************************************************************)
(* The drivers that put work off: an interrupt handler on a shared line    *)
(* that schedules a tasklet or queues a work item, and the two timers that *)
(* arm themselves again.                                                   *)
(*                                                                         *)
(*   "irq"              a handler that defers nothing                      *)
(*   "work_dynamic"     schedule_work, INIT_WORK in init                   *)
(*   "work_static"      schedule_work, DECLARE_WORK                        *)
(*   "own_queue"        queue_work on a workqueue of the driver            *)
(*   "list"             the same, the work adds a node to a list           *)
(*   "tasklet_dynamic"  tasklet_schedule, the tasklet is kmalloc'ed        *)
(*   "tasklet_static"   tasklet_schedule, DECLARE_TASKLET                  *)
(*   "timer"            mod_timer from its own callback                    *)
(*   "hrtimer"          HRTIMER_RESTART from its callback                  *)
(*                                                                         *)
(* Each has one item (a work, a tasklet, a timer) whose function runs in   *)
(* a worker of the kernel, never twice at a time.  init and exit execute   *)
(* their statements while the line and the worker go on.  The              *)
(* registrations around them are those of ModuleLifecycle.  What the       *)
(* kernel's own functions do is modelled after the version the repository  *)
(* names (5.11).  A fault ends the behaviour.                              *)
(***************************************************************************)
EXTENDS Naturals, Sequences

CONSTANTS Explored,  \* the drivers explored
          Writers,   \* processes that write to the device file of "list"
          Values,    \* what they write
          MaxTrig    \* bound on interrupts and writes

Timers   == {"timer", "hrtimer"}
Tasklets == {"tasklet_dynamic", "tasklet_static"}
OwnQueue == {"own_queue", "list"}
AllDrivers == Timers \cup Tasklets \cup OwnQueue \cup {"irq", "work_dynamic", "work_static"}

ASSUME ExploredAssumption == Explored \subseteq AllDrivers
ASSUME ValuesAssumption   == Values \subseteq Nat
ASSUME MaxTrigAssumption  == MaxTrig \in Nat

VARIABLES driver,
          phase,    \* of the module: "init", "live", "exit", "unloaded"
          todo,     \* statements left of init or exit
          irq,      \* irq_handler is registered
          raised,   \* the line is raised and not served yet
          handler,  \* irq_handler: "idle" or "entered"
          used,     \* interrupts and writes so far
          item,     \* what the deferring call works on: "absent", "garbage",
                    \* "ready", "draining", "freed"
          pending,  \* the bit of the item that says it is scheduled
          queued,   \* a worker will find the item
          worker,   \* where the item's function is
          value,    \* dummy_value
          writer,   \* what each writer is about to do: "write", "int"
          data,     \* the data of the node being made
          prev,     \* the node it is linked behind, 0 is Head_Node
          nodes,    \* the data of all the nodes ever linked, in order
          freed,    \* how many of them, from the front, exit has freed
          more,     \* the cursor of exit's loop has seen a next node
          atExit,   \* history: nodes linked when exit began
          fault     \* "none", or what brought the system down

module  == <<driver, phase, todo, atExit>>
line    == <<irq, raised, handler, used>>
work    == <<item, pending, queued, worker>>
list    == <<data, prev, nodes, freed, more>>
writing == <<value, writer>>
vars == <<module, line, work, list, writing, fault>>

-----------------------------------------------------------------------------
(* The statements of init and exit.                                        *)

InitOf == [d \in AllDrivers |->
  CASE d \in Timers          -> <<"arm">>
    [] d = "work_dynamic"    -> <<"request_irq", "init_work">>
    [] d \in OwnQueue        -> <<"request_irq", "create_queue">>
    [] d = "tasklet_dynamic" -> <<"request_irq", "kmalloc", "tasklet_init">>
    [] OTHER                 -> <<"request_irq">>]

FreeIrq == <<"free_irq", "synchronize">>
Kill    == <<"kill", "killed">>
Destroy == <<"drain", "drained", "destroy">>

ExitOf == [d \in AllDrivers |->
  CASE d = "timer"           -> <<"del_timer">>
    [] d = "hrtimer"         -> <<"cancel">>
    [] d = "own_queue"       -> Destroy \o FreeIrq
    [] d = "list"            -> <<"free_nodes">> \o Destroy \o FreeIrq
    [] d = "tasklet_dynamic" -> Kill \o <<"kfree">> \o FreeIrq
    [] d = "tasklet_static"  -> Kill \o FreeIrq
    [] OTHER                 -> FreeIrq]

Init == /\ driver \in Explored
        /\ phase = "init"
        /\ todo = InitOf[driver]
        /\ irq = FALSE /\ raised = FALSE /\ handler = "idle" /\ used = 0
        /\ item = IF driver \in OwnQueue \cup {"work_dynamic", "tasklet_dynamic"}
                  THEN "absent" ELSE "ready"
        /\ pending = FALSE /\ queued = FALSE /\ worker = "idle"
        /\ value = 0 /\ writer = [w \in Writers |-> "write"]
        /\ data = 0 /\ prev = 0 /\ nodes = <<>> /\ freed = 0 /\ more = FALSE
        /\ atExit = 0
        /\ fault = "none"

Crash(f) == fault' = f /\ UNCHANGED <<module, line, work, list, writing>>

-----------------------------------------------------------------------------
(* The line, its handler and the writers.                                  *)

\* dummy_read executes int $0x3B, or another device shares the line.
Raise == /\ fault = "none" /\ irq /\ used < MaxTrig
         /\ raised' = TRUE
         /\ used' = used + 1
         /\ UNCHANGED <<irq, handler, module, work, list, writing, fault>>

Interrupt == /\ fault = "none" /\ raised /\ handler = "idle"
             /\ raised' = FALSE
             /\ handler' = "entered"
             /\ UNCHANGED <<irq, used, module, work, list, writing, fault>>

\* What scheduling does when the item is not what it should be: a null
\* pointer, a workqueue or tasklet that was freed, uninitialised memory.
Harm == CASE item = "freed"                              -> {"freed"}
          [] item = "absent" /\ driver # "work_dynamic"  -> {"null"}
          [] item = "garbage"                            -> {"none", "garbage"}
          [] OTHER                                       -> {}

\* A work that INIT_WORK has not seen, or whose queue is being drained, is
\* marked but not queued.
Refused == item \in {"absent", "draining"}

\* The bit of a work is in the module, that of a tasklet in the tasklet: a
\* work that is marked is not looked at any further.
Looks == driver \in Tasklets \/ ~pending

\* Mutant: the handler does not schedule while the function is running.
HandleUnlessRunning ==
  /\ fault = "none" /\ handler = "entered"
  /\ handler' = "idle"
  /\ IF driver = "irq" \/ worker # "idle" \/ ~Looks
     THEN UNCHANGED <<pending, queued, fault>>
     ELSE IF Harm # {}
     THEN fault' \in Harm /\ UNCHANGED <<pending, queued>>
     ELSE /\ pending' = TRUE
          /\ queued' = (queued \/ (~pending /\ ~Refused))
          /\ UNCHANGED fault
  /\ UNCHANGED <<irq, raised, used, item, worker, module, list, writing>>

\* irq_handler: schedule_work, queue_work or tasklet_schedule.
Handle == /\ fault = "none" /\ handler = "entered"
          /\ handler' = "idle"
          /\ IF driver = "irq" \/ ~Looks
             THEN UNCHANGED <<pending, queued, fault>>
             ELSE IF Harm # {}
             THEN fault' \in Harm /\ UNCHANGED <<pending, queued>>
             ELSE /\ pending' = TRUE
                  /\ queued' = (queued \/ (~pending /\ ~Refused))
                  /\ UNCHANGED fault
          /\ UNCHANGED <<irq, raised, used, item, worker, module, list, writing>>

\* dummy_write stores the number ...
Write(w) == /\ fault = "none" /\ driver = "list" /\ phase \in {"init", "live"}
            /\ writer[w] = "write" /\ used < MaxTrig
            /\ used' = used + 1
            /\ \E v \in Values : value' = v
            /\ writer' = [writer EXCEPT ![w] = "int"]
            /\ UNCHANGED <<irq, raised, handler, module, work, list, fault>>

\* ... and executes int $0x3B.
ExecInt(w) == /\ fault = "none" /\ writer[w] = "int"
          /\ raised' = irq
          /\ writer' = [writer EXCEPT ![w] = "write"]
          /\ UNCHANGED <<irq, handler, used, value, module, work, list, fault>>

-----------------------------------------------------------------------------
(* The worker: a kworker, the tasklet softirq, the timer interrupt.        *)

\* The item, or the code of its function, is memory that was given back.
Gone == IF driver = "tasklet_dynamic" /\ item = "freed" THEN "freed"
        ELSE IF phase = "unloaded" THEN "unloaded"
        ELSE "none"

RunGone == /\ fault = "none" /\ Gone # "none"
           /\ queued \/ worker # "idle"
           /\ Crash(Gone)

\* The bit is cleared before the function runs.
Run == /\ fault = "none" /\ Gone = "none" /\ queued /\ worker = "idle"
       /\ pending' = FALSE /\ queued' = FALSE
       /\ worker' = "entered"
       /\ UNCHANGED <<item, module, line, list, writing, fault>>

At(l) == fault = "none" /\ Gone = "none" /\ worker = l

\* workqueue_fn and tasklet_fn of the drivers without a list, and the end of
\* the timer's callback.
Return == /\ \/ At("entered") /\ driver \notin Timers \cup {"list"}
             \/ At("armed")
          /\ worker' = "idle"
          /\ UNCHANGED <<item, pending, queued, module, line, list, writing, fault>>

\* workqueue_fn of "list" makes a node; the result of kmalloc is not tested.
NewNode == /\ At("entered") /\ driver = "list"
           /\ data' = value
           /\ worker' = "add"
           /\ UNCHANGED <<prev, nodes, freed, more, item, pending, queued>>
           /\ UNCHANGED <<module, line, writing, fault>>

NoMemory == At("entered") /\ driver = "list" /\ Crash("nomem")

\* list_add_tail finds the last node ...
FindTail == /\ At("add")
            /\ prev' = IF freed = Len(nodes) THEN 0 ELSE Len(nodes)
            /\ worker' = "link"
            /\ UNCHANGED <<data, nodes, freed, more, item, pending, queued>>
            /\ UNCHANGED <<module, line, writing, fault>>

\* ... and links the new one behind it.  If exit has taken that one off in
\* the meantime, memory that was given back is written and the list no longer
\* hangs together.
Link == /\ At("link")
        /\ IF prev # 0 /\ prev <= freed
           THEN Crash("list")
           ELSE /\ nodes' = Append(nodes, data)
                /\ worker' = "idle"
                /\ UNCHANGED <<data, prev, freed, more, item, pending, queued>>
                /\ UNCHANGED <<module, line, writing, fault>>

\* Mutant: the callback does not arm the timer again.
CallbackOnce == /\ At("entered") /\ driver \in Timers
                /\ worker' = IF driver = "timer" THEN "armed" ELSE "idle"
                /\ UNCHANGED <<item, pending, queued, module, line, list, writing, fault>>

\* timer_callback: mod_timer, and some time later the return; with
\* HRTIMER_RESTART the kernel arms the timer when the callback has returned.
Callback == /\ At("entered") /\ driver \in Timers
            /\ pending' = TRUE /\ queued' = TRUE
            /\ worker' = IF driver = "timer" THEN "armed" ELSE "idle"
            /\ UNCHANGED <<item, module, line, list, writing, fault>>

Worker == \/ RunGone \/ Run \/ Return \/ NewNode \/ NoMemory \/ FindTail \/ Link
          \/ Callback

-----------------------------------------------------------------------------
(* dummy_driver_init and dummy_driver_exit                                 *)

\* The next statement is s; when it is done the rest is left.
Stmt(s) == fault = "none" /\ todo # <<>> /\ Head(todo) = s
Done == todo' = Tail(todo) /\ UNCHANGED <<driver, phase, atExit>>

RequestIrq == /\ Stmt("request_irq") /\ Done
              /\ irq' = TRUE
              /\ UNCHANGED <<raised, handler, used, work, list, writing, fault>>

\* INIT_WORK, tasklet_init: the bit is cleared as well.
InitItem == /\ Stmt("init_work") \/ Stmt("tasklet_init")
            /\ Done
            /\ item' = "ready" /\ pending' = FALSE
            /\ UNCHANGED <<queued, worker, line, list, writing, fault>>

\* create_workqueue; that it may return NULL is not tested.
CreateQueue == /\ Stmt("create_queue") /\ Done
               /\ item' \in {"ready", "absent"}
               /\ UNCHANGED <<pending, queued, worker, line, list, writing, fault>>

Kmalloc == /\ Stmt("kmalloc") /\ Done
           /\ item' = "garbage"
           /\ UNCHANGED <<pending, queued, worker, line, list, writing, fault>>

\* goto irq
KmallocFails == /\ Stmt("kmalloc")
                /\ phase' = "exit" /\ todo' = FreeIrq
                /\ UNCHANGED <<driver, atExit, line, work, list, writing, fault>>

\* mod_timer, hrtimer_start
Arm == /\ Stmt("arm") /\ Done
       /\ pending' = TRUE /\ queued' = TRUE
       /\ UNCHANGED <<item, worker, line, list, writing, fault>>

\* The end of init, and of exit.
Through ==
  /\ fault = "none" /\ todo = <<>>
  /\ \/ phase = "init" /\ phase' = "live"
     \/ phase = "exit" /\ phase' = "unloaded"
  /\ UNCHANGED <<driver, todo, atExit, line, work, list, writing, fault>>

\* rmmod waits until the device file is closed.
Rmmod == /\ fault = "none" /\ phase = "live"
         /\ \A w \in Writers : writer[w] = "write"
         /\ phase' = "exit" /\ todo' = ExitOf[driver]
         /\ atExit' = Len(nodes)
         /\ UNCHANGED <<driver, line, work, list, writing, fault>>

\* free_irq unregisters the handler and waits for one that is running.
FreeIrqLine == /\ Stmt("free_irq") /\ Done
               /\ irq' = FALSE /\ raised' = FALSE
               /\ UNCHANGED <<handler, used, work, list, writing, fault>>

Synchronize == /\ Stmt("synchronize") /\ handler = "idle" /\ Done
               /\ UNCHANGED <<line, work, list, writing, fault>>

\* tasklet_kill waits until the tasklet is not scheduled and keeps it from
\* being scheduled while it waits for one that is running.
KillTasklet == /\ Stmt("kill") /\ ~pending /\ Done
               /\ pending' = TRUE
               /\ UNCHANGED <<item, queued, worker, line, list, writing, fault>>

Killed == /\ Stmt("killed") /\ worker = "idle" /\ Done
          /\ pending' = FALSE
          /\ UNCHANGED <<item, queued, worker, line, list, writing, fault>>

Kfree == /\ Stmt("kfree") /\ Done
         /\ item' = "freed"
         /\ UNCHANGED <<pending, queued, worker, line, list, writing, fault>>

\* destroy_workqueue refuses new work and waits for what is queued ...
Drain == /\ Stmt("drain")
         /\ IF item = "absent" THEN Crash("null")
            ELSE /\ Done
                 /\ item' = "draining"
                 /\ UNCHANGED <<pending, queued, worker, line, list, writing, fault>>

Drained == /\ Stmt("drained") /\ ~queued /\ worker = "idle" /\ Done
           /\ item' = "ready"
           /\ UNCHANGED <<pending, queued, worker, line, list, writing, fault>>

\* ... and frees the queue, unless there is new work on it again.
DestroyQueue == /\ Stmt("destroy") /\ Done
                /\ item' = IF queued \/ worker # "idle" THEN "ready" ELSE "freed"
                /\ UNCHANGED <<pending, queued, worker, line, list, writing, fault>>

\* del_timer takes the timer off the queue and does not wait.
DelTimer == /\ Stmt("del_timer") /\ Done
            /\ pending' = FALSE /\ queued' = FALSE
            /\ UNCHANGED <<item, worker, line, list, writing, fault>>

\* Mutant: cancelling does not wait for a callback that is running.
CancelAtOnce == /\ Stmt("cancel") /\ Done
                /\ pending' = FALSE /\ queued' = FALSE
                /\ UNCHANGED <<item, worker, line, list, writing, fault>>

\* Mutant: exit waits for the timer to run out.
CancelByWaiting == /\ Stmt("cancel") /\ worker = "idle" /\ ~queued /\ Done
                   /\ UNCHANGED <<line, work, list, writing, fault>>

\* hrtimer_cancel tries again until the callback is not running.
Cancel == /\ Stmt("cancel") /\ worker = "idle" /\ Done
          /\ pending' = FALSE /\ queued' = FALSE
          /\ UNCHANGED <<item, worker, line, list, writing, fault>>

\* Mutant: the loop tests the head of the list after its body.
StartLoopAnyway == /\ Stmt("free_nodes")
                   /\ todo' = <<"free_node">> \o Tail(todo)
                   /\ more' = (Len(nodes) > freed + 1)
                   /\ UNCHANGED <<driver, phase, atExit, data, prev, nodes, freed>>
                   /\ UNCHANGED <<line, work, writing, fault>>

\* list_for_each_entry_safe: the cursor is the first node that is left, and
\* whether another follows is read before the cursor's node is freed.
StartLoop == /\ Stmt("free_nodes")
             /\ todo' = IF Len(nodes) = freed THEN Tail(todo)
                        ELSE <<"free_node">> \o Tail(todo)
             /\ more' = (Len(nodes) > freed + 1)
             /\ UNCHANGED <<driver, phase, atExit, data, prev, nodes, freed>>
             /\ UNCHANGED <<line, work, writing, fault>>

\* Mutant: the next node is looked up once, before the loop.
FreeNodeTwice == /\ Stmt("free_node")
                 /\ freed' = freed + 1
                 /\ todo' = IF more THEN todo ELSE Tail(todo)
                 /\ more' = FALSE
                 /\ UNCHANGED <<driver, phase, atExit, data, prev, nodes>>
                 /\ UNCHANGED <<line, work, writing, fault>>

\* list_del, kfree, and on to the next node.
FreeNode == /\ Stmt("free_node")
            /\ freed' = freed + 1
            /\ todo' = IF more THEN todo ELSE Tail(todo)
            /\ more' = (Len(nodes) > freed + 2)
            /\ UNCHANGED <<driver, phase, atExit, data, prev, nodes>>
            /\ UNCHANGED <<line, work, writing, fault>>

Loading == \/ RequestIrq \/ InitItem \/ CreateQueue \/ Kmalloc \/ KmallocFails \/ Arm
           \/ Through

Unloading == \/ FreeIrqLine \/ Synchronize \/ KillTasklet \/ Killed \/ Kfree
             \/ Drain \/ Drained \/ DestroyQueue \/ DelTimer \/ Cancel
             \/ StartLoop \/ FreeNode

-----------------------------------------------------------------------------
Next == \/ Raise \/ Interrupt \/ Handle \/ Worker
        \/ Loading \/ Rmmod \/ Unloading
        \/ \E w \in Writers : Write(w) \/ ExecInt(w)

Spec == Init /\ [][Next]_vars

\* Handler, worker and the task that loads or unloads the module are
\* scheduled.  A periodic callback is short and its period long, so whoever
\* tries again and again to cancel the timer finds it between two callbacks.
FairSpec == /\ Spec
            /\ WF_vars(Interrupt) /\ WF_vars(Handle) /\ WF_vars(Worker)
            /\ WF_vars(Loading) /\ WF_vars(Unloading) /\ SF_vars(Cancel)
            /\ \A w \in Writers : WF_vars(ExecInt(w))

-----------------------------------------------------------------------------
Faults == {"none", "null", "garbage", "freed", "unloaded", "list", "nomem"}

\* Every variable stays in its range; exit never frees a node that is not
\* there.
TypeOK == /\ driver \in Explored
          /\ phase \in {"init", "live", "exit", "unloaded"}
          /\ todo \in Seq({"arm", "request_irq", "init_work", "create_queue", "kmalloc",
                           "tasklet_init", "free_irq", "synchronize", "kill", "killed",
                           "kfree", "drain", "drained", "destroy", "del_timer", "cancel",
                           "free_nodes", "free_node"})
          /\ {irq, raised, pending, queued, more} \subseteq BOOLEAN
          /\ handler \in {"idle", "entered"}
          /\ used \in 0..MaxTrig
          /\ item \in {"absent", "garbage", "ready", "draining", "freed"}
          /\ worker \in {"idle", "entered", "add", "link", "armed"}
          /\ value \in Values \cup {0}
          /\ writer \in [Writers -> {"write", "int"}]
          /\ data \in Values \cup {0}
          /\ nodes \in Seq(Values \cup {0})
          /\ freed \in 0..Len(nodes)
          /\ prev \in 0..Len(nodes)
          /\ atExit \in 0..Len(nodes)
          /\ fault \in Faults

\* How each driver can fail, and that nothing else goes wrong with it: the
\* hrtimer and the plain handler are safe, work and tasklets that exit leaves
\* behind or does not keep from being scheduled again run in memory that was
\* given back, queues and tasklets are used before they are made or after
\* they are freed.  Between init and exit nothing goes wrong but what an
\* allocation that failed unnoticed brings about.
FaultsKnown ==
  /\ phase = "live" /\ fault # "none" => item = "absent" \/ fault = "nomem"
  /\ fault # "none" =>
    fault \in CASE driver \in {"irq", "hrtimer"} -> {}
                [] driver \in {"work_dynamic", "work_static", "tasklet_static", "timer"}
                                                 -> {"unloaded"}
                [] driver = "own_queue"          -> {"null", "freed", "unloaded"}
                [] driver = "tasklet_dynamic"    -> {"null", "garbage", "freed"}
                [] driver = "list"               -> {"null", "freed", "unloaded", "list", "nomem"}

\* However the writes, their interrupts and the work overlap: when all is
\* quiet the last node holds what was written last.
LastWriteListed ==
  LET quiet == /\ ~raised /\ handler = "idle" /\ ~queued /\ worker = "idle"
               /\ \A w \in Writers : writer[w] = "write"
  IN  phase = "live" /\ fault = "none" /\ quiet /\ nodes # <<>> =>
        nodes[Len(nodes)] = value

\* Exit frees every node that was in the list when it began; one added in the
\* meantime may be left.
ExitFreesList == phase = "unloaded" => freed >= atExit

\* rmmod comes to an end, or to a fault.
ExitEnds == phase = "exit" ~> phase = "unloaded" \/ fault # "none"

\* The timers are periodic: until the module is unloaded there is always
\* another callback.
KeepsTicking == driver \in Timers /\ phase = "live" ~> worker # "idle" \/ phase # "live"

-----------------------------------------------------------------------------
(* What a comment says of the timer; the code does otherwise.               *)

\* "remove kernel timer when unloading module"
TimerRemoved == driver = "timer" /\ phase = "unloaded" => ~queued /\ worker = "idle"
=============================================================================
