---------------------------- MODULE SignalDriver ----------------------------
(***************************************************************************)
(* The signal driver and its program.  A process registers itself with an  *)
(* ioctl that stores get_current() in task; the interrupt handler sends    *)
(* the signal to task, if it is not NULL.  dummy_release clears task when  *)
(* the process that gives up the last descriptor is task itself.  Neither  *)
(* takes a lock or a reference to the process.                             *)
(*                                                                         *)
(* A process may fork, and its child then holds the same open file.  The   *)
(* kernel frees a process once its parent has waited for it, but not while *)
(* an interrupt handler runs (freeing waits for an RCU grace period).      *)
(* Signal 44 is queued, so that the handler of a process may find another  *)
(* one waiting when it has taken one; how many is left open.               *)
(***************************************************************************)
EXTENDS FiniteSets

CONSTANTS Apps,   \* processes that run the program, once each
          Heirs,  \* their children
          Nobody  \* NULL

ASSUME AppsAssumption == Nobody \notin Apps \cup Heirs /\ Apps \cap Heirs = {}

VARIABLES sigLoaded,  \* the module is loaded
          sigTask,    \* task
          irq,        \* the handler: "idle", "test" (line 59), "send" (line 61)
          appAt,      \* where each process is in main()
          holders,    \* who has a descriptor of the file that each one opened
          done,       \* processes whose flag done is set
          check,      \* processes whose flag check is set
          pending,    \* processes with the signal on its way
          displaced,  \* history: somebody else registered after them
          inherited,  \* history: processes that have had a child
          sigFault    \* what the handler ran into: "none", "null", "stale"

program  == <<appAt, holders, done, check>>
history  == <<displaced, inherited>>
sigVars  == <<sigLoaded, sigTask, irq, program, pending, history, sigFault>>

SignalInit == /\ sigLoaded = FALSE
              /\ sigTask = Nobody /\ irq = "idle" /\ sigFault = "none"
              /\ appAt = [a \in Apps |-> "start"]
              /\ holders = [a \in Apps |-> {}]
              /\ done = {} /\ check = {} /\ pending = {}
              /\ displaced = {} /\ inherited = {}

Alive(a)   == appAt[a] \in {"opened", "loop", "spin", "reset", "close"}
Waiting(a) == appAt[a] \in {"loop", "spin", "reset"}

Move(a, from, to) == appAt[a] = from /\ appAt' = [appAt EXCEPT ![a] = to]

-----------------------------------------------------------------------------
(* The driver.                                                             *)

SignalLoad == /\ ~sigLoaded
              /\ sigLoaded' = TRUE
              /\ UNCHANGED <<sigTask, irq, program, pending, history, sigFault>>

\* Mutant: whoever closes last clears task.
ReleaseAlways(current) == sigTask' = Nobody

\* dummy_release
Release(current) == sigTask' = IF sigTask = current THEN Nobody ELSE sigTask

\* p gives up its descriptor of a's file.
Drop(p, a) == /\ holders' = [holders EXCEPT ![a] = @ \ {p}]
              /\ IF holders[a] = {p} THEN Release(p) ELSE UNCHANGED sigTask

\* A read of the device file triggers it, or the hardware.
Interrupt == /\ sigLoaded /\ irq = "idle"
             /\ irq' = "test"
             /\ UNCHANGED <<sigLoaded, sigTask, program, pending, history, sigFault>>

TestTask == /\ irq = "test"
            /\ irq' = IF sigTask = Nobody THEN "idle" ELSE "send"
            /\ UNCHANGED <<sigLoaded, sigTask, program, pending, history, sigFault>>

\* task is read again.
SendSignal ==
  /\ irq = "send"
  /\ irq' = "idle"
  /\ \/ /\ sigTask = Nobody
        /\ sigFault' = "null" /\ UNCHANGED pending
     \/ /\ sigTask # Nobody /\ appAt[sigTask] = "gone"
        /\ sigFault' = "stale" /\ UNCHANGED pending
     \/ /\ sigTask # Nobody /\ appAt[sigTask] # "gone"
        /\ pending' = pending \cup {a \in {sigTask} : Alive(a)}
        /\ UNCHANGED sigFault
  /\ UNCHANGED <<sigLoaded, sigTask, program, history>>

-----------------------------------------------------------------------------
(* The program.                                                            *)

OpenDevice(a) == /\ sigLoaded
                 /\ Move(a, "start", "opened")
                 /\ holders' = [holders EXCEPT ![a] = {a}]
                 /\ UNCHANGED <<sigLoaded, sigTask, irq, done, check, pending, history, sigFault>>

\* The ioctl REG_CURRENT_TASK.
RegisterTask(a) ==
  /\ Move(a, "opened", "loop")
  /\ sigTask' = a
  /\ displaced' = displaced \cup ({sigTask} \ {Nobody})
  /\ UNCHANGED <<sigLoaded, irq, holders, done, check, pending, inherited, sigFault>>

\* while (!done) around while (!done && !check); and check = 0.
WaitLoop(a) ==
  /\ \/ Move(a, "loop", IF a \in done THEN "close" ELSE "spin") /\ UNCHANGED check
     \/ a \in done \cup check /\ Move(a, "spin", "reset") /\ UNCHANGED check
     \/ Move(a, "reset", "loop") /\ check' = check \ {a}
  /\ UNCHANGED <<sigLoaded, sigTask, irq, holders, done, pending, history, sigFault>>

\* close(fd) and the end of main.
CloseDevice(a) ==
  /\ Move(a, "close", "zombie")
  /\ Drop(a, a)
  /\ pending' = pending \ {a}
  /\ UNCHANGED <<sigLoaded, irq, done, check, history, sigFault>>

SigEventHandler(a) == /\ a \in pending
                      /\ pending' \in {pending, pending \ {a}}
                      /\ check' = check \cup {a}
                      /\ UNCHANGED <<sigLoaded, sigTask, irq, appAt, holders, done, history, sigFault>>

CtrlC(a) == /\ Alive(a) /\ a \notin done
            /\ done' = done \cup {a}
            /\ UNCHANGED <<sigLoaded, sigTask, irq, appAt, holders, check, pending, history, sigFault>>

\* SA_RESETHAND: the second ctrl-c kills the process.
CtrlCAgain(a) == /\ Alive(a) /\ a \in done
                 /\ appAt' = [appAt EXCEPT ![a] = "zombie"]
                 /\ Drop(a, a)
                 /\ pending' = pending \ {a}
                 /\ UNCHANGED <<sigLoaded, irq, done, check, history, sigFault>>

-----------------------------------------------------------------------------
(* What other processes do.                                                *)

Fork(a, h) == /\ Alive(a) /\ \A b \in Apps : h \notin holders[b]
              /\ holders' = [holders EXCEPT ![a] = @ \cup {h}]
              /\ inherited' = inherited \cup {a}
              /\ UNCHANGED <<sigLoaded, sigTask, irq, appAt, done, check, pending, displaced, sigFault>>

HeirExits(a, h) == /\ h \in holders[a]
                   /\ Drop(h, a)
                   /\ UNCHANGED <<sigLoaded, irq, appAt, done, check, pending, history, sigFault>>

\* The parent has waited for a, and nothing of it is left.
Reap(a) == /\ irq = "idle"
           /\ Move(a, "zombie", "gone")
           /\ UNCHANGED <<sigLoaded, sigTask, irq, holders, done, check, pending, history, sigFault>>

-----------------------------------------------------------------------------
\* Nothing happens after the handler has brought the kernel down.
SignalNext == /\ sigFault = "none"
              /\ \/ SignalLoad \/ Interrupt \/ TestTask \/ SendSignal
                 \/ \E a \in Apps : \/ OpenDevice(a) \/ RegisterTask(a) \/ WaitLoop(a)
                                    \/ CloseDevice(a) \/ SigEventHandler(a)
                                    \/ CtrlC(a) \/ CtrlCAgain(a) \/ Reap(a)
                                    \/ \E h \in Heirs : Fork(a, h) \/ HeirExits(a, h)

SignalSpec == SignalInit /\ [][SignalNext]_sigVars

-----------------------------------------------------------------------------
\* Every variable stays in its range; only a process that lives has a signal
\* on its way.
SignalTypeOK ==
  /\ sigLoaded \in BOOLEAN
  /\ sigTask \in Apps \cup {Nobody}
  /\ irq \in {"idle", "test", "send"}
  /\ appAt \in [Apps -> {"start", "opened", "loop", "spin", "reset", "close", "zombie", "gone"}]
  /\ holders \in [Apps -> SUBSET (Apps \cup Heirs)]
  /\ {done, check, displaced, inherited} \subseteq SUBSET Apps
  /\ pending \subseteq {a \in Apps : Alive(a)}
  /\ sigFault \in {"none", "null", "stale"}

\* Whoever waits for the signal is the one the handler sends it to, unless
\* another process registered after it.  And task names a process that still
\* has its file open, so that the handler never touches one that is gone,
\* unless that process has had a child.
SignalTargets ==
  /\ \A a \in Apps : Waiting(a) => sigTask = a \/ a \in displaced
  /\ sigTask \notin inherited \cup {Nobody} => sigTask \in holders[sigTask]
  /\ sigFault = "stale" => sigTask \in inherited
=============================================================================
