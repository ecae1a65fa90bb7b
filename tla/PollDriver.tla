----------------------------- MODULE PollDriver -----------------------------
(***************************************************************************)
(* The poll driver and its three programs.  Writing the sysfs file stores  *)
(* a value and sets can_read, reading it sets can_write; both wake the     *)
(* queue.  dummy_poll puts its caller on the queue and hands each flag to  *)
(* the first caller that finds it set, clearing it.  Processes run the     *)
(* poll, the select or the epoll program: read when told to, write when    *)
(* told to, ask again.                                                     *)
(*                                                                         *)
(* poll and select register for the length of a call and ask once more     *)
(* after a timeout.  epoll registers once, in EPOLL_CTL_ADD; epoll_wait    *)
(* calls dummy_poll only for a file that is on its ready list, where a     *)
(* wake-up or a mask puts it.                                              *)
(*                                                                         *)
(* init_waitqueue_head runs when both files can already be used.  The       *)
(* entries that it finds on the list keep their links: the head leads to   *)
(* them again when the first of them is removed, and away from all others. *)
(***************************************************************************)
EXTENDS Naturals, FiniteSets

CONSTANTS Pollers,    \* processes that run one of the programs
          Epollers,   \* those that run the epoll program
          MaxSysfs    \* bound on reads and writes of the sysfs file

ASSUME EpollersAssumption == Epollers \subseteq Pollers
ASSUME MaxSysfsAssumption  == MaxSysfs \in Nat

VARIABLES pollPhase,   \* "absent", "init" (both files exist), "live"
          at,          \* where it is, in the program, the kernel or dummy_poll
          pass,        \* which call of dummy_poll: "add", "first", "again", "last"
          mask,        \* what dummy_poll has returned and is not yet used
          waitQueue,   \* entries that wake_up finds from wait_queue_dummy_data
          strays,      \* entries linked to each other that it does not find
          woken,       \* poll: woken since the last pass; epoll: on the ready list
          missed,      \* history: registered, but the last wake_up did not find it
          former,      \* history: entries older than init_waitqueue_head
          mixed,       \* history: one of these has been removed
          canRead,     \* can_read
          canWrite,    \* can_write
          unread,      \* history: dummy_value was stored and not read since
          lost,        \* history: how the news of that value got lost
          store,       \* where sysfs_store is
          show,        \* where sysfs_show is
          sysfsCalls

asking  == <<at, pass, mask>>
entries == <<waitQueue, strays, former, mixed>>
waiting == <<entries, woken, missed>>
flags   == <<canRead, canWrite>>
news    == <<unread, lost>>
sysfs   == <<store, show, sysfsCalls>>
pollVars == <<pollPhase, asking, waiting, flags, news, sysfs>>

PollInit == /\ pollPhase = "absent"
            /\ at = [p \in Pollers |-> "closed"]
            /\ pass = [p \in Pollers |-> "none"]
            /\ mask = [p \in Pollers |-> {}]
            /\ waitQueue = {} /\ strays = {} /\ woken = {}
            /\ missed = {} /\ former = {} /\ mixed = FALSE
            /\ canRead = FALSE /\ canWrite = FALSE
            /\ unread = FALSE /\ lost = "none"
            /\ store = "idle" /\ show = "idle" /\ sysfsCalls = 0

At(p, from, to) == at[p] = from /\ at' = [at EXCEPT ![p] = to]

Registered == waitQueue \cup strays

-----------------------------------------------------------------------------
(* dummy_driver_init.                                                      *)

\* Everything up to sysfs_create_file.
PollLoad == /\ pollPhase = "absent"
            /\ pollPhase' = "init"
            /\ UNCHANGED <<asking, waiting, flags, news, sysfs>>

InitHead == /\ pollPhase = "init"
            /\ pollPhase' = "live"
            /\ waitQueue' = {} /\ strays' = Registered
            /\ former' = Registered
            /\ UNCHANGED <<woken, missed, mixed, asking, flags, news, sysfs>>

-----------------------------------------------------------------------------
(* The wait queue.                                                         *)

\* Mutant: wake_up stops at the first entry.
WakeFirst == \E p \in waitQueue : woken' = woken \cup {p} /\ missed' = Registered \ {p}

WakeUp == woken' = woken \cup waitQueue /\ missed' = Registered \ waitQueue

\* add_wait_queue.
Register(p) == waitQueue' = waitQueue \cup {p}

\* list_del writes to both neighbours.  To the left of the first stray is the
\* head, which then leads to the other strays instead of to waitQueue.
Unlink(p) ==
  \/ p \notin strays /\ waitQueue' = waitQueue \ {p} /\ UNCHANGED strays
  \/ p \in strays /\ strays # {p} /\ strays' = strays \ {p} /\ UNCHANGED waitQueue
  \/ p \in strays /\ waitQueue' = strays \ {p} /\ strays' = waitQueue

Deregister(p) == /\ Unlink(p)
                 /\ woken' = woken \ {p} /\ missed' = missed \ {p}
                 /\ former' = former \ {p} /\ mixed' = (mixed \/ p \in former)

-----------------------------------------------------------------------------
(* The sysfs file.                                                         *)

\* Mutant: the flag is set before the value is stored.
FlagBeforeValue ==
  /\ pollPhase # "absent"
  /\ \/ /\ store = "idle" /\ sysfsCalls < MaxSysfs
        /\ sysfsCalls' = sysfsCalls + 1
        /\ store' = "flag"
        /\ canRead' = TRUE
        /\ UNCHANGED <<news, woken, missed>>
     \/ /\ store = "flag"
        /\ store' = "wake"
        /\ unread' = TRUE /\ lost' = "none"
        /\ UNCHANGED <<canRead, woken, missed, sysfsCalls>>
     \/ /\ store = "wake"
        /\ store' = "idle"
        /\ WakeUp
        /\ UNCHANGED <<canRead, news, sysfsCalls>>
  /\ UNCHANGED <<pollPhase, asking, entries, canWrite, show>>

\* strcpy, can_read = true, wake_up.
SysfsStore ==
  /\ pollPhase # "absent"
  /\ \/ /\ store = "idle" /\ sysfsCalls < MaxSysfs
        /\ sysfsCalls' = sysfsCalls + 1
        /\ store' = "flag"
        /\ unread' = TRUE /\ lost' = "none"
        /\ UNCHANGED <<canRead, woken, missed>>
     \/ /\ store = "flag"
        /\ store' = "wake"
        /\ canRead' = TRUE
        /\ UNCHANGED <<news, woken, missed, sysfsCalls>>
     \/ /\ store = "wake"
        /\ store' = "idle"
        /\ WakeUp
        /\ UNCHANGED <<canRead, news, sysfsCalls>>
  /\ UNCHANGED <<pollPhase, asking, entries, canWrite, show>>

SysfsShow ==
  /\ pollPhase # "absent"
  /\ \/ /\ show = "idle" /\ sysfsCalls < MaxSysfs
        /\ sysfsCalls' = sysfsCalls + 1
        /\ show' = "wake"
        /\ canWrite' = TRUE
        /\ UNCHANGED <<woken, missed>>
     \/ /\ show = "wake"
        /\ show' = "idle"
        /\ WakeUp
        /\ UNCHANGED <<canWrite, sysfsCalls>>
  /\ UNCHANGED <<pollPhase, asking, entries, canRead, news, store>>

-----------------------------------------------------------------------------
(* dummy_poll.                                                             *)

\* Mutant: poll_wait is missing.
PollWaitNever(p) ==
  /\ At(p, "poll_wait", "test_read")
  /\ UNCHANGED <<pollPhase, pass, mask, waiting, flags, news, sysfs>>

\* In the further passes of a call poll_wait does nothing.
PollWait(p) ==
  /\ At(p, "poll_wait", "test_read")
  /\ Register(p)
  /\ UNCHANGED <<pollPhase, pass, mask, strays, former, mixed, woken, missed, flags, news, sysfs>>

TestRead(p) ==
  /\ At(p, "test_read", IF canRead THEN "clear_read" ELSE "test_write")
  /\ UNCHANGED <<pollPhase, pass, mask, waiting, flags, news, sysfs>>

ClearRead(p) ==
  /\ At(p, "clear_read", "test_write")
  /\ canRead' = FALSE
  /\ mask' = [mask EXCEPT ![p] = @ \cup {"in"}]
  /\ UNCHANGED <<pollPhase, pass, waiting, canWrite, news, sysfs>>

TestWrite(p) ==
  /\ At(p, "test_write", IF canWrite THEN "clear_write" ELSE "return")
  /\ UNCHANGED <<pollPhase, pass, mask, waiting, flags, news, sysfs>>

ClearWrite(p) ==
  /\ At(p, "clear_write", "return")
  /\ canWrite' = FALSE
  /\ mask' = [mask EXCEPT ![p] = @ \cup {"out"}]
  /\ UNCHANGED <<pollPhase, pass, waiting, canRead, news, sysfs>>

DummyPoll(p) == PollWait(p) \/ TestRead(p) \/ ClearRead(p) \/ TestWrite(p) \/ ClearWrite(p)

-----------------------------------------------------------------------------
(* What the kernel makes of the mask.                                      *)

Lose(p, how) == lost' = IF unread /\ "in" \in mask[p] THEN how ELSE lost

\* poll and select give the mask to the program, or sleep and look again.
PollReturn(p) ==
  /\ p \notin Epollers
  /\ IF mask[p] # {} \/ pass[p] = "last"
     THEN At(p, "return", "user") /\ pass' = [pass EXCEPT ![p] = "none"] /\ Deregister(p)
     ELSE At(p, "return", "asleep") /\ UNCHANGED <<pass, waiting>>
  /\ UNCHANGED <<pollPhase, mask, flags, news, sysfs>>

\* EPOLL_CTL_ADD only notes that the file is ready and forgets the mask.
AddReturn(p) ==
  /\ p \in Epollers /\ pass[p] = "add"
  /\ At(p, "return", "user")
  /\ woken' = IF mask[p] # {} THEN woken \cup {p} ELSE woken
  /\ mask' = [mask EXCEPT ![p] = {}]
  /\ pass' = [pass EXCEPT ![p] = "again"]
  /\ Lose(p, "add")
  /\ UNCHANGED <<pollPhase, entries, missed, flags, unread, sysfs>>

\* epoll_wait reports a mask and keeps the file on the ready list.
EpollReturn(p) ==
  /\ p \in Epollers /\ pass[p] = "again"
  /\ At(p, "return", IF mask[p] = {} THEN "asleep" ELSE "user")
  /\ woken' = IF mask[p] # {} THEN woken \cup {p} ELSE woken
  /\ UNCHANGED <<pollPhase, pass, mask, entries, missed, flags, news, sysfs>>

Awake(p) ==
  /\ p \in woken
  /\ At(p, "asleep", "test_read")
  /\ pass' = [pass EXCEPT ![p] = "again"]
  /\ woken' = woken \ {p}
  /\ UNCHANGED <<pollPhase, mask, entries, missed, flags, news, sysfs>>

\* The five seconds are over: poll and select ask once more, epoll does not.
Timeout(p) ==
  /\ p \notin woken
  /\ IF p \in Epollers
     THEN At(p, "asleep", "user") /\ UNCHANGED pass
     ELSE At(p, "asleep", "test_read") /\ pass' = [pass EXCEPT ![p] = "last"]
  /\ UNCHANGED <<pollPhase, mask, waiting, flags, news, sysfs>>

-----------------------------------------------------------------------------
(* The programs.                                                           *)

Open(p) ==
  /\ pollPhase # "absent"
  /\ At(p, "closed", "user")
  /\ UNCHANGED <<pollPhase, pass, mask, waiting, flags, news, sysfs>>

Ask(p, how) ==
  /\ mask[p] = {}
  /\ At(p, "user", "poll_wait")
  /\ pass' = [pass EXCEPT ![p] = how]
  /\ UNCHANGED <<pollPhase, mask, waiting, flags, news, sysfs>>

\* poll and select.
Call(p)     == p \notin Epollers /\ Ask(p, "first")
EpollAdd(p) == p \in Epollers /\ pass[p] = "none" /\ Ask(p, "add")

EpollWait(p) ==
  /\ p \in Epollers /\ pass[p] # "none" /\ mask[p] = {}
  /\ At(p, "user", "asleep")
  /\ UNCHANGED <<pollPhase, pass, mask, waiting, flags, news, sysfs>>

\* On POLLIN: dummy_read hands out dummy_value.
Read(p) ==
  /\ at[p] = "user" /\ "in" \in mask[p]
  /\ mask' = [mask EXCEPT ![p] = @ \ {"in"}]
  /\ unread' = FALSE /\ lost' = "none"
  /\ UNCHANGED <<pollPhase, at, pass, waiting, flags, sysfs>>

\* Then, on POLLOUT: dummy_write replaces dummy_value.
Write(p) ==
  /\ at[p] = "user" /\ mask[p] = {"out"}
  /\ mask' = [mask EXCEPT ![p] = {}]
  /\ lost' = IF unread THEN "write" ELSE lost
  /\ UNCHANGED <<pollPhase, at, pass, waiting, flags, unread, sysfs>>

\* The programs never end; the process is killed and its files are closed.
KillPoller(p) ==
  /\ at[p] \in {"user", "asleep"}
  /\ at' = [at EXCEPT ![p] = "killed"]
  /\ mask' = [mask EXCEPT ![p] = {}]
  /\ pass' = [pass EXCEPT ![p] = "none"]
  /\ Deregister(p)
  /\ Lose(p, "kill")
  /\ UNCHANGED <<pollPhase, flags, unread, sysfs>>

-----------------------------------------------------------------------------
PollStep(p) == \/ DummyPoll(p) \/ PollReturn(p) \/ AddReturn(p) \/ EpollReturn(p)
               \/ Awake(p) \/ Timeout(p)
               \/ Call(p) \/ EpollAdd(p) \/ EpollWait(p)
               \/ Read(p) \/ Write(p)

PollNext == \/ PollLoad \/ InitHead \/ SysfsStore \/ SysfsShow
            \/ \E p \in Pollers : Open(p) \/ PollStep(p) \/ KillPoller(p)

PollSpec == PollInit /\ [][PollNext]_pollVars

\* A process that runs goes on, and five seconds pass.  Nobody has to load the
\* module, open the file or touch the sysfs file; who began, ends.
PollFairness ==
  /\ WF_pollVars(InitHead)
  /\ WF_pollVars(store # "idle" /\ SysfsStore)
  /\ WF_pollVars(show # "idle" /\ SysfsShow)
  /\ \A p \in Pollers : WF_pollVars(PollStep(p))

-----------------------------------------------------------------------------
\* Every variable stays in its range, and a wake-up reaches nobody who has
\* gone.
PollTypeOK ==
  /\ pollPhase \in {"absent", "init", "live"}
  /\ at \in [Pollers -> {"closed", "killed", "user", "poll_wait", "test_read", "clear_read",
                         "test_write", "clear_write", "return", "asleep"}]
  /\ pass \in [Pollers -> {"none", "add", "first", "again", "last"}]
  /\ mask \in [Pollers -> SUBSET {"in", "out"}]
  /\ Registered \subseteq Pollers /\ waitQueue \cap strays = {}
  /\ woken \subseteq Registered /\ missed \subseteq Registered /\ former \subseteq Registered
  /\ {mixed, canRead, canWrite, unread} \subseteq BOOLEAN
  /\ lost \in {"none", "add", "kill", "write"}
  /\ store \in {"idle", "flag", "wake"}
  /\ show \in {"idle", "wake"}
  /\ sysfsCalls \in 0..MaxSysfs

\* The news of a stored value is on its way: the flag is up or about to be,
\* or a process holds, or is about to take, the permission to read.
Announced == \/ canRead \/ store = "flag"
             \/ \E p \in Pollers : "in" \in mask[p] \/ at[p] = "clear_read"

\* Although can_read is tested and cleared without a lock, a value that was
\* stored stays announced until it is read, unless EPOLL_CTL_ADD threw the
\* mask away, the process that had it was killed, or another process that was
\* told to write replaced the value.
StoreNotForgotten == unread /\ lost = "none" => Announced

\* wake_up passes over nobody but who was on the queue before
\* init_waitqueue_head; but when one of those leaves, also over who has come
\* since.
PassedOver == \A p \in missed : p \in former \/ mixed

\* A process that will find out about a flag: it polls with a timeout, or the
\* last wake_up has not passed over its epoll instance.
Attentive == \E p \in Pollers : /\ at[p] \notin {"closed", "killed"}
                                /\ p \in Epollers => p \notin missed

\* can_read is taken by somebody, by a wake-up or after the timeout.  Only an
\* epoll instance that a wake_up has passed over can sleep for ever, and
\* PassedOver says which these are.
FlagIsTaken == canRead /\ Attentive ~> ~canRead \/ ~Attentive

\* "When you write data using the sysfs entry ..., that means data is available
\* in the kernel.  So, we have to inform the userspace application to read the
\* available data": nobody was killed and nobody wrote, so the value is still
\* announced.
StoreIsAnnounced == unread /\ lost \notin {"kill", "write"} => Announced
=============================================================================
