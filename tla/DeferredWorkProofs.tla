------------------------ MODULE DeferredWorkProofs ------------------------
(***************************************************************************)
(* What DeferredWork promises, for any number of writers, any numbers they *)
(* write and any number of interrupts: how each driver can fail and that   *)
(* it fails in no other way, that the last number written is the last one  *)
(* in the list, and that exit frees the list it finds.                     *)
(*                                                                         *)
(* FaultsKnown is not inductive: that the plain handler never faults rests *)
(* on what is left of init and exit when the item is made and given back.  *)
(* The invariant IInv says for each driver which statements can be left    *)
(* (TodoInv), what that means for the item (ItemInv) and for the worker    *)
(* (RestInv), where the loop of exit stands in the list (NodesInv), and    *)
(* that whoever has not listed the last number yet is on the way to do so  *)
(* (LatestInv).                                                            *)
(***************************************************************************)
EXTENDS DeferredWork, SequenceTheorems, TLAPS

\* The statement that init or exit executes next, "end" behind the last one.
Place(t) == IF t = <<>> THEN "end" ELSE Head(t)

\* What can be left of exit: of free_irq ...
Unhooking == {<<"free_irq", "synchronize">>, <<"synchronize">>, <<>>}

\* ... of destroy_workqueue and free_irq behind it ...
QueueEnding == {<<"drain", "drained", "destroy", "free_irq", "synchronize">>,
                <<"drained", "destroy", "free_irq", "synchronize">>,
                <<"destroy", "free_irq", "synchronize">>}

\* ... when the loop over the list is still to come or under way ...
ListEnding == {<<"free_nodes", "drain", "drained", "destroy", "free_irq", "synchronize">>,
               <<"free_node", "drain", "drained", "destroy", "free_irq", "synchronize">>}

\* ... of tasklet_kill, kfree and free_irq ...
KfreeEnding == {<<"kill", "killed", "kfree", "free_irq", "synchronize">>,
                <<"killed", "kfree", "free_irq", "synchronize">>,
                <<"kfree", "free_irq", "synchronize">>}

\* ... and of tasklet_kill and free_irq.
KillEnding == {<<"kill", "killed", "free_irq", "synchronize">>,
               <<"killed", "free_irq", "synchronize">>}

\* What init of each driver can have left to do.
InitRest ==
  \/ todo = <<>>
  \/ driver \in Timers /\ todo = <<"arm">>
  \/ driver = "work_dynamic" /\ todo \in {<<"request_irq", "init_work">>, <<"init_work">>}
  \/ driver \in OwnQueue /\ todo \in {<<"request_irq", "create_queue">>, <<"create_queue">>}
  \/ driver = "tasklet_dynamic" /\ todo \in {<<"request_irq", "kmalloc", "tasklet_init">>,
                                             <<"kmalloc", "tasklet_init">>, <<"tasklet_init">>}
  \/ driver \in {"irq", "work_static", "tasklet_static"} /\ todo = <<"request_irq">>

\* What exit of each driver can have left to do.
ExitRest ==
  \/ todo = <<>>
  \/ driver \notin Timers /\ todo \in Unhooking
  \/ driver = "timer" /\ todo = <<"del_timer">>
  \/ driver = "hrtimer" /\ todo = <<"cancel">>
  \/ driver \in OwnQueue /\ todo \in QueueEnding
  \/ driver = "list" /\ todo \in ListEnding
  \/ driver = "tasklet_dynamic" /\ todo \in KfreeEnding
  \/ driver = "tasklet_static" /\ todo \in KillEnding

\* The statements that are left belong to the driver and to the phase.
TodoInv == /\ phase \in {"live", "unloaded"} => todo = <<>>
           /\ phase = "init" => InitRest
           /\ phase = "exit" => ExitRest

\* Where init and exit are, the item is as their statements have left it: the
\* tasklet that is allocated is ready from the end of init until kfree, a tasklet
\* that was never ready has not been scheduled.
ItemInv ==
  /\ driver \in Timers \cup {"irq", "work_static", "tasklet_static"} => item = "ready"
  /\ driver = "work_dynamic" => item \in {"absent", "ready"}
  /\ driver \in OwnQueue => /\ item # "garbage"
                            /\ phase \in {"init", "live"} => item \in {"absent", "ready"}
  /\ driver = "tasklet_dynamic" =>
       /\ phase = "init" => item \in {"absent", "garbage", "ready"}
       /\ phase = "init" /\ Place(todo) \in {"request_irq", "kmalloc"} => item = "absent"
       /\ phase = "init" /\ Place(todo) = "end" => item = "ready"
       /\ phase = "live" => item = "ready"
       /\ phase = "exit" /\ Place(todo) \in {"kill", "killed", "kfree"} => item = "ready"
       /\ phase = "exit" /\ Place(todo) \notin {"kill", "killed", "kfree"}
            => item \in {"absent", "freed"}
       /\ phase = "unloaded" => item \in {"absent", "freed"}
       /\ item \in {"absent", "garbage"} => ~queued /\ worker = "idle"

\* The plain handler defers nothing, a cancelled hrtimer rests, only the list
\* has nodes to make, and the timers have no line.
RestInv ==
  /\ driver = "irq" => ~queued /\ worker = "idle"
  /\ driver = "hrtimer" /\ phase \in {"exit", "unloaded"} /\ Place(todo) = "end"
       => ~queued /\ worker = "idle"
  /\ worker \in {"add", "link"} => driver = "list"
  /\ driver \in Timers => ~irq /\ ~raised /\ handler = "idle"

\* Only "list" has nodes and writers; the loop of exit stands at a node that
\* is there, goes on when there is another, and is left behind the nodes that
\* were there when exit began.
NodesInv ==
  /\ driver # "list" => nodes = <<>> /\ \A w \in Writers : writer[w] = "write"
  /\ phase \in {"init", "live"} => freed = 0 /\ atExit = 0
  /\ Place(todo) = "free_node" => /\ freed < Len(nodes)
                                  /\ more => freed + 1 < Len(nodes)
                                  /\ ~more => freed + 1 >= atExit
  /\ phase \in {"exit", "unloaded"} /\ Place(todo) \notin {"free_nodes", "free_node"}
        => freed >= atExit

\* Somebody is still to make a node of dummy_value as it is.
News == \/ raised \/ handler = "entered" \/ queued \/ worker = "entered"
        \/ \E w \in Writers : writer[w] = "int"

\* The number that is, or is about to be, the last of the list.
Latest == IF worker \in {"add", "link"} THEN data ELSE nodes[Len(nodes)]

\* Until exit begins, either somebody is still to list dummy_value, or it is
\* the last number of the list; an interrupt that finds the work marked finds it
\* queued.
LatestInv == driver = "list" /\ phase \in {"init", "live"} /\ fault = "none" =>
  /\ pending <=> queued
  /\ ~irq => nodes = <<>> /\ worker = "idle" /\ ~queued /\ handler = "idle" /\ ~raised
  /\ ~News /\ (nodes # <<>> \/ worker \in {"add", "link"}) => Latest = value

\* The statements of init and exit.
Statements == {"arm", "request_irq", "init_work", "create_queue", "kmalloc",
               "tasklet_init", "free_irq", "synchronize", "kill", "killed",
               "kfree", "drain", "drained", "destroy", "del_timer", "cancel",
               "free_nodes", "free_node"}

\* TypeOK, the Boolean variables apart.
TypeInv ==
  /\ driver \in AllDrivers /\ driver \in Explored
  /\ phase \in {"init", "live", "exit", "unloaded"}
  /\ todo \in Seq(Statements)
  /\ irq \in BOOLEAN /\ raised \in BOOLEAN /\ pending \in BOOLEAN
  /\ queued \in BOOLEAN /\ more \in BOOLEAN
  /\ handler \in {"idle", "entered"}
  /\ used \in 0..MaxTrig
  /\ item \in {"absent", "garbage", "ready", "draining", "freed"}
  /\ worker \in {"idle", "entered", "add", "link", "armed"}
  /\ value \in Values \cup {0}
  /\ writer \in [Writers -> {"write", "int"}]
  /\ data \in Values \cup {0}
  /\ nodes \in Seq(Values \cup {0}) /\ Len(nodes) \in Nat
  /\ freed \in 0..Len(nodes)
  /\ prev \in 0..Len(nodes)
  /\ atExit \in 0..Len(nodes)
  /\ fault \in Faults

\* The inductive invariant.
IInv == TypeInv /\ TodoInv /\ ItemInv /\ RestInv /\ NodesInv /\ LatestInv /\ FaultsKnown
-----------------------------------------------------------------------------
\* Head and Tail of the tuples that init and exit are made of.
LEMMA Tuples ==
  /\ \A a : <<a>> # <<>> /\ Head(<<a>>) = a /\ Tail(<<a>>) = <<>>
  /\ \A a, b : <<a, b>> # <<>> /\ Head(<<a, b>>) = a /\ Tail(<<a, b>>) = <<b>>
  /\ \A a, b, c : <<a, b, c>> # <<>> /\ Head(<<a, b, c>>) = a /\ Tail(<<a, b, c>>) = <<b, c>>
  /\ \A a, b, c, d :
       /\ <<a, b, c, d>> # <<>>
       /\ Head(<<a, b, c, d>>) = a
       /\ Tail(<<a, b, c, d>>) = <<b, c, d>>
  /\ \A a, b, c, d, e :
       /\ <<a, b, c, d, e>> # <<>>
       /\ Head(<<a, b, c, d, e>>) = a
       /\ Tail(<<a, b, c, d, e>>) = <<b, c, d, e>>
  /\ \A a, b, c, d, e, f :
       /\ <<a, b, c, d, e, f>> # <<>>
       /\ Head(<<a, b, c, d, e, f>>) = a
       /\ Tail(<<a, b, c, d, e, f>>) = <<b, c, d, e, f>>
OBVIOUS

\* The statement that comes next is the first of the tuple.
LEMMA Places ==
  /\ Place(<<>>) = "end"
  /\ \A a : Place(<<a>>) = a
  /\ \A a, b : Place(<<a, b>>) = a
  /\ \A a, b, c : Place(<<a, b, c>>) = a
  /\ \A a, b, c, d : Place(<<a, b, c, d>>) = a
  /\ \A a, b, c, d, e : Place(<<a, b, c, d, e>>) = a
BY Tuples DEF Place

\* A statement is executed in the phase and by the drivers it belongs to.
LEMMA Where ==
  ASSUME driver \in AllDrivers, TodoInv, phase \in {"init", "live", "exit", "unloaded"},
         todo # <<>>, NEW s, s = Head(todo)
  PROVE  /\ phase \in {"init", "exit"}
         /\ phase = "init" <=> s \in {"arm", "request_irq", "init_work", "create_queue",
                                      "kmalloc", "tasklet_init"}
         /\ s = "arm" => driver \in Timers
         /\ s \in {"request_irq", "free_irq", "synchronize"} => driver \notin Timers
         /\ s = "init_work" => driver = "work_dynamic"
         /\ s = "create_queue" => driver \in OwnQueue
         /\ s \in {"kmalloc", "tasklet_init", "kfree"} => driver = "tasklet_dynamic"
         /\ s \in {"kill", "killed"} => driver \in Tasklets
         /\ s \in {"drain", "drained", "destroy"} => driver \in OwnQueue
         /\ s = "del_timer" => driver = "timer"
         /\ s = "cancel" => driver = "hrtimer"
         /\ s \in {"free_nodes", "free_node"} => driver = "list"
<1> USE DEF AllDrivers, Timers, OwnQueue, Tasklets
<1>1. CASE phase = "init"
  BY <1>1, Tuples DEF TodoInv, InitRest
<1>2. CASE phase = "exit"
  <2>1. CASE todo \in Unhooking /\ driver \notin Timers
    BY <1>2, <2>1, Tuples DEF Unhooking
  <2>2. CASE driver = "timer" /\ todo = <<"del_timer">>
    BY <1>2, <2>2, Tuples
  <2>3. CASE driver = "hrtimer" /\ todo = <<"cancel">>
    BY <1>2, <2>3, Tuples
  <2>4. CASE driver \in OwnQueue /\ todo \in QueueEnding
    BY <1>2, <2>4, Tuples DEF QueueEnding
  <2>5. CASE driver = "list" /\ todo \in ListEnding
    BY <1>2, <2>5, Tuples DEF ListEnding
  <2>6. CASE driver = "tasklet_dynamic" /\ todo \in KfreeEnding
    BY <1>2, <2>6, Tuples DEF KfreeEnding
  <2>7. CASE driver = "tasklet_static" /\ todo \in KillEnding
    BY <1>2, <2>7, Tuples DEF KillEnding
  <2> QED
    BY <1>2, <2>1, <2>2, <2>3, <2>4, <2>5, <2>6, <2>7 DEF TodoInv, ExitRest
<1> QED
  BY <1>1, <1>2 DEF TodoInv

\* What is left behind a statement of free_irq.
LEMMA UnhookingTails ==
  ASSUME NEW x \in Unhooking
  PROVE  x # <<>> => Tail(x) \in Unhooking /\ Place(Tail(x)) \in {"synchronize", "end"}
<1>1. CASE x = <<"free_irq", "synchronize">>
  <2>1. Head(x) = "free_irq" /\ Tail(x) = <<"synchronize">> /\ x # <<>>
    BY <1>1, Tuples
  <2>2. Place(<<"synchronize">>) = "synchronize"
    BY DEF Place
  <2>3. Place(Tail(x)) = "synchronize"
    BY <2>1, <2>2, Zenon
  <2> QED
    BY <2>1, <2>3 DEF Unhooking, QueueEnding, KfreeEnding, KillEnding
<1>2. CASE x = <<"synchronize">>
  <2>1. Head(x) = "synchronize" /\ Tail(x) = <<>> /\ x # <<>>
    BY <1>2, Tuples
  <2>2. Place(Tail(x)) = "end"
    BY <2>1, Places
  <2> QED
    BY <2>1, <2>2 DEF Unhooking, QueueEnding, KfreeEnding, KillEnding
<1>3. CASE x = <<>>
  BY <1>3
<1> QED
  BY <1>1, <1>2, <1>3 DEF Unhooking

\* What is left behind a statement of destroy_workqueue.
LEMMA QueueTails ==
  ASSUME NEW x \in QueueEnding
  PROVE  /\ Tail(x) \in QueueEnding \cup Unhooking
         /\ Place(Tail(x)) \in {"drained", "destroy", "free_irq"}
<1>1. CASE x = <<"drain", "drained", "destroy", "free_irq", "synchronize">>
  <2>1. Head(x) = "drain" /\ Tail(x) = <<"drained", "destroy", "free_irq", "synchronize">>
        /\ x # <<>>
    BY <1>1, Tuples
  <2>2. Place(<<"drained", "destroy", "free_irq", "synchronize">>) = "drained"
    BY DEF Place
  <2>3. Place(Tail(x)) = "drained"
    BY <2>1, <2>2, Zenon
  <2> QED
    BY <2>1, <2>3 DEF Unhooking, QueueEnding, KfreeEnding, KillEnding
<1>2. CASE x = <<"drained", "destroy", "free_irq", "synchronize">>
  <2>1. Head(x) = "drained" /\ Tail(x) = <<"destroy", "free_irq", "synchronize">> /\ x # <<>>
    BY <1>2, Tuples
  <2>2. Place(<<"destroy", "free_irq", "synchronize">>) = "destroy"
    BY DEF Place
  <2>3. Place(Tail(x)) = "destroy"
    BY <2>1, <2>2, Zenon
  <2> QED
    BY <2>1, <2>3 DEF Unhooking, QueueEnding, KfreeEnding, KillEnding
<1>3. CASE x = <<"destroy", "free_irq", "synchronize">>
  <2>1. Head(x) = "destroy" /\ Tail(x) = <<"free_irq", "synchronize">> /\ x # <<>>
    BY <1>3, Tuples
  <2>2. Place(<<"free_irq", "synchronize">>) = "free_irq"
    BY DEF Place
  <2>3. Place(Tail(x)) = "free_irq"
    BY <2>1, <2>2, Zenon
  <2> QED
    BY <2>1, <2>3 DEF Unhooking, QueueEnding, KfreeEnding, KillEnding
<1> QED
  BY <1>1, <1>2, <1>3 DEF QueueEnding

\* What is left behind the loop over the list.
LEMMA ListTails ==
  ASSUME NEW x \in ListEnding
  PROVE  Tail(x) \in QueueEnding /\ Place(Tail(x)) = "drain"
<1>1. CASE x = <<"free_nodes", "drain", "drained", "destroy", "free_irq", "synchronize">>
  <2>1. Head(x) = "free_nodes" /\ Tail(x) = <<"drain", "drained", "destroy", "free_irq", "synchronize">>
        /\ x # <<>>
    BY <1>1, Tuples
  <2>2. Place(<<"drain", "drained", "destroy", "free_irq", "synchronize">>) = "drain"
    BY DEF Place
  <2>3. Place(Tail(x)) = "drain"
    BY <2>1, <2>2, Zenon
  <2> QED
    BY <2>1, <2>3 DEF Unhooking, QueueEnding, KfreeEnding, KillEnding
<1>2. CASE x = <<"free_node", "drain", "drained", "destroy", "free_irq", "synchronize">>
  <2>1. Head(x) = "free_node" /\ Tail(x) = <<"drain", "drained", "destroy", "free_irq", "synchronize">>
        /\ x # <<>>
    BY <1>2, Tuples
  <2>2. Place(<<"drain", "drained", "destroy", "free_irq", "synchronize">>) = "drain"
    BY DEF Place
  <2>3. Place(Tail(x)) = "drain"
    BY <2>1, <2>2, Zenon
  <2> QED
    BY <2>1, <2>3 DEF Unhooking, QueueEnding, KfreeEnding, KillEnding
<1> QED
  BY <1>1, <1>2 DEF ListEnding

\* What is left behind a statement of the tasklet that is freed.
LEMMA KfreeTails ==
  ASSUME NEW x \in KfreeEnding
  PROVE  /\ Tail(x) \in KfreeEnding \cup Unhooking
         /\ Head(x) = "kill" => Place(Tail(x)) = "killed"
         /\ Head(x) = "killed" => Place(Tail(x)) = "kfree"
         /\ Head(x) = "kfree" => Place(Tail(x)) = "free_irq"
         /\ Head(x) \in {"kill", "killed", "kfree"}
<1>1. CASE x = <<"kill", "killed", "kfree", "free_irq", "synchronize">>
  <2>1. Head(x) = "kill" /\ Tail(x) = <<"killed", "kfree", "free_irq", "synchronize">> /\ x # <<>>
    BY <1>1, Tuples
  <2>2. Place(<<"killed", "kfree", "free_irq", "synchronize">>) = "killed"
    BY DEF Place
  <2>3. Place(Tail(x)) = "killed"
    BY <2>1, <2>2, Zenon
  <2> QED
    BY <2>1, <2>3 DEF Unhooking, QueueEnding, KfreeEnding, KillEnding
<1>2. CASE x = <<"killed", "kfree", "free_irq", "synchronize">>
  <2>1. Head(x) = "killed" /\ Tail(x) = <<"kfree", "free_irq", "synchronize">> /\ x # <<>>
    BY <1>2, Tuples
  <2>2. Place(<<"kfree", "free_irq", "synchronize">>) = "kfree"
    BY DEF Place
  <2>3. Place(Tail(x)) = "kfree"
    BY <2>1, <2>2, Zenon
  <2> QED
    BY <2>1, <2>3 DEF Unhooking, QueueEnding, KfreeEnding, KillEnding
<1>3. CASE x = <<"kfree", "free_irq", "synchronize">>
  <2>1. Head(x) = "kfree" /\ Tail(x) = <<"free_irq", "synchronize">> /\ x # <<>>
    BY <1>3, Tuples
  <2>2. Place(<<"free_irq", "synchronize">>) = "free_irq"
    BY DEF Place
  <2>3. Place(Tail(x)) = "free_irq"
    BY <2>1, <2>2, Zenon
  <2> QED
    BY <2>1, <2>3 DEF Unhooking, QueueEnding, KfreeEnding, KillEnding
<1> QED
  BY <1>1, <1>2, <1>3 DEF KfreeEnding

\* What is left behind a statement of tasklet_kill.
LEMMA KillTails ==
  ASSUME NEW x \in KillEnding
  PROVE  Tail(x) \in KillEnding \cup Unhooking /\ Place(Tail(x)) \in {"killed", "free_irq"}
<1>1. CASE x = <<"kill", "killed", "free_irq", "synchronize">>
  <2>1. Head(x) = "kill" /\ Tail(x) = <<"killed", "free_irq", "synchronize">> /\ x # <<>>
    BY <1>1, Tuples
  <2>2. Place(<<"killed", "free_irq", "synchronize">>) = "killed"
    BY DEF Place
  <2>3. Place(Tail(x)) = "killed"
    BY <2>1, <2>2, Zenon
  <2> QED
    BY <2>1, <2>3 DEF Unhooking, QueueEnding, KfreeEnding, KillEnding
<1>2. CASE x = <<"killed", "free_irq", "synchronize">>
  <2>1. Head(x) = "killed" /\ Tail(x) = <<"free_irq", "synchronize">> /\ x # <<>>
    BY <1>2, Tuples
  <2>2. Place(<<"free_irq", "synchronize">>) = "free_irq"
    BY DEF Place
  <2>3. Place(Tail(x)) = "free_irq"
    BY <2>1, <2>2, Zenon
  <2> QED
    BY <2>1, <2>3 DEF Unhooking, QueueEnding, KfreeEnding, KillEnding
<1> QED
  BY <1>1, <1>2 DEF KillEnding

\* Behind a statement stands one that may follow it.
LEMMA Follow ==
  ASSUME driver \in AllDrivers, TodoInv, phase \in {"init", "live", "exit", "unloaded"},
         todo # <<>>, NEW s, s = Head(todo), NEW t, t = Place(Tail(todo)),
         UNCHANGED <<driver, phase>>, todo' = Tail(todo)
  PROVE  /\ TodoInv'
         /\ t \notin {"free_nodes", "free_node"}
         /\ driver = "tasklet_dynamic" =>
              /\ s = "request_irq" => t = "kmalloc"
              /\ s = "kmalloc" => t = "tasklet_init"
              /\ s = "tasklet_init" => t = "end"
              /\ s = "kill" => t = "killed"
              /\ s = "killed" => t = "kfree"
              /\ s \in {"kfree", "free_irq", "synchronize"} => t \notin {"kill", "killed", "kfree"}
<1> USE DEF AllDrivers, Timers, OwnQueue, Tasklets
<1>1. CASE phase = "init"
  <2>1. CASE /\ driver \notin {"work_dynamic", "tasklet_dynamic"} \cup OwnQueue
             /\ todo \in {<<"arm">>, <<"request_irq">>}
    BY <1>1, <2>1, Tuples DEF TodoInv, InitRest, Place
  <2>2. CASE driver = "work_dynamic" /\ todo = <<"request_irq", "init_work">>
    BY <1>1, <2>2, Tuples DEF TodoInv, InitRest, Place
  <2>3. CASE driver = "work_dynamic" /\ todo = <<"init_work">>
    BY <1>1, <2>3, Tuples DEF TodoInv, InitRest, Place
  <2>4. CASE driver \in OwnQueue /\ todo = <<"request_irq", "create_queue">>
    BY <1>1, <2>4, Tuples DEF TodoInv, InitRest, Place
  <2>5. CASE driver \in OwnQueue /\ todo = <<"create_queue">>
    BY <1>1, <2>5, Tuples DEF TodoInv, InitRest, Place
  <2>6. CASE driver = "tasklet_dynamic" /\ todo = <<"request_irq", "kmalloc", "tasklet_init">>
    BY <1>1, <2>6, Tuples DEF TodoInv, InitRest, Place
  <2>7. CASE driver = "tasklet_dynamic" /\ todo = <<"kmalloc", "tasklet_init">>
    BY <1>1, <2>7, Tuples DEF TodoInv, InitRest, Place
  <2>8. CASE driver = "tasklet_dynamic" /\ todo = <<"tasklet_init">>
    BY <1>1, <2>8, Tuples DEF TodoInv, InitRest, Place
  <2> QED
    BY <1>1, <2>1, <2>2, <2>3, <2>4, <2>5, <2>6, <2>7, <2>8 DEF TodoInv, InitRest
<1>2. CASE phase = "exit"
  <2>1. CASE todo \in Unhooking /\ driver \notin Timers
    <3>1. s \in {"free_irq", "synchronize"}
      BY <2>1, Tuples DEF Unhooking
    <3> QED
      BY <1>2, <2>1, <3>1, UnhookingTails DEF TodoInv, ExitRest
  <2>2. CASE driver = "timer" /\ todo = <<"del_timer">>
    BY <1>2, <2>2, Tuples DEF TodoInv, ExitRest, Place
  <2>3. CASE driver = "hrtimer" /\ todo = <<"cancel">>
    BY <1>2, <2>3, Tuples DEF TodoInv, ExitRest, Place
  <2>4. CASE driver \in OwnQueue /\ todo \in QueueEnding
    BY <1>2, <2>4, QueueTails DEF TodoInv, ExitRest
  <2>5. CASE driver = "list" /\ todo \in ListEnding
    BY <1>2, <2>5, ListTails DEF TodoInv, ExitRest
  <2>6. CASE driver = "tasklet_dynamic" /\ todo \in KfreeEnding
    BY <1>2, <2>6, KfreeTails DEF TodoInv, ExitRest
  <2>7. CASE driver = "tasklet_static" /\ todo \in KillEnding
    BY <1>2, <2>7, KillTails DEF TodoInv, ExitRest
  <2> QED
    BY <1>2, <2>1, <2>2, <2>3, <2>4, <2>5, <2>6, <2>7 DEF TodoInv, ExitRest
<1> QED
  BY <1>1, <1>2 DEF TodoInv

-----------------------------------------------------------------------------
\* The initial states.
LEMMA Start == Init => IInv
<1> SUFFICES ASSUME Init PROVE IInv
  OBVIOUS
<1> USE ExploredAssumption, MaxTrigAssumption
<1>1. driver \in AllDrivers /\ driver \in Explored
  BY DEF Init
<1>2. InitRest /\ todo \in Seq(Statements)
  <2>1. CASE driver \in Timers
    <3>1. todo = <<"arm">>
      BY <1>1, <2>1 DEF Init, InitOf, AllDrivers, Timers, OwnQueue
    <3> QED
      BY <2>1, <3>1 DEF InitRest, Statements
  <2>2. CASE driver = "work_dynamic"
    <3>1. todo = <<"request_irq", "init_work">>
      BY <1>1, <2>2 DEF Init, InitOf, AllDrivers, Timers, OwnQueue
    <3> QED
      BY <2>2, <3>1 DEF InitRest, Statements
  <2>3. CASE driver \in OwnQueue
    <3>1. todo = <<"request_irq", "create_queue">>
      BY <1>1, <2>3 DEF Init, InitOf, AllDrivers, Timers, OwnQueue
    <3> QED
      BY <2>3, <3>1 DEF InitRest, Statements
  <2>4. CASE driver = "tasklet_dynamic"
    <3>1. todo = <<"request_irq", "kmalloc", "tasklet_init">>
      BY <1>1, <2>4 DEF Init, InitOf, AllDrivers, Timers, OwnQueue
    <3> QED
      BY <2>4, <3>1 DEF InitRest, Statements
  <2>5. CASE driver \in {"irq", "work_static", "tasklet_static"}
    <3>1. todo = <<"request_irq">>
      BY <1>1, <2>5 DEF Init, InitOf, AllDrivers, Timers, OwnQueue
    <3> QED
      BY <2>5, <3>1 DEF InitRest, Statements
  <2> QED
    BY <1>1, <2>1, <2>2, <2>3, <2>4, <2>5 DEF AllDrivers, Timers, OwnQueue, Tasklets
<1>3. driver = "tasklet_dynamic" => Place(todo) = "request_irq"
  <2> SUFFICES ASSUME driver = "tasklet_dynamic" PROVE Place(todo) = "request_irq"
    OBVIOUS
  <2>1. todo = <<"request_irq", "kmalloc", "tasklet_init">>
    BY <1>1 DEF Init, InitOf, AllDrivers, Timers, OwnQueue
  <2> QED
    BY <2>1 DEF Place
<1>4. Place(todo) # "free_node"
  <2>1. CASE todo = <<>>
    BY <2>1, Places
  <2>2. CASE todo # <<>>
    <3>1. phase = "init" /\ TodoInv
      BY <1>2 DEF Init, TodoInv
    <3> QED
      BY <1>1, <2>2, <3>1, Where DEF Place
  <2> QED
    BY <2>1, <2>2
<1>5. /\ ~irq /\ ~raised /\ ~pending /\ ~queued /\ ~more
      /\ irq \in BOOLEAN /\ raised \in BOOLEAN /\ pending \in BOOLEAN
      /\ queued \in BOOLEAN /\ more \in BOOLEAN
  BY Zenon DEF Init
<1>6. Len(nodes) = 0 /\ nodes = <<>> /\ nodes \in Seq(Values \cup {0})
  BY DEF Init
<1>7. TypeInv
  BY <1>1, <1>2, <1>5, <1>6 DEF Init, TypeInv, Faults
<1>8. TodoInv /\ RestInv /\ NodesInv
  BY <1>2, <1>4, <1>5, <1>6 DEF Init, TodoInv, RestInv, NodesInv
<1>9. ItemInv
  BY <1>1, <1>3, <1>5 DEF Init, ItemInv, OwnQueue, AllDrivers, Timers
<1>10. LatestInv
  BY <1>5, <1>6 DEF Init, LatestInv
<1>11. FaultsKnown
  BY DEF Init, FaultsKnown
<1> QED
  BY <1>7, <1>8, <1>9, <1>10, <1>11 DEF IInv

\* The line is raised, the handler entered, a writer writes or interrupts.
LEMMA LineSteps ==
  ASSUME IInv, Raise \/ Interrupt \/ \E w \in Writers : Write(w) \/ ExecInt(w)
  PROVE  IInv'
<1> USE DEF module, line, work, list, writing
<1>1. fault = "none" /\ fault' = "none" /\ UNCHANGED <<irq, module, work, list>>
      /\ (driver \in Timers => ~raised') /\ (driver \in Timers => handler' = "idle")
  <2>1. driver \in Timers => ~irq /\ ~raised /\ handler = "idle"
    BY DEF IInv, RestInv
  <2> QED
    BY <2>1 DEF Raise, Interrupt, Write, ExecInt, IInv, TypeInv
<1>2. FaultsKnown' /\ TodoInv' /\ ItemInv' /\ RestInv'
  BY <1>1 DEF FaultsKnown, IInv, TodoInv, InitRest, ExitRest, ItemInv, RestInv
<1>3. CASE Raise
  <2>1. raised' = TRUE /\ irq /\ used' \in 0..MaxTrig /\ raised' \in BOOLEAN
        /\ UNCHANGED <<handler, writing>>
    BY <1>3, MaxTrigAssumption DEF Raise, IInv, TypeInv
  <2>2. TypeInv'
    BY <1>1, <2>1 DEF IInv, TypeInv
  <2>3. NodesInv' /\ LatestInv'
    BY <1>1, <2>1 DEF IInv, NodesInv, LatestInv, Latest, News
  <2> QED
    BY <1>2, <2>2, <2>3 DEF IInv
<1>4. CASE Interrupt
  <2>1. raised /\ handler' = "entered" /\ ~raised' /\ raised' \in BOOLEAN
        /\ UNCHANGED <<used, writing>>
    BY <1>4 DEF Interrupt
  <2>2. TypeInv'
    BY <1>1, <2>1 DEF IInv, TypeInv
  <2>3. NodesInv' /\ LatestInv'
    BY <1>1, <2>1 DEF IInv, NodesInv, LatestInv, Latest, News
  <2> QED
    BY <1>2, <2>2, <2>3 DEF IInv
<1>5. ASSUME NEW w \in Writers, Write(w) PROVE IInv'
  <2>1. /\ driver = "list" /\ used' \in 0..MaxTrig /\ value' \in Values
        /\ writer' \in [Writers -> {"write", "int"}] /\ writer'[w] = "int"
        /\ UNCHANGED <<raised, handler>>
    BY <1>5, MaxTrigAssumption DEF Write, IInv, TypeInv
  <2>2. TypeInv'
    BY <1>1, <2>1 DEF IInv, TypeInv
  <2>3. NodesInv' /\ LatestInv'
    BY <1>1, <2>1 DEF IInv, NodesInv, LatestInv, Latest, News
  <2> QED
    BY <1>2, <2>2, <2>3 DEF IInv
<1>6. ASSUME NEW w \in Writers, ExecInt(w) PROVE IInv'
  <2>1. /\ writer[w] = "int" /\ UNCHANGED <<used, handler, value>>
        /\ writer' = [writer EXCEPT ![w] = "write"]
    BY <1>6 DEF ExecInt
  <2>2. raised' = irq /\ raised' \in BOOLEAN
    BY <1>6 DEF ExecInt, IInv, TypeInv
  <2>3. writer' \in [Writers -> {"write", "int"}]
    BY <2>1 DEF IInv, TypeInv
  <2>4. TypeInv'
    BY <1>1, <2>1, <2>2, <2>3 DEF IInv, TypeInv
  <2>5. driver = "list"
    BY <2>1 DEF IInv, NodesInv
  <2>6. NodesInv'
    BY <1>1, <2>5 DEF IInv, NodesInv
  <2>7. LatestInv'
    BY <1>1, <2>1, <2>2 DEF IInv, LatestInv, Latest, News
  <2> QED
    BY <1>2, <2>4, <2>6, <2>7 DEF IInv
<1> QED
  BY <1>3, <1>4, <1>5, <1>6

\* irq_handler schedules the item, or faults on it.
LEMMA HandleSteps == IInv /\ Handle => IInv'
<1> SUFFICES ASSUME IInv, Handle PROVE IInv'
  OBVIOUS
<1> USE DEF module, line, work, list, writing
<1>1. /\ fault = "none" /\ handler = "entered" /\ handler' = "idle"
      /\ UNCHANGED <<irq, raised, used, item, worker, module, list, writing>>
  BY DEF Handle
<1>2. driver \notin Timers
  BY <1>1 DEF IInv, RestInv
<1>3. TodoInv' /\ NodesInv'
  BY <1>1 DEF IInv, TodoInv, InitRest, ExitRest, NodesInv
<1>4. CASE (driver = "irq" \/ ~Looks) /\ UNCHANGED <<pending, queued, fault>>
  <2>1. TypeInv'
    BY <1>1, <1>4 DEF IInv, TypeInv
  <2>2. ItemInv' /\ RestInv' /\ FaultsKnown'
    BY <1>1, <1>4 DEF IInv, ItemInv, RestInv, FaultsKnown
  <2>3. LatestInv'
    <3>1. driver = "list" => pending
      BY <1>4 DEF Looks, Tasklets
    <3> QED
      BY <1>1, <1>4, <3>1 DEF IInv, LatestInv, Latest, News
  <2> QED
    BY <1>3, <2>1, <2>2, <2>3 DEF IInv
<1>5. CASE driver # "irq" /\ Harm # {} /\ fault' \in Harm /\ UNCHANGED <<pending, queued>>
  <2>1. \/ item = "freed" /\ fault' = "freed"
        \/ item = "absent" /\ driver # "work_dynamic" /\ fault' = "null"
        \/ item = "garbage" /\ fault' \in {"none", "garbage"}
    BY <1>5 DEF Harm, IInv, TypeInv
  <2>2. TypeInv'
    BY <1>1, <1>5, <2>1 DEF IInv, TypeInv, Faults
  <2>3. ItemInv' /\ RestInv'
    BY <1>1, <1>5 DEF IInv, ItemInv, RestInv
  <2>4. driver \in OwnQueue \cup {"tasklet_dynamic"} /\ (item = "garbage"
        => driver = "tasklet_dynamic")
    BY <1>2, <1>5, <2>1 DEF IInv, ItemInv, TypeInv, AllDrivers, Timers, OwnQueue, Tasklets
  <2>5. LatestInv'
    <3>1. driver = "list" => fault' # "none"
      BY <2>1, <2>4 DEF OwnQueue
    <3> QED
      BY <1>1, <3>1 DEF LatestInv
  <2>6. FaultsKnown'
    <3>1. phase = "live" /\ fault' # "none" => item = "absent"
      BY <2>1, <2>4 DEF IInv, ItemInv, OwnQueue
    <3> QED
      BY <1>1, <2>1, <2>4, <3>1 DEF FaultsKnown, OwnQueue
  <2> QED
    BY <1>3, <2>2, <2>3, <2>5, <2>6 DEF IInv
<1>6. CASE /\ driver # "irq" /\ Looks /\ Harm = {}
           /\ pending' = TRUE
           /\ queued' = (queued \/ (~pending /\ ~Refused))
           /\ UNCHANGED fault
  <2>1. queued' \in BOOLEAN /\ pending' \in BOOLEAN
    BY <1>6 DEF IInv, TypeInv
  <2>2. item \in {"ready", "draining"} \/ driver = "work_dynamic"
    BY <1>6 DEF Harm, IInv, TypeInv
  <2>3. TypeInv' /\ FaultsKnown'
    BY <1>1, <1>6, <2>1 DEF IInv, TypeInv, FaultsKnown
  <2>4. ItemInv' /\ RestInv'
    BY <1>1, <1>2, <1>6, <2>2 DEF IInv, ItemInv, RestInv, Timers
  <2>5. LatestInv'
    <3> SUFFICES ASSUME driver = "list", phase \in {"init", "live"} PROVE LatestInv'
      BY <1>1 DEF LatestInv
    <3>1. ~pending /\ ~Refused
      BY <1>6, <2>2 DEF Looks, Refused, IInv, ItemInv, Tasklets, OwnQueue
    <3>2. queued' /\ pending'
      BY <1>6, <3>1
    <3> QED
      BY <1>1, <3>2 DEF IInv, LatestInv, News
  <2> QED
    BY <1>3, <2>3, <2>4, <2>5 DEF IInv
<1> QED
  BY <1>4, <1>5, <1>6 DEF Handle

\* The worker runs in memory that was given back.
LEMMA GoneSteps == IInv /\ RunGone => IInv'
<1> SUFFICES ASSUME IInv, RunGone PROVE IInv'
  OBVIOUS
<1> USE DEF module, line, work, list, writing
<1>1. /\ fault = "none" /\ Gone # "none" /\ (queued \/ worker # "idle") /\ fault' = Gone
      /\ UNCHANGED <<module, line, work, list, writing>>
  BY DEF RunGone, Crash
<1>2. \/ driver = "tasklet_dynamic" /\ item = "freed" /\ fault' = "freed"
      \/ phase = "unloaded" /\ fault' = "unloaded"
         /\ (driver = "tasklet_dynamic" => item # "freed")
  BY <1>1 DEF Gone
<1>3. TypeInv'
  BY <1>1, <1>2 DEF IInv, TypeInv, Faults
<1>4. TodoInv' /\ ItemInv' /\ RestInv' /\ NodesInv'
  BY <1>1 DEF IInv, TodoInv, InitRest, ExitRest, ItemInv, RestInv, NodesInv
<1>5. LatestInv'
  BY <1>1, <1>2 DEF LatestInv
<1>6. FaultsKnown'
  <2>1. phase # "live" /\ driver # "irq"
    BY <1>1, <1>2 DEF IInv, ItemInv, RestInv
  <2>2. driver = "hrtimer" => fault' # "unloaded"
    <3>1. phase = "unloaded" => Place(todo) = "end"
      BY Places DEF IInv, TodoInv
    <3> QED
      BY <1>1, <1>2, <3>1 DEF IInv, RestInv
  <2>3. driver = "tasklet_dynamic" => fault' # "unloaded"
    BY <1>1, <1>2 DEF IInv, ItemInv
  <2>4. driver \in AllDrivers
    BY DEF IInv, TypeInv
  <2> QED
    BY <1>1, <1>2, <2>1, <2>2, <2>3, <2>4
       DEF FaultsKnown, AllDrivers, Timers, OwnQueue, Tasklets
<1> QED
  BY <1>3, <1>4, <1>5, <1>6 DEF IInv

\* The worker runs and returns, a timer arms itself again.
LEMMA RunSteps == IInv /\ (Run \/ Return \/ Callback) => IInv'
<1> SUFFICES ASSUME IInv, Run \/ Return \/ Callback PROVE IInv'
  OBVIOUS
<1> USE DEF module, line, work, list, writing
<1>1. /\ fault = "none" /\ UNCHANGED <<item, module, line, list, writing, fault>>
      /\ pending' \in BOOLEAN /\ queued' \in BOOLEAN
      /\ worker' \in {"idle", "entered", "armed"}
  BY DEF Run, Return, Callback, At, IInv, TypeInv
<1>2. TypeInv' /\ TodoInv' /\ NodesInv' /\ FaultsKnown'
  BY <1>1 DEF IInv, TypeInv, TodoInv, InitRest, ExitRest, NodesInv, FaultsKnown
<1>3. queued \/ worker # "idle"
  BY DEF Run, Return, Callback, At
<1>4. driver \notin Timers => (queued' => queued)
  BY DEF Run, Return, Callback
<1>5. ItemInv' /\ RestInv'
  BY <1>1, <1>3 DEF IInv, ItemInv, RestInv
<1>6. LatestInv'
  <2> SUFFICES ASSUME driver = "list", phase \in {"init", "live"} PROVE LatestInv'
    BY <1>1 DEF LatestInv
  <2>1. CASE Run
    BY <1>1, <2>1 DEF Run, IInv, LatestInv, News
  <2>2. CASE Return
    BY <1>1, <2>2 DEF Return, At, IInv, LatestInv, News, Latest
  <2>3. CASE Callback
    BY <2>3 DEF Callback, Timers
  <2> QED
    BY <2>1, <2>2, <2>3
<1> QED
  BY <1>2, <1>5, <1>6 DEF IInv

\* workqueue_fn makes a node and links it.
LEMMA NodeSteps == IInv /\ (NewNode \/ NoMemory \/ FindTail \/ Link) => IInv'
<1> SUFFICES ASSUME IInv, NewNode \/ NoMemory \/ FindTail \/ Link PROVE IInv'
  OBVIOUS
<1> USE DEF module, line, work, list, writing
<1>1. fault = "none" /\ UNCHANGED <<item, pending, queued, freed, more, module, line, writing>>
  BY DEF NewNode, NoMemory, FindTail, Link, At, Crash
<1>2. driver = "list" /\ worker # "idle"
  BY DEF NewNode, NoMemory, FindTail, Link, At, IInv, RestInv
<1>3. TodoInv'
  BY <1>1 DEF IInv, TodoInv, InitRest, ExitRest
<1>4. \A f : f # "none" /\ fault' = f => LatestInv'
  BY DEF LatestInv
<1>5. CASE NewNode
  <2>1. data' = value /\ worker' = "add" /\ worker = "entered" /\ UNCHANGED <<prev, nodes, fault>>
    BY <1>5 DEF NewNode, At
  <2>2. TypeInv' /\ ItemInv' /\ RestInv' /\ NodesInv' /\ FaultsKnown'
    BY <1>1, <1>2, <2>1
       DEF IInv, TypeInv, ItemInv, RestInv, NodesInv, FaultsKnown, Timers, OwnQueue
  <2>3. LatestInv'
    BY <1>1, <2>1 DEF IInv, LatestInv, News, Latest
  <2> QED
    BY <1>3, <2>2, <2>3 DEF IInv
<1>6. CASE NoMemory
  <2>1. fault' = "nomem" /\ UNCHANGED <<prev, data, nodes, worker>>
    BY <1>6 DEF NoMemory, Crash
  <2>2. TypeInv' /\ ItemInv' /\ RestInv' /\ NodesInv'
    BY <1>1, <2>1 DEF IInv, TypeInv, ItemInv, RestInv, NodesInv, Faults
  <2>3. LatestInv' /\ FaultsKnown'
    BY <1>1, <1>2, <2>1 DEF LatestInv, FaultsKnown
  <2> QED
    BY <1>3, <2>2, <2>3 DEF IInv
<1>7. CASE FindTail
  <2>1. /\ worker = "add" /\ worker' = "link" /\ UNCHANGED <<data, nodes, fault>>
        /\ prev' \in 0..Len(nodes)
    BY <1>7 DEF FindTail, At, IInv, TypeInv
  <2>2. TypeInv' /\ ItemInv' /\ RestInv' /\ NodesInv' /\ FaultsKnown'
    BY <1>1, <1>2, <2>1
       DEF IInv, TypeInv, ItemInv, RestInv, NodesInv, FaultsKnown, Timers, OwnQueue
  <2>3. LatestInv'
    BY <1>1, <2>1 DEF IInv, LatestInv, News, Latest
  <2> QED
    BY <1>3, <2>2, <2>3 DEF IInv
<1>8. CASE Link
  <2>1. CASE prev # 0 /\ prev <= freed /\ Crash("list")
    <3>1. fault' = "list" /\ UNCHANGED <<prev, data, nodes, worker>>
      BY <2>1 DEF Crash
    <3>2. TypeInv' /\ ItemInv' /\ RestInv' /\ NodesInv'
      BY <1>1, <3>1 DEF IInv, TypeInv, ItemInv, RestInv, NodesInv, Faults
    <3>3. phase # "live"
      BY <2>1 DEF IInv, TypeInv, NodesInv
    <3>4. LatestInv' /\ FaultsKnown'
      BY <1>1, <1>2, <3>1, <3>3 DEF LatestInv, FaultsKnown
    <3> QED
      BY <1>3, <3>2, <3>4 DEF IInv
  <2>2. CASE nodes' = Append(nodes, data) /\ worker' = "idle" /\ UNCHANGED <<data, prev, fault>>
    <3>1. /\ nodes' \in Seq(Values \cup {0}) /\ Len(nodes') = Len(nodes) + 1
          /\ nodes'[Len(nodes')] = data /\ worker = "link" /\ nodes' # <<>>
      <4>1. worker = "link"
        BY <1>8 DEF Link, At
      <4>2. data \in Values \cup {0} /\ nodes \in Seq(Values \cup {0})
        BY DEF IInv, TypeInv
      <4> QED
        BY <2>2, <4>1, <4>2, AppendProperties
    <3>2. TypeInv' /\ FaultsKnown'
      BY <1>1, <1>2, <2>2, <3>1 DEF IInv, TypeInv, FaultsKnown, Timers, OwnQueue
    <3>3. ItemInv' /\ RestInv' /\ NodesInv'
      <4>1. ItemInv' /\ RestInv'
        BY <1>1, <1>2, <2>2, <3>1 DEF IInv, TypeInv, ItemInv, RestInv, Timers, OwnQueue
      <4> QED
        BY <1>1, <1>2, <3>1, <4>1 DEF IInv, TypeInv, NodesInv
    <3>4. LatestInv'
      BY <1>1, <2>2, <3>1 DEF IInv, LatestInv, News, Latest
    <3> QED
      BY <1>3, <3>2, <3>3, <3>4 DEF IInv
  <2> QED
    BY <1>8, <2>1, <2>2 DEF Link
<1> QED
  BY <1>5, <1>6, <1>7, <1>8

\* What holds when a statement has been executed: the next one stands where
\* Follow says, and the driver and the phase are those of Where.
LEMMA Statement ==
  ASSUME IInv, NEW s, s # "end", Stmt(s), Done, NEW t, t = Place(Tail(todo))
  PROVE  /\ fault = "none" /\ Place(todo) = s /\ Place(todo)' = t
         /\ todo' \in Seq(Statements) /\ TodoInv' /\ UNCHANGED <<driver, phase, atExit>>
         /\ driver \in AllDrivers
         /\ phase = IF s \in {"arm", "request_irq", "init_work", "create_queue",
                              "kmalloc", "tasklet_init"} THEN "init" ELSE "exit"
         /\ s = "arm" => driver \in Timers
         /\ s \in {"request_irq", "free_irq", "synchronize"} => driver \notin Timers
         /\ s = "init_work" => driver = "work_dynamic"
         /\ s = "create_queue" => driver \in OwnQueue
         /\ s \in {"kmalloc", "tasklet_init", "kfree"} => driver = "tasklet_dynamic"
         /\ s \in {"kill", "killed"} => driver \in Tasklets
         /\ s \in {"drain", "drained", "destroy"} => driver \in OwnQueue
         /\ s = "del_timer" => driver = "timer"
         /\ s = "cancel" => driver = "hrtimer"
         /\ s \in {"free_nodes", "free_node"} => driver = "list"
         /\ t \notin {"free_nodes", "free_node"}
         /\ driver = "tasklet_dynamic" =>
              /\ s = "request_irq" => t = "kmalloc"
              /\ s = "kmalloc" => t = "tasklet_init"
              /\ s = "tasklet_init" => t = "end"
              /\ s = "kill" => t = "killed"
              /\ s = "killed" => t = "kfree"
              /\ s \in {"kfree", "free_irq", "synchronize"} => t \notin {"kill", "killed", "kfree"}
<1>1. /\ fault = "none" /\ todo # <<>> /\ s = Head(todo) /\ todo' = Tail(todo)
      /\ UNCHANGED <<driver, phase, atExit>>
  BY DEF Stmt, Done
<1>2. /\ driver \in AllDrivers /\ TodoInv /\ phase \in {"init", "live", "exit", "unloaded"}
      /\ todo \in Seq(Statements)
  BY DEF IInv, TypeInv
<1>3. todo' \in Seq(Statements)
  BY <1>1, <1>2, HeadTailProperties
<1>4. Place(todo) = s /\ Place(todo)' = t
  BY <1>1 DEF Place
<1>5. phase = IF s \in {"arm", "request_irq", "init_work", "create_queue",
                        "kmalloc", "tasklet_init"} THEN "init" ELSE "exit"
  BY <1>1, <1>2, Where
<1> QED
  BY <1>1, <1>2, <1>3, <1>4, <1>5, Where, Follow

\* The statements of init but the last.
LEMMA InitSteps ==
  IInv /\ (RequestIrq \/ InitItem \/ CreateQueue \/ Kmalloc \/ Arm) => IInv'
<1> SUFFICES ASSUME IInv, RequestIrq \/ InitItem \/ CreateQueue \/ Kmalloc \/ Arm PROVE IInv'
  OBVIOUS
<1> USE DEF module, line, work, list, writing
<1>0. PICK t : t = Place(Tail(todo))
  OBVIOUS
<1>1. CASE RequestIrq
  <2>1. /\ Stmt("request_irq") /\ Done /\ irq' = TRUE /\ irq' \in BOOLEAN
        /\ UNCHANGED <<raised, handler, used, work, list, writing, fault>>
    BY <1>1 DEF RequestIrq
  <2>2. /\ fault = "none" /\ Place(todo) = "request_irq" /\ Place(todo)' = t
        /\ todo' \in Seq(Statements) /\ TodoInv' /\ UNCHANGED <<driver, phase, atExit>>
        /\ phase = "init" /\ driver \notin Timers /\ t \notin {"free_nodes", "free_node"}
        /\ driver = "tasklet_dynamic" => t = "kmalloc"
    BY <1>0, <2>1, Statement
  <2>3. TypeInv' /\ FaultsKnown'
    BY <2>1, <2>2 DEF IInv, TypeInv, FaultsKnown
  <2>4. ItemInv' /\ RestInv' /\ NodesInv'
    BY <2>1, <2>2 DEF IInv, ItemInv, RestInv, NodesInv
  <2>5. LatestInv'
    BY <2>1, <2>2 DEF IInv, LatestInv, News, Latest
  <2> QED
    BY <2>2, <2>3, <2>4, <2>5 DEF IInv
<1>2. ASSUME NEW s \in {"init_work", "tasklet_init"}, Stmt(s), InitItem PROVE IInv'
  <2>1. /\ Done /\ item' = "ready" /\ pending' = FALSE /\ pending' \in BOOLEAN
        /\ UNCHANGED <<queued, worker, line, list, writing, fault>>
    BY <1>2 DEF InitItem
  <2>2. /\ fault = "none" /\ Place(todo) = s /\ Place(todo)' = t
        /\ todo' \in Seq(Statements) /\ TodoInv' /\ UNCHANGED <<driver, phase, atExit>>
        /\ phase = "init" /\ driver \in {"work_dynamic", "tasklet_dynamic"}
        /\ t \notin {"free_nodes", "free_node"}
        /\ driver = "tasklet_dynamic" => t = "end"
    BY <1>0, <1>2, <2>1, Statement
  <2>3. TypeInv' /\ FaultsKnown'
    BY <2>1, <2>2 DEF IInv, TypeInv, FaultsKnown
  <2>4. ItemInv' /\ RestInv' /\ NodesInv'
    BY <2>1, <2>2 DEF IInv, ItemInv, RestInv, NodesInv, Timers, OwnQueue
  <2>5. LatestInv'
    BY <2>1, <2>2 DEF LatestInv
  <2> QED
    BY <2>2, <2>3, <2>4, <2>5 DEF IInv
<1>3. CASE CreateQueue
  <2>1. /\ Stmt("create_queue") /\ Done /\ item' \in {"ready", "absent"}
        /\ UNCHANGED <<pending, queued, worker, line, list, writing, fault>>
    BY <1>3 DEF CreateQueue
  <2>2. /\ fault = "none" /\ Place(todo) = "create_queue" /\ Place(todo)' = t
        /\ todo' \in Seq(Statements) /\ TodoInv' /\ UNCHANGED <<driver, phase, atExit>>
        /\ phase = "init" /\ driver \in OwnQueue /\ t \notin {"free_nodes", "free_node"}
    BY <1>0, <2>1, Statement
  <2>3. TypeInv' /\ FaultsKnown'
    BY <2>1, <2>2 DEF IInv, TypeInv, FaultsKnown
  <2>4. ItemInv' /\ RestInv' /\ NodesInv'
    BY <2>1, <2>2 DEF IInv, ItemInv, RestInv, NodesInv, Timers, OwnQueue
  <2>5. LatestInv'
    BY <2>1, <2>2 DEF IInv, LatestInv, News, Latest
  <2> QED
    BY <2>2, <2>3, <2>4, <2>5 DEF IInv
<1>4. CASE Kmalloc
  <2>1. /\ Stmt("kmalloc") /\ Done /\ item' = "garbage"
        /\ UNCHANGED <<pending, queued, worker, line, list, writing, fault>>
    BY <1>4 DEF Kmalloc
  <2>2. /\ fault = "none" /\ Place(todo) = "kmalloc" /\ Place(todo)' = t
        /\ todo' \in Seq(Statements) /\ TodoInv' /\ UNCHANGED <<driver, phase, atExit>>
        /\ phase = "init" /\ driver = "tasklet_dynamic" /\ t = "tasklet_init"
    BY <1>0, <2>1, Statement
  <2>3. TypeInv' /\ FaultsKnown'
    BY <2>1, <2>2 DEF IInv, TypeInv, FaultsKnown
  <2>4. ItemInv' /\ RestInv' /\ NodesInv'
    BY <2>1, <2>2 DEF IInv, ItemInv, RestInv, NodesInv, Timers, OwnQueue
  <2>5. LatestInv'
    BY <2>1, <2>2 DEF LatestInv
  <2> QED
    BY <2>2, <2>3, <2>4, <2>5 DEF IInv
<1>5. CASE Arm
  <2>1. /\ Stmt("arm") /\ Done /\ pending' \in BOOLEAN /\ queued' \in BOOLEAN
        /\ UNCHANGED <<item, worker, line, list, writing, fault>>
    BY <1>5 DEF Arm
  <2>2. /\ fault = "none" /\ Place(todo) = "arm" /\ Place(todo)' = t
        /\ todo' \in Seq(Statements) /\ TodoInv' /\ UNCHANGED <<driver, phase, atExit>>
        /\ phase = "init" /\ driver \in Timers /\ t \notin {"free_nodes", "free_node"}
    BY <1>0, <2>1, Statement
  <2>3. TypeInv' /\ FaultsKnown'
    BY <2>1, <2>2 DEF IInv, TypeInv, FaultsKnown
  <2>4. ItemInv' /\ RestInv' /\ NodesInv'
    BY <2>1, <2>2 DEF IInv, ItemInv, RestInv, NodesInv, Timers, OwnQueue
  <2>5. LatestInv'
    BY <2>1, <2>2 DEF LatestInv, Timers
  <2> QED
    BY <2>2, <2>3, <2>4, <2>5 DEF IInv
<1> QED
  BY <1>1, <1>2, <1>3, <1>4, <1>5 DEF InitItem

\* A sequence with the elements of two others, one behind the other, is their
\* concatenation.
LEMMA Joined ==
  ASSUME NEW S, NEW s \in Seq(S), NEW t \in Seq(S), NEW u \in Seq(S),
         Len(u) = Len(s) + Len(t),
         \A i \in 1..Len(s) : u[i] = s[i],
         \A i \in 1..Len(t) : u[Len(s) + i] = t[i]
  PROVE  s \o t = u
<1>1. /\ s \o t \in Seq(S) /\ Len(s \o t) = Len(s) + Len(t)
      /\ \A i \in 1..Len(s) + Len(t) : (s \o t)[i] = IF i <= Len(s) THEN s[i] ELSE t[i - Len(s)]
  BY ConcatProperties
<1>2. ASSUME NEW i \in 1..Len(u) PROVE (s \o t)[i] = u[i]
  <2>0. Len(s) \in Nat /\ Len(t) \in Nat
    OBVIOUS
  <2>1. CASE i <= Len(s)
    BY <1>1, <2>0, <2>1
  <2>2. CASE i > Len(s)
    <3>1. i - Len(s) \in 1..Len(t) /\ Len(s) + (i - Len(s)) = i
      BY <2>0, <2>2
    <3>2. u[i] = t[i - Len(s)]
      BY <3>1
    <3> QED
      BY <1>1, <2>0, <2>2, <3>2
  <2> QED
    BY <2>0, <2>1, <2>2
<1> QED
  BY <1>1, <1>2, SeqEqual
\* Tuples of one and of five elements.
LEMMA Join15 ==
  \A a, b, c, d, e, f : <<a>> \o <<b, c, d, e, f>> = <<a, b, c, d, e, f>>
<1> SUFFICES ASSUME NEW a, NEW b, NEW c, NEW d, NEW e, NEW f
             PROVE <<a>> \o <<b, c, d, e, f>> = <<a, b, c, d, e, f>>
  OBVIOUS
<1> DEFINE S == {a, b, c, d, e, f}
<1> DEFINE s == <<a>>
<1> DEFINE t == <<b, c, d, e, f>>
<1> DEFINE u == <<a, b, c, d, e, f>>
<1>1. s \in Seq(S) /\ Len(s) = 1
  OBVIOUS
<1>2. t \in Seq(S) /\ Len(t) = 5
  OBVIOUS
<1>3. u \in Seq(S) /\ Len(u) = 6
  OBVIOUS
<1>4. \A i \in 1..1 : u[i] = s[i]
  OBVIOUS
<1>5. \A i \in 1..5 : u[1 + i] = t[i]
  OBVIOUS
<1> HIDE DEF s, t, u, S
<1>6. /\ Len(u) = Len(s) + Len(t)
      /\ \A i \in 1..Len(s) : u[i] = s[i]
      /\ \A i \in 1..Len(t) : u[Len(s) + i] = t[i]
  BY <1>1, <1>2, <1>3, <1>4, <1>5
<1>7. s \o t = u
  BY <1>1, <1>2, <1>3, <1>6, Joined
<1> QED
  BY <1>7 DEF s, t, u

\* Tuples of two and of one element.
LEMMA Join21 ==
  \A a, b, c : <<a, b>> \o <<c>> = <<a, b, c>>
<1> SUFFICES ASSUME NEW a, NEW b, NEW c PROVE <<a, b>> \o <<c>> = <<a, b, c>>
  OBVIOUS
<1> DEFINE S == {a, b, c}
<1> DEFINE s == <<a, b>>
<1> DEFINE t == <<c>>
<1> DEFINE u == <<a, b, c>>
<1>1. s \in Seq(S) /\ Len(s) = 2
  OBVIOUS
<1>2. t \in Seq(S) /\ Len(t) = 1
  OBVIOUS
<1>3. u \in Seq(S) /\ Len(u) = 3
  OBVIOUS
<1>4. \A i \in 1..2 : u[i] = s[i]
  OBVIOUS
<1>5. \A i \in 1..1 : u[2 + i] = t[i]
  OBVIOUS
<1> HIDE DEF s, t, u, S
<1>6. /\ Len(u) = Len(s) + Len(t)
      /\ \A i \in 1..Len(s) : u[i] = s[i]
      /\ \A i \in 1..Len(t) : u[Len(s) + i] = t[i]
  BY <1>1, <1>2, <1>3, <1>4, <1>5
<1>7. s \o t = u
  BY <1>1, <1>2, <1>3, <1>6, Joined
<1> QED
  BY <1>7 DEF s, t, u

\* Tuples of two elements.
LEMMA Join22 ==
  \A a, b, c, d : <<a, b>> \o <<c, d>> = <<a, b, c, d>>
<1> SUFFICES ASSUME NEW a, NEW b, NEW c, NEW d PROVE <<a, b>> \o <<c, d>> = <<a, b, c, d>>
  OBVIOUS
<1> DEFINE S == {a, b, c, d}
<1> DEFINE s == <<a, b>>
<1> DEFINE t == <<c, d>>
<1> DEFINE u == <<a, b, c, d>>
<1>1. s \in Seq(S) /\ Len(s) = 2
  OBVIOUS
<1>2. t \in Seq(S) /\ Len(t) = 2
  OBVIOUS
<1>3. u \in Seq(S) /\ Len(u) = 4
  OBVIOUS
<1>4. \A i \in 1..2 : u[i] = s[i]
  OBVIOUS
<1>5. \A i \in 1..2 : u[2 + i] = t[i]
  OBVIOUS
<1> HIDE DEF s, t, u, S
<1>6. /\ Len(u) = Len(s) + Len(t)
      /\ \A i \in 1..Len(s) : u[i] = s[i]
      /\ \A i \in 1..Len(t) : u[Len(s) + i] = t[i]
  BY <1>1, <1>2, <1>3, <1>4, <1>5
<1>7. s \o t = u
  BY <1>1, <1>2, <1>3, <1>6, Joined
<1> QED
  BY <1>7 DEF s, t, u

\* Tuples of one and of three elements.
LEMMA Join13 ==
  \A a, b, c, d : <<a>> \o <<b, c, d>> = <<a, b, c, d>>
<1> SUFFICES ASSUME NEW a, NEW b, NEW c, NEW d PROVE <<a>> \o <<b, c, d>> = <<a, b, c, d>>
  OBVIOUS
<1> DEFINE S == {a, b, c, d}
<1> DEFINE s == <<a>>
<1> DEFINE t == <<b, c, d>>
<1> DEFINE u == <<a, b, c, d>>
<1>1. s \in Seq(S) /\ Len(s) = 1
  OBVIOUS
<1>2. t \in Seq(S) /\ Len(t) = 3
  OBVIOUS
<1>3. u \in Seq(S) /\ Len(u) = 4
  OBVIOUS
<1>4. \A i \in 1..1 : u[i] = s[i]
  OBVIOUS
<1>5. \A i \in 1..3 : u[1 + i] = t[i]
  OBVIOUS
<1> HIDE DEF s, t, u, S
<1>6. /\ Len(u) = Len(s) + Len(t)
      /\ \A i \in 1..Len(s) : u[i] = s[i]
      /\ \A i \in 1..Len(t) : u[Len(s) + i] = t[i]
  BY <1>1, <1>2, <1>3, <1>4, <1>5
<1>7. s \o t = u
  BY <1>1, <1>2, <1>3, <1>6, Joined
<1> QED
  BY <1>7 DEF s, t, u

\* Tuples of three and of two elements.
LEMMA Join32 ==
  \A a, b, c, d, e : <<a, b, c>> \o <<d, e>> = <<a, b, c, d, e>>
<1> SUFFICES ASSUME NEW a, NEW b, NEW c, NEW d, NEW e
             PROVE <<a, b, c>> \o <<d, e>> = <<a, b, c, d, e>>
  OBVIOUS
<1> DEFINE S == {a, b, c, d, e}
<1> DEFINE s == <<a, b, c>>
<1> DEFINE t == <<d, e>>
<1> DEFINE u == <<a, b, c, d, e>>
<1>1. s \in Seq(S) /\ Len(s) = 3
  OBVIOUS
<1>2. t \in Seq(S) /\ Len(t) = 2
  OBVIOUS
<1>3. u \in Seq(S) /\ Len(u) = 5
  OBVIOUS
<1>4. \A i \in 1..3 : u[i] = s[i]
  OBVIOUS
<1>5. \A i \in 1..2 : u[3 + i] = t[i]
  OBVIOUS
<1> HIDE DEF s, t, u, S
<1>6. /\ Len(u) = Len(s) + Len(t)
      /\ \A i \in 1..Len(s) : u[i] = s[i]
      /\ \A i \in 1..Len(t) : u[Len(s) + i] = t[i]
  BY <1>1, <1>2, <1>3, <1>4, <1>5
<1>7. s \o t = u
  BY <1>1, <1>2, <1>3, <1>6, Joined
<1> QED
  BY <1>7 DEF s, t, u

\* Tuples of four and of two elements.
LEMMA Join42 ==
  \A a, b, c, d, e, f : <<a, b, c, d>> \o <<e, f>> = <<a, b, c, d, e, f>>
<1> SUFFICES ASSUME NEW a, NEW b, NEW c, NEW d, NEW e, NEW f
             PROVE <<a, b, c, d>> \o <<e, f>> = <<a, b, c, d, e, f>>
  OBVIOUS
<1> DEFINE S == {a, b, c, d, e, f}
<1> DEFINE s == <<a, b, c, d>>
<1> DEFINE t == <<e, f>>
<1> DEFINE u == <<a, b, c, d, e, f>>
<1>1. s \in Seq(S) /\ Len(s) = 4
  OBVIOUS
<1>2. t \in Seq(S) /\ Len(t) = 2
  OBVIOUS
<1>3. u \in Seq(S) /\ Len(u) = 6
  OBVIOUS
<1>4. \A i \in 1..4 : u[i] = s[i]
  OBVIOUS
<1>5. \A i \in 1..2 : u[4 + i] = t[i]
  OBVIOUS
<1> HIDE DEF s, t, u, S
<1>6. /\ Len(u) = Len(s) + Len(t)
      /\ \A i \in 1..Len(s) : u[i] = s[i]
      /\ \A i \in 1..Len(t) : u[Len(s) + i] = t[i]
  BY <1>1, <1>2, <1>3, <1>4, <1>5
<1>7. s \o t = u
  BY <1>1, <1>2, <1>3, <1>6, Joined
<1> QED
  BY <1>7 DEF s, t, u

\* The statements of exit, driver by driver.
LEMMA Endings ==
  /\ Destroy \o FreeIrq = <<"drain", "drained", "destroy", "free_irq", "synchronize">>
  /\ Kill \o FreeIrq = <<"kill", "killed", "free_irq", "synchronize">>
  /\ <<"free_nodes">> \o Destroy \o FreeIrq
       = <<"free_nodes", "drain", "drained", "destroy", "free_irq", "synchronize">>
  /\ Kill \o <<"kfree">> \o FreeIrq
       = <<"kill", "killed", "kfree", "free_irq", "synchronize">>
<1>1. Destroy \o FreeIrq = <<"drain", "drained", "destroy", "free_irq", "synchronize">>
  BY Join32, Zenon DEF Destroy, FreeIrq
<1>2. Kill \o FreeIrq = <<"kill", "killed", "free_irq", "synchronize">>
  BY Join22, Zenon DEF Kill, FreeIrq
<1>3. <<"free_nodes">> \o Destroy = <<"free_nodes", "drain", "drained", "destroy">>
  BY Join13, Zenon DEF Destroy
<1>4. Kill \o <<"kfree">> = <<"kill", "killed", "kfree">>
  BY Join21, Zenon DEF Kill
<1>5. <<"free_nodes", "drain", "drained", "destroy">> \o FreeIrq
       = <<"free_nodes", "drain", "drained", "destroy", "free_irq", "synchronize">>
  <2>1. \A c, d, e, f : <<"free_nodes", "drain", c, d>> \o <<e, f>>
                          = <<"free_nodes", "drain", c, d, e, f>>
    BY Join42, Zenon
  <2>2. \A e, f : <<"free_nodes", "drain", "drained", "destroy">> \o <<e, f>>
                    = <<"free_nodes", "drain", "drained", "destroy", e, f>>
    BY <2>1, Zenon
  <2> QED
    BY <2>2, Zenon DEF FreeIrq
<1>6. <<"kill", "killed", "kfree">> \o FreeIrq
      = <<"kill", "killed", "kfree", "free_irq", "synchronize">>
  BY Join32, Zenon DEF FreeIrq
<1> QED
  BY <1>1, <1>2, <1>3, <1>4, <1>5, <1>6

\* Init fails, or ends, and exit begins or ends.
LEMMA PhaseSteps == IInv /\ (KmallocFails \/ Through \/ Rmmod) => IInv'
<1> SUFFICES ASSUME IInv, KmallocFails \/ Through \/ Rmmod PROVE IInv'
  OBVIOUS
<1> USE DEF module, line, work, list, writing
<1>1. CASE KmallocFails
  <2>1. /\ fault = "none" /\ todo # <<>> /\ Head(todo) = "kmalloc"
        /\ phase' = "exit" /\ todo' = <<"free_irq", "synchronize">>
        /\ UNCHANGED <<driver, atExit, line, work, list, writing, fault>>
    BY <1>1 DEF KmallocFails, Stmt, FreeIrq
  <2>2. driver = "tasklet_dynamic" /\ phase = "init" /\ Place(todo) = "kmalloc"
    BY <2>1, Where DEF IInv, TypeInv, Place
  <2>3. Place(todo)' = "free_irq"
    BY <2>1 DEF Place
  <2>4. todo' \in Seq(Statements)
    BY <2>1 DEF Statements
  <2>5. TypeInv' /\ FaultsKnown'
    BY <2>1, <2>4 DEF IInv, TypeInv, FaultsKnown
  <2>6. TodoInv'
    BY <2>1, <2>2 DEF TodoInv, ExitRest, Unhooking, Timers
  <2>7. ItemInv' /\ RestInv' /\ NodesInv' /\ LatestInv'
    BY <2>1, <2>2, <2>3 DEF IInv, ItemInv, RestInv, NodesInv, LatestInv, Timers, OwnQueue, TypeInv
  <2> QED
    BY <2>5, <2>6, <2>7 DEF IInv
<1>2. CASE Through
  <2>1. /\ fault = "none" /\ todo = <<>> /\ Place(todo) = "end" /\ Place(todo)' = "end"
        /\ \/ phase = "init" /\ phase' = "live"
           \/ phase = "exit" /\ phase' = "unloaded"
        /\ UNCHANGED <<driver, todo, atExit, line, work, list, writing, fault>>
    BY <1>2, Places DEF Through
  <2>2. TypeInv' /\ FaultsKnown' /\ TodoInv'
    BY <2>1 DEF IInv, TypeInv, FaultsKnown, TodoInv
  <2>3. ItemInv' /\ RestInv' /\ NodesInv'
    BY <2>1 DEF IInv, ItemInv, RestInv, NodesInv
  <2>4. LatestInv'
    BY <2>1 DEF IInv, LatestInv, News, Latest
  <2> QED
    BY <2>2, <2>3, <2>4 DEF IInv
<1>3. CASE Rmmod
  <2>1. /\ fault = "none" /\ phase = "live" /\ phase' = "exit" /\ todo' = ExitOf[driver]
        /\ atExit' = Len(nodes)
        /\ UNCHANGED <<driver, line, work, list, writing, fault>>
    BY <1>3 DEF Rmmod
  <2>2. driver \in AllDrivers
    BY DEF IInv, TypeInv
  <2>3. /\ ExitRest' /\ todo' \in Seq(Statements)
        /\ driver = "list" <=> Place(todo)' = "free_nodes"
        /\ driver = "tasklet_dynamic" => Place(todo)' = "kill"
        /\ Place(todo)' \notin {"free_node", "end"}
    <3> USE DEF AllDrivers, Timers, OwnQueue, Tasklets
    <3>1. CASE driver = "timer"
      <4>1. todo' = <<"del_timer">>
        BY <2>1, <3>1 DEF ExitOf
      <4>2. Place(todo)' = "del_timer"
        BY <4>1 DEF Place
      <4>3. todo' \in Seq(Statements)
        BY <4>1 DEF Statements
      <4> QED
        BY <2>1, <3>1, <4>1, <4>2, <4>3 DEF ExitRest
    <3>2. CASE driver = "hrtimer"
      <4>1. todo' = <<"cancel">>
        BY <2>1, <3>2 DEF ExitOf
      <4>2. Place(todo)' = "cancel"
        BY <4>1 DEF Place
      <4>3. todo' \in Seq(Statements)
        BY <4>1 DEF Statements
      <4> QED
        BY <2>1, <3>2, <4>1, <4>2, <4>3 DEF ExitRest
    <3>3. CASE driver = "own_queue"
      <4>1. todo' = <<"drain", "drained", "destroy", "free_irq", "synchronize">>
        BY <2>1, <3>3, Endings DEF ExitOf
      <4>2. Place(todo)' = "drain"
        BY <4>1 DEF Place
      <4>3. todo' \in Seq(Statements)
        BY <4>1 DEF Statements
      <4> QED
        BY <2>1, <3>3, <4>1, <4>2, <4>3 DEF ExitRest, QueueEnding
    <3>4. CASE driver = "list"
      <4>1. todo' = <<"free_nodes", "drain", "drained", "destroy", "free_irq", "synchronize">>
        BY <2>1, <3>4, Endings DEF ExitOf
      <4>2. Place(todo)' = "free_nodes"
        BY <4>1 DEF Place
      <4>3. todo' \in Seq(Statements)
        BY <4>1 DEF Statements
      <4> QED
        BY <2>1, <3>4, <4>1, <4>2, <4>3 DEF ExitRest, ListEnding
    <3>5. CASE driver = "tasklet_dynamic"
      <4>1. todo' = <<"kill", "killed", "kfree", "free_irq", "synchronize">>
        BY <2>1, <3>5, Endings DEF ExitOf
      <4>2. Place(todo)' = "kill"
        BY <4>1 DEF Place
      <4>3. todo' \in Seq(Statements)
        BY <4>1 DEF Statements
      <4> QED
        BY <2>1, <3>5, <4>1, <4>2, <4>3 DEF ExitRest, KfreeEnding
    <3>6. CASE driver = "tasklet_static"
      <4>1. todo' = <<"kill", "killed", "free_irq", "synchronize">>
        BY <2>1, <3>6, Endings DEF ExitOf
      <4>2. Place(todo)' = "kill"
        BY <4>1 DEF Place
      <4>3. todo' \in Seq(Statements)
        BY <4>1 DEF Statements
      <4> QED
        BY <2>1, <3>6, <4>1, <4>2, <4>3 DEF ExitRest, KillEnding
    <3>7. CASE driver \in {"irq", "work_dynamic", "work_static"}
      <4>1. todo' = <<"free_irq", "synchronize">>
        BY <2>1, <3>7 DEF ExitOf, FreeIrq
      <4>2. Place(todo)' = "free_irq"
        BY <4>1 DEF Place
      <4> QED
        BY <2>1, <3>7, <4>1, <4>2 DEF ExitRest, Unhooking, Statements
    <3> QED
      BY <2>2, <3>1, <3>2, <3>3, <3>4, <3>5, <3>6, <3>7
  <2>4. atExit' \in 0..Len(nodes)
    BY <2>1 DEF IInv, TypeInv
  <2>5. TypeInv' /\ FaultsKnown' /\ TodoInv'
    BY <2>1, <2>3, <2>4 DEF IInv, TypeInv, FaultsKnown, TodoInv
  <2>6. ItemInv' /\ RestInv'
    BY <2>1, <2>3 DEF IInv, ItemInv, RestInv
  <2>7. driver # "list" => Len(nodes) = 0
    BY DEF IInv, NodesInv
  <2>8. NodesInv' /\ LatestInv'
    BY <2>1, <2>3, <2>7 DEF IInv, NodesInv, LatestInv
  <2> QED
    BY <2>5, <2>6, <2>8 DEF IInv
<1> QED
  BY <1>1, <1>2, <1>3

\* A statement of exit that leaves the list and the worker alone keeps the
\* invariant when it raises, schedules and spoils nothing.
LEMMA ExitStatement ==
  ASSUME IInv, NEW s \in Statements, Stmt(s), Done, NEW t, t = Place(Tail(todo)),
         s \in {"free_irq", "synchronize", "kill", "killed", "kfree", "drain",
                "drained", "destroy", "del_timer", "cancel"},
         UNCHANGED <<list, writing, fault, handler, used, worker>>,
         irq' \in BOOLEAN, raised' \in BOOLEAN, pending' \in BOOLEAN, queued' \in BOOLEAN,
         irq' => irq, raised' => raised, queued' => queued,
         item' = item \/ s \in {"kfree", "drain", "drained", "destroy"},
         item' \in {"absent", "garbage", "ready", "draining", "freed"},
         s \in {"drain", "drained", "destroy"} => item' # "garbage",
         s = "kfree" => item' = "freed",
         s = "cancel" => ~queued' /\ worker = "idle"
  PROVE  IInv'
<1> USE DEF module, line, work, list, writing
<1>1. /\ fault = "none" /\ Place(todo) = s /\ Place(todo)' = t
      /\ todo' \in Seq(Statements) /\ TodoInv' /\ UNCHANGED <<driver, phase, atExit>>
      /\ phase = "exit" /\ t \notin {"free_nodes", "free_node"}
      /\ s = "kfree" => driver = "tasklet_dynamic"
      /\ s \in {"drain", "drained", "destroy"} => driver \in OwnQueue
      /\ s \in {"free_irq", "synchronize"} => driver \notin Timers
      /\ s \in {"kill", "killed"} => driver \in Tasklets
      /\ s = "del_timer" => driver = "timer"
      /\ s = "cancel" => driver = "hrtimer"
      /\ driver = "tasklet_dynamic" =>
              /\ s = "kill" => t = "killed"
              /\ s = "killed" => t = "kfree"
              /\ s \in {"kfree", "free_irq", "synchronize"} => t \notin {"kill", "killed", "kfree"}
  BY Statement
<1>2. TypeInv' /\ FaultsKnown'
  BY <1>1 DEF IInv, TypeInv, FaultsKnown
<1>3. ItemInv'
  BY <1>1 DEF IInv, ItemInv, Timers, OwnQueue, Tasklets
<1>4. RestInv'
  BY <1>1 DEF IInv, RestInv, Timers, OwnQueue, Tasklets
<1>5. NodesInv'
  BY <1>1 DEF IInv, NodesInv
<1>6. LatestInv'
  BY <1>1 DEF LatestInv
<1> QED
  BY <1>1, <1>2, <1>3, <1>4, <1>5, <1>6 DEF IInv

\* free_irq.
LEMMA LineOff == IInv /\ (FreeIrqLine \/ Synchronize) => IInv'
<1> SUFFICES ASSUME IInv, FreeIrqLine \/ Synchronize PROVE IInv'
  OBVIOUS
<1> USE DEF module, line, work, list, writing
<1>0. PICK t : t = Place(Tail(todo))
  OBVIOUS
<1>1. /\ irq \in BOOLEAN /\ raised \in BOOLEAN /\ pending \in BOOLEAN /\ queued \in BOOLEAN
      /\ item \in {"absent", "garbage", "ready", "draining", "freed"}
  BY DEF IInv, TypeInv
<1>2. CASE FreeIrqLine
  <2>1. /\ Stmt("free_irq") /\ Done /\ irq' = FALSE /\ raised' = FALSE
        /\ irq' \in BOOLEAN /\ raised' \in BOOLEAN
        /\ UNCHANGED <<handler, used, work, list, writing, fault>>
    BY <1>2 DEF FreeIrqLine
  <2> QED
    BY <1>0, <1>1, <2>1, ExitStatement DEF Statements
<1>3. CASE Synchronize
  <2>1. /\ Stmt("synchronize") /\ Done
        /\ UNCHANGED <<line, work, list, writing, fault>>
    BY <1>3 DEF Synchronize
  <2> QED
    BY <1>0, <1>1, <2>1, ExitStatement DEF Statements
<1> QED
  BY <1>2, <1>3

\* tasklet_kill, kfree, the end of destroy_workqueue, del_timer, hrtimer_cancel.
LEMMA ItemOff ==
  IInv /\ (KillTasklet \/ Killed \/ Kfree \/ Drained \/ DestroyQueue \/ DelTimer \/ Cancel)
    => IInv'
<1> SUFFICES ASSUME IInv, KillTasklet \/ Killed \/ Kfree \/ Drained \/ DestroyQueue
                            \/ DelTimer \/ Cancel
             PROVE IInv'
  OBVIOUS
<1> USE DEF module, line, work, list, writing
<1>0. PICK t : t = Place(Tail(todo))
  OBVIOUS
<1>1. /\ irq \in BOOLEAN /\ raised \in BOOLEAN /\ pending \in BOOLEAN /\ queued \in BOOLEAN
      /\ item \in {"absent", "garbage", "ready", "draining", "freed"}
  BY DEF IInv, TypeInv
<1>2. CASE KillTasklet
  <2>1. /\ Stmt("kill") /\ Done
        /\ pending' \in BOOLEAN
        /\ UNCHANGED <<item, queued, worker, line, list, writing, fault>>
    BY <1>2 DEF KillTasklet
  <2> QED
    BY <1>0, <1>1, <2>1, ExitStatement DEF Statements
<1>3. CASE Killed
  <2>1. /\ Stmt("killed") /\ Done
        /\ pending' \in BOOLEAN
        /\ UNCHANGED <<item, queued, worker, line, list, writing, fault>>
    BY <1>3 DEF Killed
  <2> QED
    BY <1>0, <1>1, <2>1, ExitStatement DEF Statements
<1>4. CASE Kfree
  <2>1. /\ Stmt("kfree") /\ Done
        /\ item' = "freed"
        /\ UNCHANGED <<pending, queued, worker, line, list, writing, fault>>
    BY <1>4 DEF Kfree
  <2> QED
    BY <1>0, <1>1, <2>1, ExitStatement DEF Statements
<1>5. CASE Drained
  <2>1. /\ Stmt("drained") /\ Done
        /\ item' = "ready"
        /\ UNCHANGED <<pending, queued, worker, line, list, writing, fault>>
    BY <1>5 DEF Drained
  <2> QED
    BY <1>0, <1>1, <2>1, ExitStatement DEF Statements
<1>6. CASE DestroyQueue
  <2>1. /\ Stmt("destroy") /\ Done
        /\ item' \in {"ready", "freed"}
        /\ UNCHANGED <<pending, queued, worker, line, list, writing, fault>>
    BY <1>6 DEF DestroyQueue
  <2> QED
    BY <1>0, <1>1, <2>1, ExitStatement DEF Statements
<1>7. CASE DelTimer
  <2>1. /\ Stmt("del_timer") /\ Done
        /\ ~queued' /\ pending' \in BOOLEAN /\ queued' \in BOOLEAN
        /\ UNCHANGED <<item, worker, line, list, writing, fault>>
    BY <1>7 DEF DelTimer
  <2> QED
    BY <1>0, <1>1, <2>1, ExitStatement DEF Statements
<1>8. CASE Cancel
  <2>1. /\ Stmt("cancel") /\ Done
        /\ worker = "idle" /\ ~queued' /\ pending' \in BOOLEAN /\ queued' \in BOOLEAN
        /\ UNCHANGED <<item, worker, line, list, writing, fault>>
    BY <1>8 DEF Cancel
  <2> QED
    BY <1>0, <1>1, <2>1, ExitStatement DEF Statements
<1> QED
  BY <1>2, <1>3, <1>4, <1>5, <1>6, <1>7, <1>8

\* destroy_workqueue begins, or finds no queue.
LEMMA DrainSteps == IInv /\ Drain => IInv'
<1> SUFFICES ASSUME IInv, Drain PROVE IInv'
  OBVIOUS
<1> USE DEF module, line, work, list, writing
<1>0. PICK t : t = Place(Tail(todo))
  OBVIOUS
<1>1. /\ irq \in BOOLEAN /\ raised \in BOOLEAN /\ pending \in BOOLEAN /\ queued \in BOOLEAN
  BY DEF IInv, TypeInv
<1>2. CASE item # "absent"
  <2>1. /\ Stmt("drain") /\ Done /\ item' = "draining"
        /\ UNCHANGED <<pending, queued, worker, line, list, writing, fault>>
    BY <1>2 DEF Drain
  <2> QED
    BY <1>0, <1>1, <2>1, ExitStatement DEF Statements
<1>3. CASE item = "absent"
  <2>1. /\ fault = "none" /\ todo # <<>> /\ Head(todo) = "drain" /\ fault' = "null"
        /\ UNCHANGED <<module, line, work, list, writing>>
    BY <1>3 DEF Drain, Crash, Stmt
  <2>2. driver \in OwnQueue /\ phase = "exit"
    <3>1. /\ driver \in AllDrivers /\ TodoInv /\ phase \in {"init", "live", "exit", "unloaded"}
      BY DEF IInv, TypeInv
    <3>2. PICK s : s = Head(todo)
      OBVIOUS
    <3> QED
      BY <2>1, <3>1, <3>2, Where
  <2>3. TypeInv'
    BY <2>1 DEF IInv, TypeInv, Faults
  <2>4. TodoInv' /\ ItemInv' /\ RestInv' /\ NodesInv'
    BY <2>1 DEF IInv, TodoInv, InitRest, ExitRest, ItemInv, RestInv, NodesInv
  <2>5. LatestInv' /\ FaultsKnown'
    BY <2>1, <2>2 DEF LatestInv, FaultsKnown, OwnQueue
  <2> QED
    BY <2>3, <2>4, <2>5 DEF IInv
<1> QED
  BY <1>2, <1>3

\* Whoever is in the loop over the list has destroy_workqueue and free_irq
\* before it.
LEMMA InLoop ==
  ASSUME IInv, todo # <<>>, Head(todo) \in {"free_nodes", "free_node"}
  PROVE  /\ driver = "list" /\ phase = "exit" /\ todo \in ListEnding
         /\ Tail(todo) = <<"drain", "drained", "destroy", "free_irq", "synchronize">>
         /\ Place(todo) = Head(todo)
<1>1. /\ driver \in AllDrivers /\ TodoInv /\ phase \in {"init", "live", "exit", "unloaded"}
  BY DEF IInv, TypeInv
<1>2. PICK s : s = Head(todo)
  OBVIOUS
<1>3. driver = "list" /\ phase = "exit"
  BY <1>1, <1>2, Where
<1>4. todo \in Unhooking \cup QueueEnding \cup ListEnding
  BY <1>1, <1>3 DEF TodoInv, ExitRest, Timers
<1>5. todo \notin Unhooking
  BY Tuples DEF Unhooking
<1>6. todo \notin QueueEnding
  BY Tuples DEF QueueEnding
<1>7. todo \in ListEnding
  BY <1>4, <1>5, <1>6
<1>8. Tail(todo) = <<"drain", "drained", "destroy", "free_irq", "synchronize">>
  <2>1. CASE todo = <<"free_nodes", "drain", "drained", "destroy", "free_irq", "synchronize">>
    BY <2>1, Tuples
  <2>2. CASE todo = <<"free_node", "drain", "drained", "destroy", "free_irq", "synchronize">>
    BY <2>2, Tuples
  <2> QED
    BY <1>7, <2>1, <2>2 DEF ListEnding
<1> QED
  BY <1>3, <1>7, <1>8 DEF Place

\* What is left when the loop goes on, and when it ends.
LEMMA Again ==
  ASSUME NEW x, x = <<"drain", "drained", "destroy", "free_irq", "synchronize">>
  PROVE  /\ x \in QueueEnding /\ Place(x) = "drain" /\ x \in Seq(Statements)
         /\ <<"free_node">> \o x \in ListEnding
         /\ <<"free_node">> \o x \in Seq(Statements)
         /\ Place(<<"free_node">> \o x) = "free_node"
<1>1. x \in QueueEnding
  BY DEF QueueEnding
<1>2. Place(x) = "drain"
  BY DEF Place
<1>3. x \in Seq(Statements)
  BY DEF Statements
<1>4. <<"free_node">> \o x
        = <<"free_node", "drain", "drained", "destroy", "free_irq", "synchronize">>
  <2>1. \A d, e, f : <<"free_node">> \o <<"drain", "drained", d, e, f>>
                       = <<"free_node", "drain", "drained", d, e, f>>
    BY Join15, Zenon
  <2> QED
    BY <2>1, Zenon
<1>5. <<"free_node">> \o x \in ListEnding
  BY <1>4 DEF ListEnding
<1>6. <<"free_node">> \o x \in Seq(Statements)
  BY <1>4 DEF Statements
<1>7. Place(<<"free_node", "drain", "drained", "destroy", "free_irq", "synchronize">>) = "free_node"
  BY DEF Place
<1>8. Place(<<"free_node">> \o x) = "free_node"
  BY <1>4, <1>7, Zenon
<1> QED
  BY <1>1, <1>2, <1>3, <1>5, <1>6, <1>8

\* The loop over the list begins, and frees a node.
LEMMA LoopSteps == IInv /\ (StartLoop \/ FreeNode) => IInv'
<1> SUFFICES ASSUME IInv, StartLoop \/ FreeNode PROVE IInv'
  OBVIOUS
<1> USE DEF module, line, work, list, writing
<1>1. /\ fault = "none" /\ todo # <<>> /\ Head(todo) \in {"free_nodes", "free_node"}
      /\ UNCHANGED <<driver, phase, atExit, data, prev, nodes, line, work, writing, fault>>
  BY DEF StartLoop, FreeNode, Stmt
<1>2. /\ driver = "list" /\ phase = "exit" /\ todo \in ListEnding
      /\ Tail(todo) = <<"drain", "drained", "destroy", "free_irq", "synchronize">>
      /\ Place(todo) = Head(todo) /\ todo \in Seq(Statements)
  BY <1>1, InLoop DEF IInv, TypeInv
<1>3. /\ Tail(todo) \in QueueEnding /\ Place(Tail(todo)) = "drain" /\ Tail(todo) \in Seq(Statements)
      /\ <<"free_node">> \o Tail(todo) \in ListEnding
      /\ <<"free_node">> \o Tail(todo) \in Seq(Statements)
      /\ Place(<<"free_node">> \o Tail(todo)) = "free_node"
  BY <1>2, Again
<1>4. /\ Len(nodes) \in Nat /\ freed \in 0..Len(nodes) /\ atExit \in 0..Len(nodes)
  BY DEF IInv, TypeInv
<1>5. /\ more' \in BOOLEAN /\ freed' \in 0..Len(nodes)
      /\ todo' \in {todo, Tail(todo), <<"free_node">> \o Tail(todo)}
      /\ \/ Place(todo)' = "drain" /\ freed' >= atExit
         \/ /\ Place(todo)' = "free_node" /\ freed' < Len(nodes)
            /\ more' => freed' + 1 < Len(nodes)
            /\ ~more' => freed' + 1 >= atExit
  <2>1. CASE StartLoop
    <3>1. /\ more' = (Len(nodes) > freed + 1) /\ freed' = freed
          /\ todo' = IF Len(nodes) = freed THEN Tail(todo) ELSE <<"free_node">> \o Tail(todo)
      BY <2>1 DEF StartLoop
    <3>2. /\ more' \in BOOLEAN
          /\ more' => freed' + 1 < Len(nodes)
          /\ ~more' => freed' + 1 >= Len(nodes)
      <4>1. more' \in BOOLEAN
        BY <3>1
      <4>2. more' <=> Len(nodes) > freed + 1
        BY <3>1, Zenon
      <4>3. Len(nodes) > freed + 1 <=> freed' + 1 < Len(nodes)
        BY <1>4, <3>1
      <4>4. ~(freed' + 1 < Len(nodes)) => freed' + 1 >= Len(nodes)
        BY <1>4, <3>1
      <4> QED
        BY <4>1, <4>2, <4>3, <4>4, Zenon
    <3>3. CASE Len(nodes) = freed
      <4>1. todo' = Tail(todo)
        BY <3>1, <3>3
      <4>2. Place(todo)' = "drain"
        BY <1>3, <4>1 DEF Place
      <4> QED
        BY <1>4, <3>1, <3>2, <3>3, <4>1, <4>2
    <3>4. CASE Len(nodes) # freed
      <4>1. todo' = <<"free_node">> \o Tail(todo)
        BY <3>1, <3>4
      <4>2. Place(todo)' = "free_node"
        BY <1>3, <4>1 DEF Place
      <4> QED
        BY <1>4, <3>1, <3>2, <3>4, <4>1, <4>2
    <3> QED
      BY <3>3, <3>4
  <2>2. CASE FreeNode
    <3>1. /\ more' = (Len(nodes) > freed + 2) /\ freed' = freed + 1
          /\ todo' = IF more THEN todo ELSE Tail(todo)
          /\ Head(todo) = "free_node"
      BY <2>2 DEF FreeNode, Stmt
    <3>2. /\ more' \in BOOLEAN
          /\ more' => freed' + 1 < Len(nodes)
          /\ ~more' => freed' + 1 >= Len(nodes)
      <4>1. more' \in BOOLEAN
        BY <3>1
      <4>2. more' <=> Len(nodes) > freed + 2
        BY <3>1, Zenon
      <4>3. Len(nodes) > freed + 2 <=> freed' + 1 < Len(nodes)
        BY <1>4, <3>1
      <4>4. ~(freed' + 1 < Len(nodes)) => freed' + 1 >= Len(nodes)
        BY <1>4, <3>1
      <4> QED
        BY <4>1, <4>2, <4>3, <4>4, Zenon
    <3>3. /\ freed < Len(nodes)
          /\ more => freed + 1 < Len(nodes)
          /\ ~more => freed + 1 >= atExit
      BY <1>2, <3>1 DEF IInv, NodesInv
    <3>4. CASE ~more
      <4>1. todo' = Tail(todo)
        BY <3>1, <3>4
      <4>2. Place(todo)' = "drain"
        BY <1>3, <4>1 DEF Place
      <4>3. freed' >= atExit /\ freed' \in 0..Len(nodes)
        <5>1. freed + 1 >= atExit /\ freed < Len(nodes)
          BY <3>3, <3>4, Zenon
        <5> QED
          BY <1>4, <3>1, <5>1
      <4> QED
        BY <3>2, <4>1, <4>2, <4>3
    <3>5. CASE more
      <4>1. todo' = todo
        BY <3>1, <3>5
      <4>2. Place(todo)' = "free_node"
        BY <1>2, <3>1, <4>1 DEF Place
      <4>3. freed' < Len(nodes) /\ freed' \in 0..Len(nodes)
        <5>1. freed + 1 < Len(nodes)
          BY <3>3, <3>5, Zenon
        <5> QED
          BY <1>4, <3>1, <5>1
      <4>4. ~more' => freed' + 1 >= atExit
        <5>1. freed' + 1 >= Len(nodes) => freed' + 1 >= atExit
          BY <1>4, <3>1
        <5> QED
          BY <3>2, <5>1, Zenon
      <4> QED
        BY <3>2, <4>1, <4>2, <4>3, <4>4
    <3> QED
      BY <3>4, <3>5
  <2> QED
    BY <2>1, <2>2
<1>6. TypeInv' /\ FaultsKnown'
  <2>1. todo' \in Seq(Statements)
    BY <1>2, <1>3, <1>5
  <2> QED
    BY <1>1, <1>2, <1>5, <2>1 DEF IInv, TypeInv, FaultsKnown
<1>7. TodoInv'
  BY <1>1, <1>2, <1>3, <1>5 DEF TodoInv, ExitRest, OwnQueue
<1>8. ItemInv' /\ RestInv'
  BY <1>1, <1>2, <1>5 DEF IInv, ItemInv, RestInv
<1>9. NodesInv' /\ LatestInv'
  BY <1>1, <1>2, <1>5 DEF NodesInv, LatestInv
<1> QED
  BY <1>6, <1>7, <1>8, <1>9 DEF IInv

\* IInv holds in every reachable state.
THEOREM Invariance == Spec => []IInv
<1>1. Init => IInv
  BY Start
<1>2. IInv /\ [Next]_vars => IInv'
  <2> SUFFICES ASSUME IInv, [Next]_vars PROVE IInv'
    OBVIOUS
  <2>1. CASE Raise \/ Interrupt \/ \E w \in Writers : Write(w) \/ ExecInt(w)
    BY <2>1, LineSteps
  <2>2. CASE Handle
    BY <2>2, HandleSteps
  <2>3. CASE Worker
    BY <2>3, GoneSteps, RunSteps, NodeSteps DEF Worker
  <2>4. CASE Loading \/ Rmmod
    BY <2>4, InitSteps, PhaseSteps DEF Loading
  <2>5. CASE Unloading
    BY <2>5, LineOff, ItemOff, DrainSteps, LoopSteps DEF Unloading
  <2>6. CASE UNCHANGED vars
    <3>1. UNCHANGED <<driver, phase, todo, atExit, line, work, list, writing, fault>>
      BY <2>6 DEF vars, module
    <3>2. TypeInv'
      BY <3>1 DEF line, work, list, writing, IInv, TypeInv
    <3>3. TodoInv' /\ FaultsKnown'
      BY <3>1 DEF work, IInv, TodoInv, InitRest, ExitRest, FaultsKnown
    <3>4. ItemInv' /\ RestInv'
      BY <3>1 DEF line, work, IInv, ItemInv, RestInv, Place
    <3>5. NodesInv' /\ LatestInv'
      BY <3>1 DEF line, work, list, writing, IInv, NodesInv, LatestInv, News, Latest, Place
    <3> QED
      BY <3>2, <3>3, <3>4, <3>5 DEF IInv
  <2> QED
    BY <2>1, <2>2, <2>3, <2>4, <2>5, <2>6 DEF Next
<1> QED
  BY <1>1, <1>2, PTL DEF Spec

\* Every variable stays in its range: exit never frees a node that is not in
\* the list, and the writer of a node finds its place within the list.
THEOREM TypeCorrect == Spec => []TypeOK
<1>1. IInv => TypeOK
  BY DEF IInv, TypeInv, TypeOK, Statements
<1> QED
  BY <1>1, Invariance, PTL

\* How each driver can fail when interrupts, worker and unloading overlap: the
\* plain handler and the hrtimer never do, and no driver fails in another way
\* than FaultsKnown lists.
THEOREM FaultsAsListed == Spec => []FaultsKnown
<1>1. IInv => FaultsKnown
  BY DEF IInv
<1> QED
  BY <1>1, Invariance, PTL

\* Whatever interrupts are lost, merged or served together: when all is quiet
\* the last node of the list holds what dummy_write stored last.
THEOREM LastWrite == Spec => []LastWriteListed
<1>1. IInv => LastWriteListed
  <2> SUFFICES ASSUME IInv, phase = "live", fault = "none", ~raised, handler = "idle",
                      ~queued, worker = "idle", \A w \in Writers : writer[w] = "write",
                      nodes # <<>>
               PROVE  nodes[Len(nodes)] = value
    BY DEF LastWriteListed
  <2>1. driver = "list"
    BY DEF IInv, NodesInv
  <2>2. ~News
    BY DEF News
  <2> QED
    BY <2>1, <2>2 DEF IInv, LatestInv, Latest
<1> QED
  BY <1>1, Invariance, PTL

\* However workqueue_fn and the loop of dummy_driver_exit overlap: exit frees
\* every node that was in the list when it began.
THEOREM ListFreed == Spec => []ExitFreesList
<1>1. IInv => ExitFreesList
  <2> SUFFICES ASSUME IInv, phase = "unloaded" PROVE freed >= atExit
    BY DEF ExitFreesList
  <2>1. Place(todo) = "end"
    BY Places DEF IInv, TodoInv
  <2> QED
    BY <2>1 DEF IInv, NodesInv
<1> QED
  BY <1>1, Invariance, PTL
===========================================================================
