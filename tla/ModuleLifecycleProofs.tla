----------------------- MODULE ModuleLifecycleProofs -----------------------
(***************************************************************************)
(* Proofs about loading and unloading the drivers, for every driver of the *)
(* repository and any number of open files.                                *)
(*                                                                         *)
(* A driver is three statement lists, and the steps walk along one of      *)
(* them.  The argument has three parts.                                    *)
(*   - Lists: a list that enumerates a set in a given order still does     *)
(*     when its first statement has been taken off (Rest), so a state      *)
(*     needs to say only which set is left.                                *)
(*   - Drivers: Sound(d, ...) says that the lists of one driver are        *)
(*     ordered and fit each other.  It is proved family by family.         *)
(*   - Steps: the invariant is inductive for any sound driver; nothing     *)
(*     below AllSound looks into a particular driver again.                *)
(***************************************************************************)
EXTENDS ModuleLifecycle, SequenceTheorems, TLAPS

\* The list s names every member of S, in the order the ranks f give them, and
\* nothing else.
Enumerates(s, S, f) ==
  /\ s \in Seq(S) /\ s # <<>>
  /\ \A x \in S : \E i \in 1..Len(s) : s[i] = x
  /\ \A i, j \in 1..Len(s) : i < j => f[s[i]] < f[s[j]]

\* A list of one.
LEMMA One == \A a, f : Enumerates(<<a>>, {a}, f)
BY DEF Enumerates

\* A list of two, the first ranked below the second.
LEMMA Two == \A a, b, f : f[a] < f[b] => Enumerates(<<a, b>>, {a, b}, f)
<1> SUFFICES ASSUME NEW a, NEW b, NEW f, f[a] < f[b] PROVE Enumerates(<<a, b>>, {a, b}, f)
  OBVIOUS
<1> DEFINE s == <<a, b>>
<1>1. s \in Seq({a, b}) /\ s # <<>> /\ Len(s) = 2 /\ s[1] = a /\ s[2] = b
  OBVIOUS
<1> HIDE DEF s
<1>2. \A x \in {a, b} : \E i \in 1..Len(s) : s[i] = x
  BY <1>1
<1>3. \A i, j \in 1..Len(s) : i < j => i = 1 /\ j = 2
  BY <1>1
<1>4. Enumerates(s, {a, b}, f)
  BY <1>1, <1>2, <1>3 DEF Enumerates
<1> QED
  BY <1>4 DEF s

\* Two lists, one behind the other, when the first is ranked below the second.
LEMMA Both ==
  ASSUME NEW s, NEW S, NEW t, NEW T, NEW f, Enumerates(s, S, f), Enumerates(t, T, f),
         \A x \in S, y \in T : f[x] < f[y]
  PROVE  Enumerates(s \o t, S \cup T, f)
<1>1. s \in Seq(S \cup T) /\ t \in Seq(S \cup T) /\ Len(s) \in Nat /\ Len(t) \in Nat
  BY DEF Enumerates
<1>2. /\ s \o t \in Seq(S \cup T) /\ Len(s \o t) = Len(s) + Len(t)
      /\ \A i \in 1..Len(s) + Len(t) : (s \o t)[i] = IF i <= Len(s) THEN s[i] ELSE t[i - Len(s)]
  BY <1>1, ConcatProperties
<1> DEFINE u == s \o t
<1>3. \A i \in 1..Len(s) : i \in 1..Len(u) /\ u[i] = s[i]
  BY <1>1, <1>2
<1>4. \A i \in 1..Len(t) : Len(s) + i \in 1..Len(u) /\ u[Len(s) + i] = t[i]
  <2> SUFFICES ASSUME NEW i \in 1..Len(t)
               PROVE  Len(s) + i \in 1..Len(u) /\ u[Len(s) + i] = t[i]
    OBVIOUS
  <2>1. Len(s) + i \in 1..Len(s) + Len(t) /\ ~(Len(s) + i <= Len(s)) /\ (Len(s) + i) - Len(s) = i
    BY <1>1
  <2> QED
    BY <1>2, <2>1
<1>5. \A i \in 1..Len(u) : i \in 1..Len(s) \/ \E k \in 1..Len(t) : i = Len(s) + k
  <2> SUFFICES ASSUME NEW i \in 1..Len(u), i \notin 1..Len(s)
               PROVE  \E k \in 1..Len(t) : i = Len(s) + k
    OBVIOUS
  <2>1. i - Len(s) \in 1..Len(t) /\ i = Len(s) + (i - Len(s))
    BY <1>1, <1>2
  <2> QED
    BY <2>1
<1>6. Len(s) > 0
  BY <1>1, EmptySeq DEF Enumerates
<1>7. u \in Seq(S \cup T) /\ u # <<>>
  <2>1. Len(u) > 0
    BY <1>1, <1>2, <1>6
  <2> QED
    BY <1>2, <2>1, EmptySeq
<1> HIDE DEF u
<1>8. \A x \in S \cup T : \E i \in 1..Len(u) : u[i] = x
  <2>1. ASSUME NEW x \in S PROVE \E i \in 1..Len(u) : u[i] = x
    BY <1>3 DEF Enumerates
  <2>2. ASSUME NEW x \in T PROVE \E i \in 1..Len(u) : u[i] = x
    <3>1. PICK i \in 1..Len(t) : t[i] = x
      BY DEF Enumerates
    <3> QED
      BY <1>4, <3>1
  <2> QED
    BY <2>1, <2>2
<1>9. ASSUME NEW i \in 1..Len(u), NEW j \in 1..Len(u), i < j PROVE f[u[i]] < f[u[j]]
  <2>1. CASE i \in 1..Len(s) /\ j \in 1..Len(s)
    BY <1>3, <1>9, <2>1 DEF Enumerates
  <2>2. CASE i \in 1..Len(s) /\ j \notin 1..Len(s)
    <3>1. PICK k \in 1..Len(t) : j = Len(s) + k
      BY <1>5, <2>2
    <3>2. u[i] = s[i] /\ u[j] = t[k]
      BY <1>3, <1>4, <2>2, <3>1
    <3>3. s[i] \in S /\ t[k] \in T
      BY <2>2, ElementOfSeq DEF Enumerates
    <3> QED
      BY <3>2, <3>3
  <2>3. CASE i \notin 1..Len(s) /\ j \in 1..Len(s)
    BY <1>1, <1>9, <2>3
  <2>4. CASE i \notin 1..Len(s) /\ j \notin 1..Len(s)
    <3>1. PICK k \in 1..Len(t) : i = Len(s) + k
      BY <1>5, <2>4
    <3>2. PICK l \in 1..Len(t) : j = Len(s) + l
      BY <1>5, <2>4
    <3>3. u[i] = t[k] /\ u[j] = t[l]
      BY <1>4, <3>1, <3>2
    <3>4. k < l
      BY <1>1, <1>9, <3>1, <3>2
    <3> QED
      BY <3>3, <3>4 DEF Enumerates
  <2> QED
    BY <2>1, <2>2, <2>3, <2>4
<1>10. Enumerates(u, S \cup T, f)
  BY <1>7, <1>8, <1>9 DEF Enumerates
<1> QED
  BY <1>10 DEF u

\* A list with one more entry behind it.
LEMMA AndOne ==
  ASSUME NEW s, NEW S, NEW a, NEW f, Enumerates(s, S, f), \A x \in S : f[x] < f[a]
  PROVE  Enumerates(Append(s, a), S \cup {a}, f)
<1>1. Append(s, a) = s \o <<a>>
  <2>1. s \in Seq(S \cup {a}) /\ a \in S \cup {a}
    BY DEF Enumerates
  <2> QED
    BY <2>1, AppendIsConcat
<1> QED
  BY <1>1, One, Both

\* The entries of a list.
Listed(s) == {s[i] : i \in 1..Len(s)}

\* A list that enumerates a set lists that set.
LEMMA ListedAll ==
  ASSUME NEW s, NEW S, NEW f, Enumerates(s, S, f)
  PROVE  Listed(s) = S
<1>1. \A i \in 1..Len(s) : s[i] \in S
  BY ElementOfSeq DEF Enumerates
<1> QED
  BY <1>1 DEF Enumerates, Listed

\* Doing the first statement of a list leaves a list of the others: all of them
\* are ranked behind it, so it does not come again.
LEMMA Rest ==
  ASSUME NEW s, NEW S, NEW f, Enumerates(s, S, f), \A x \in S : f[x] \in Nat,
         NEW h, h = Head(s)
  PROVE  /\ h \in S
         /\ \A x \in S \ {h} : f[h] < f[x]
         /\ Listed(Tail(s)) = S \ {h}
         /\ Len(s) = 1 => Tail(s) = <<>> /\ S = {h}
         /\ Len(s) # 1 => Enumerates(Tail(s), S \ {h}, f)
<1> DEFINE t == Tail(s)
<1>1. s \in Seq(S) /\ s # <<>> /\ Len(s) \in Nat /\ Len(s) > 0
  BY EmptySeq DEF Enumerates
<1>2. h = s[1] /\ h \in S /\ 1 \in 1..Len(s)
  BY <1>1
<1>3. t \in Seq(S) /\ Len(t) = Len(s) - 1 /\ \A i \in 1..Len(t) : t[i] = s[i + 1]
  BY <1>1, HeadTailProperties
<1> HIDE DEF t
<1>4. \A i \in 1..Len(t) : i + 1 \in 1..Len(s) /\ t[i] = s[i + 1] /\ 1 < i + 1
  BY <1>1, <1>3
<1>5. \A i \in 1..Len(s) : i = 1 \/ \E k \in 1..Len(t) : s[i] = t[k]
  <2> SUFFICES ASSUME NEW i \in 1..Len(s), i # 1 PROVE \E k \in 1..Len(t) : s[i] = t[k]
    OBVIOUS
  <2>1. i - 1 \in 1..Len(t) /\ (i - 1) + 1 = i
    BY <1>1, <1>3
  <2>2. t[i - 1] = s[i]
    BY <1>3, <2>1
  <2> QED
    BY <2>1, <2>2
<1>6. \A x \in S \ {h} : \E k \in 1..Len(t) : t[k] = x
  <2> SUFFICES ASSUME NEW x \in S \ {h} PROVE \E k \in 1..Len(t) : t[k] = x
    OBVIOUS
  <2>1. PICK i \in 1..Len(s) : s[i] = x
    BY DEF Enumerates
  <2> QED
    BY <1>2, <1>5, <2>1
<1>7. \A k \in 1..Len(t) : f[h] < f[t[k]]
  BY <1>2, <1>4 DEF Enumerates
<1>8. \A k \in 1..Len(t) : t[k] \in S \ {h}
  <2> SUFFICES ASSUME NEW k \in 1..Len(t) PROVE t[k] \in S \ {h}
    OBVIOUS
  <2>1. t[k] \in S
    BY <1>3, ElementOfSeq
  <2>2. f[h] < f[t[k]] /\ f[h] \in Nat
    BY <1>2, <1>7
  <2> QED
    BY <2>1, <2>2
<1>9. Listed(t) = S \ {h}
  BY <1>6, <1>8 DEF Listed
<1>10. \A x \in S \ {h} : f[h] < f[x]
  BY <1>6, <1>7
<1>11. Len(s) = 1 => t = <<>> /\ S = {h}
  <2> SUFFICES ASSUME Len(s) = 1 PROVE t = <<>> /\ S = {h}
    OBVIOUS
  <2>1. Len(t) = 0
    BY <1>3
  <2>2. t = <<>>
    BY <1>3, <2>1, EmptySeq
  <2>3. S \ {h} = {}
    BY <1>6, <2>1
  <2> QED
    BY <1>2, <2>2, <2>3
<1>12. ASSUME Len(s) # 1 PROVE Enumerates(t, S \ {h}, f)
  <2>1. t # <<>>
    BY <1>1, <1>3, <1>12, EmptySeq
  <2>2. t \in Seq(S \ {h})
    <3>1. t \in [1..Len(t) -> S \ {h}] /\ Len(t) \in Nat
      BY <1>1, <1>3, <1>8, LenProperties
    <3> QED
      BY <3>1, SeqDef
  <2>3. \A i, j \in 1..Len(t) : i < j => f[t[i]] < f[t[j]]
    <3> SUFFICES ASSUME NEW i \in 1..Len(t), NEW j \in 1..Len(t), i < j
                 PROVE  f[t[i]] < f[t[j]]
      OBVIOUS
    <3>1. i + 1 < j + 1
      OBVIOUS
    <3> QED
      BY <1>4, <3>1 DEF Enumerates
  <2> QED
    BY <1>6, <2>1, <2>2, <2>3 DEF Enumerates
<1> QED
  BY <1>2, <1>9, <1>10, <1>11, <1>12 DEF t

-----------------------------------------------------------------------------
(* The lists of the drivers.                                               *)

\* What the release lists of the drivers name: the files of sysfs and of proc go
\* with their directories, one of them by the wrong name.
Releases == (Resources \ {"attr", "procfile"}) \cup {"rootattr"}

\* The order in which every init function acquires its resources.
Rank(r) == CASE r \in {"region", "netalloc", "nlsock", "pernet"} -> 1
             [] r \in {"cdev", "misc", "netdev"} -> 2
             [] r = "class" -> 3
             [] r = "device" -> 4
             [] r \in {"buffer", "procdir", "thread1", "kobj", "timer"} -> 5
             [] r \in {"procfile", "thread2", "attr"} -> 6
             [] r = "irq" -> 7
             [] OTHER -> 8

\* The labels an acquisition may name.
Names == {"none", "never", "used", "out", "r_class", "r_device", "r_sysfs", "irq", "r_netdev"}

\* The statements an init function is made of.
Entry == [get : Resources, label : Names]

\* The place of a statement in init, by what it acquires.
InitOrder == [e \in Entry |-> Rank(e.get)]

\* The order in which every exit function releases, dependents first.
ExitOrder == [x \in Releases |-> CASE x \in {"thread2", "netalloc"} -> 2
                                   [] x = "irq" -> 3
                                   [] x = "kobj" -> 4
                                   [] x = "rootattr" -> 5
                                   [] x = "device" -> 6
                                   [] x = "class" -> 7
                                   [] x = "cdev" -> 8
                                   [] x = "region" -> 9
                                   [] OTHER -> 1]

\* The same for the labels of init, which release the number before the cdev.
LabelOrder == [ExitOrder EXCEPT !["cdev"] = 10]

\* The labels that are not labels of the code: the failure is not noticed, cannot
\* be, or kills insmod.
Passing == {"none", "never", "used"}

\* The releases that may hit nothing when the acquisition of g failed (g is none
\* when nothing did), besides those of what was missed.
Excused(g) == {"rootattr"} \cup ({g} \cap {"irq", "cdev"})

\* The missed acquisitions whose release comes back.
Harmless == {"region", "kobj", "device", "class"}

\* What stays registered when init of driver d failed on g, unless it was missed.
Residue(d, g) ==
  {r \in {"device", "cdev"} :
     /\ r = "device" => g \in {"attr", "irq", "tasklet", "buffer", "procdir"}
     /\ r = "cdev" => /\ d \notin UnwindsCdev
                      /\ g \notin {"region", "cdev", "misc", "netdev", "nlsock"}}

\* The release on which exit dies when r was missed.
Trigger(r) == IF r = "class" THEN "device" ELSE r

\* What the label r_class of driver d releases.
Tailing(d) == IF d \in UnwindsCdev THEN {"region", "cdev"} ELSE {"region"}

\* What a label of driver d releases, with all it falls through to.
LabelSet(d, l) ==
  CASE l = "out" -> {}
    [] l = "r_class" -> Tailing(d)
    [] l = "r_device" -> {"class"} \cup Tailing(d)
    [] l = "r_sysfs" -> {"kobj", "rootattr"} \cup ({"class"} \cup Tailing(d))
    [] l = "irq" -> IF d = "Signal" THEN {"irq", "class", "region"}
                    ELSE {"irq"} \cup ({"kobj", "rootattr"} \cup ({"class"} \cup Tailing(d)))
    [] OTHER -> {"netalloc"}

\* An init with the statements E has acquired u when it is done.
Sure(E, u) == \E x \in E : x.get = u /\ x.label # "none"

\* When init reaches e, it has acquired u.
SureBefore(E, e, u) == \E x \in E : x.get = u /\ x.label # "none" /\ Rank(u) < Rank(e.get)

\* When init reaches e, it has acquired u or missed it.
TriedBefore(E, e, u) == \E x \in E : x.get = u /\ Rank(u) < Rank(e.get)

\* The label of e fits what init has done by then: it releases only what was
\* tried or is excused, and nothing deadly, it releases all that may be held but
\* the residue, and the residue was tried and is left alone.
SoundFailure(d, E, e) ==
  e.label \notin Passing =>
    /\ \A x \in LabelSet(d, e.label) : x \in Excused(e.get) \/ TriedBefore(E, e, x)
    /\ LabelSet(d, e.label) \cap Missable \subseteq Harmless
    /\ \A x \in E : Rank(x.get) < Rank(e.get) =>
         \/ x.get \in Residue(d, e.get)
         \/ \E y \in LabelSet(d, e.label) : x.get \in Released(y)
    /\ \A r \in Residue(d, e.get) :
         /\ TriedBefore(E, e, r)
         /\ \A y \in LabelSet(d, e.label) : r \notin Released(y)

\* The exit list X fits the init list E: it names all that may be held, all that
\* a resource rests on is acquired before it, or asked for by it, what it names
\* was tried, and what is fatal to miss it does not pass by.
SoundExit(d, E, X) ==
  /\ \A e \in E : \/ \E x \in X : e.get \in Released(x)
                  \/ e.get = "thread1" /\ d \in SelfEnding
  /\ \A e \in E : \A u \in Under(e.get) \ Needs(e.get) : SureBefore(E, e, u)
  /\ \A x \in X : x = "rootattr" \/ \E e \in E : e.get = x
  /\ \A e \in E : e.label = "none" =>
       /\ e.get \in Missable
       /\ e.get \in Fatal => Trigger(e.get) \in X
  /\ "device" \in X => "class" \in X

\* The release list of a label names its set, dependents first.
LabelSound(d, labels, l) ==
  IF l = "out" THEN labels[l] = <<>>
  ELSE Enumerates(labels[l], LabelSet(d, l), LabelOrder)

\* The three lists of a driver are in order and fit each other: all that the
\* steps need to know of it.
Sound(d, dr, E, X) ==
  /\ E \subseteq Entry /\ X \subseteq Releases
  /\ Enumerates(dr.init, E, InitOrder)
  /\ Enumerates(dr.exit, X, ExitOrder)
  /\ \A e \in E : SoundFailure(d, E, e)
  /\ SoundExit(d, E, X)
  /\ \A e \in E : e.label \notin Passing => LabelSound(d, dr.labels, e.label)

\* The statements of Base.
BaseSet == {Try("region", "out"), Try("cdev", "r_class"),
            Unnoticed("class"), Unnoticed("device")}

\* The orders are by natural numbers; that of the labels is that of the exit
\* functions but for the cdev.
LEMMA Ranks ==
  /\ \A e \in Entry : InitOrder[e] = Rank(e.get) /\ InitOrder[e] \in Nat
  /\ \A x \in Releases : ExitOrder[x] \in Nat /\ LabelOrder[x] \in Nat
  /\ \A x \in Releases : LabelOrder[x] = IF x = "cdev" THEN 10 ELSE ExitOrder[x]
<1>1. \A r : Rank(r) \in Nat
  BY DEF Rank
<1>2. \A e \in Entry : InitOrder[e] = Rank(e.get)
  BY DEF InitOrder
<1>3. \A x \in Releases : ExitOrder[x] \in Nat
  BY DEF ExitOrder
<1>4. \A x \in Releases : LabelOrder[x] = IF x = "cdev" THEN 10 ELSE ExitOrder[x]
  BY DEF LabelOrder, ExitOrder
<1> QED
  BY <1>1, <1>2, <1>3, <1>4

\* A statement is an entry, ranked by what it acquires.
LEMMA EntryOrder ==
  /\ \A r \in Resources, l \in {"out", "r_class", "r_device", "r_sysfs", "irq", "r_netdev"} :
       Try(r, l) \in Entry /\ InitOrder[Try(r, l)] = Rank(r)
  /\ \A r \in Resources : Unnoticed(r) \in Entry /\ InitOrder[Unnoticed(r)] = Rank(r)
  /\ \A r \in Resources : Surely(r) \in Entry /\ InitOrder[Surely(r)] = Rank(r)
  /\ \A r \in Resources : Used(r) \in Entry /\ InitOrder[Used(r)] = Rank(r)
BY Ranks DEF Entry, Names, Try, Unnoticed, Surely, Used

\* The four statements all character drivers begin with are in order.
LEMMA BaseList == BaseSet \subseteq Entry /\ Enumerates(Base, BaseSet, InitOrder)
<1>1. BaseSet \subseteq Entry
  BY EntryOrder DEF BaseSet, Resources, Names
<1>2. Enumerates(<<Try("region", "out"), Try("cdev", "r_class"),
                   Unnoticed("class"), Unnoticed("device")>>, BaseSet, InitOrder)
  BY DEF Enumerates, BaseSet, InitOrder, Rank, Entry, Resources, Names, Try, Unnoticed
<1> QED
  BY <1>1, <1>2 DEF Base

\* The sysfs entry, the interrupt, the two threads and the proc entry.
SysfsSet == {Unnoticed("kobj"), Try("attr", "r_sysfs")}
IrqSet == {Try("irq", "irq")}
TwoSet == {Unnoticed("thread1"), Unnoticed("thread2")}
ProcSet == {Try("procdir", "r_device"), Unnoticed("procfile")}

\* The pieces that follow Base in an init function are in order, and where they
\* rank.
LEMMA PieceLists ==
  /\ SysfsSet \cup IrqSet \cup TwoSet \cup ProcSet \subseteq Entry
  /\ Enumerates(Sysfs, SysfsSet, InitOrder)
  /\ Enumerates(Irq, IrqSet, InitOrder)
  /\ Enumerates(TwoThreads, TwoSet, InitOrder)
  /\ Enumerates(<<Try("procdir", "r_device"), Unnoticed("procfile")>>, ProcSet, InitOrder)
  /\ \A x \in BaseSet : InitOrder[x] < 5
  /\ \A x \in SysfsSet \cup TwoSet \cup ProcSet : InitOrder[x] \in {5, 6}
  /\ \A x \in IrqSet : InitOrder[x] = 7
<1>1. SysfsSet \cup IrqSet \cup TwoSet \cup ProcSet \subseteq Entry
  BY EntryOrder DEF SysfsSet, IrqSet, TwoSet, ProcSet, Resources, Names
<1>2. /\ InitOrder[Unnoticed("kobj")] = 5 /\ InitOrder[Try("attr", "r_sysfs")] = 6
      /\ InitOrder[Unnoticed("thread1")] = 5 /\ InitOrder[Unnoticed("thread2")] = 6
      /\ InitOrder[Try("procdir", "r_device")] = 5 /\ InitOrder[Unnoticed("procfile")] = 6
      /\ InitOrder[Try("irq", "irq")] = 7
  BY EntryOrder DEF Rank, Resources, Names
<1>3. \A x \in BaseSet : InitOrder[x] < 5
  BY EntryOrder DEF BaseSet, Rank, Resources, Names
<1>4. /\ Enumerates(Sysfs, SysfsSet, InitOrder)
      /\ Enumerates(TwoThreads, TwoSet, InitOrder)
      /\ Enumerates(<<Try("procdir", "r_device"), Unnoticed("procfile")>>, ProcSet, InitOrder)
  BY <1>2, Two DEF Sysfs, TwoThreads, SysfsSet, TwoSet, ProcSet
<1>5. Enumerates(Irq, IrqSet, InitOrder)
  BY One DEF Irq, IrqSet
<1> QED
  BY <1>1, <1>2, <1>3, <1>4, <1>5 DEF SysfsSet, IrqSet, TwoSet, ProcSet

\* The init functions that are Base followed by pieces are in order.
LEMMA InitLists ==
  /\ Enumerates(Base \o Sysfs, BaseSet \cup SysfsSet, InitOrder)
  /\ Enumerates(Base \o Sysfs \o Irq, BaseSet \cup SysfsSet \cup IrqSet, InitOrder)
  /\ Enumerates(Base \o Irq, BaseSet \cup IrqSet, InitOrder)
  /\ Enumerates(Base \o TwoThreads, BaseSet \cup TwoSet, InitOrder)
  /\ Enumerates(Base \o <<Try("procdir", "r_device"), Unnoticed("procfile")>>,
                BaseSet \cup ProcSet, InitOrder)
<1>1. \A x \in BaseSet, y \in SysfsSet \cup TwoSet \cup ProcSet \cup IrqSet :
        InitOrder[x] < InitOrder[y]
  <2> SUFFICES ASSUME NEW x \in BaseSet, NEW y \in SysfsSet \cup TwoSet \cup ProcSet \cup IrqSet
               PROVE  InitOrder[x] < InitOrder[y]
    OBVIOUS
  <2>1. InitOrder[x] \in Nat /\ InitOrder[x] < 5
    BY PieceLists, BaseList, Ranks
  <2>2. InitOrder[y] \in {5, 6, 7}
    BY PieceLists
  <2> QED
    BY <2>1, <2>2
<1>2. Enumerates(Base \o Sysfs, BaseSet \cup SysfsSet, InitOrder)
  BY <1>1, BaseList, PieceLists, Both
<1>3. \A x \in BaseSet \cup SysfsSet, y \in IrqSet : InitOrder[x] < InitOrder[y]
  BY <1>1, PieceLists
<1>4. Enumerates(Base \o Sysfs \o Irq, BaseSet \cup SysfsSet \cup IrqSet, InitOrder)
  BY <1>2, <1>3, PieceLists, Both
<1>5. Enumerates(Base \o Irq, BaseSet \cup IrqSet, InitOrder)
  BY <1>1, BaseList, PieceLists, Both
<1>6. Enumerates(Base \o TwoThreads, BaseSet \cup TwoSet, InitOrder)
  BY <1>1, BaseList, PieceLists, Both
<1>7. Enumerates(Base \o <<Try("procdir", "r_device"), Unnoticed("procfile")>>,
                 BaseSet \cup ProcSet, InitOrder)
  BY <1>1, BaseList, PieceLists, Both
<1> QED
  BY <1>2, <1>4, <1>5, <1>6, <1>7

\* One more acquisition behind Base, and behind the interrupt.
LEMMA OneMore ==
  ASSUME NEW e \in Entry
  PROVE  /\ InitOrder[e] = 5 =>
              Enumerates(Append(Base, e), BaseSet \cup {e}, InitOrder)
         /\ InitOrder[e] = 8 =>
              Enumerates(Base \o Sysfs \o Irq \o <<e>>,
                         BaseSet \cup SysfsSet \cup IrqSet \cup {e}, InitOrder)
<1>1. ASSUME InitOrder[e] = 5
      PROVE  Enumerates(Append(Base, e), BaseSet \cup {e}, InitOrder)
  <2>1. \A x \in BaseSet : InitOrder[x] < InitOrder[e]
    BY <1>1, PieceLists
  <2> QED
    BY <2>1, BaseList, AndOne
<1>2. ASSUME InitOrder[e] = 8
      PROVE  Enumerates(Base \o Sysfs \o Irq \o <<e>>,
                        BaseSet \cup SysfsSet \cup IrqSet \cup {e}, InitOrder)
  <2>1. \A x \in BaseSet \cup SysfsSet \cup IrqSet, y \in {e} : InitOrder[x] < InitOrder[y]
    <3> SUFFICES ASSUME NEW x \in BaseSet \cup SysfsSet \cup IrqSet
                 PROVE  InitOrder[x] < InitOrder[e]
      OBVIOUS
    <3>1. InitOrder[x] \in Nat /\ (InitOrder[x] < 5 \/ InitOrder[x] \in {5, 6, 7})
      BY PieceLists, BaseList, Ranks
    <3> QED
      BY <1>2, <3>1
  <2>2. Enumerates(<<e>>, {e}, InitOrder)
    BY One
  <2> QED
    BY <2>1, <2>2, InitLists, Both
<1> QED
  BY <1>1, <1>2

\* What BaseExit and SysfsExit release.
BaseOff == {"device", "class", "cdev", "region"}
SysfsOff == {"kobj", "rootattr"} \cup BaseOff

\* The exit functions are in order.
LEMMA ExitLists ==
  /\ Enumerates(BaseExit, BaseOff, ExitOrder)
  /\ Enumerates(SysfsExit, SysfsOff, ExitOrder)
  /\ Enumerates(StopTwo \o BaseExit, {"thread1", "thread2"} \cup BaseOff, ExitOrder)
  /\ Enumerates(<<"device", "class", "region">>, {"device", "class", "region"}, ExitOrder)
  /\ \A x \in {"buffer", "procdir", "timer", "thread1", "irq"} :
       Enumerates(<<x>> \o BaseExit, {x} \cup BaseOff, ExitOrder)
  /\ Enumerates(<<"irq">> \o SysfsExit, {"irq"} \cup SysfsOff, ExitOrder)
  /\ \A x \in {"workqueue", "tasklet"} :
       Enumerates(<<x, "irq">> \o SysfsExit, {x, "irq"} \cup SysfsOff, ExitOrder)
  /\ Enumerates(<<"netdev", "netalloc">>, {"netdev", "netalloc"}, ExitOrder)
<1>1. /\ ExitOrder["device"] = 6 /\ ExitOrder["class"] = 7 /\ ExitOrder["cdev"] = 8
      /\ ExitOrder["region"] = 9 /\ ExitOrder["kobj"] = 4 /\ ExitOrder["rootattr"] = 5
      /\ ExitOrder["irq"] = 3 /\ ExitOrder["thread2"] = 2 /\ ExitOrder["netalloc"] = 2
      /\ \A x \in {"buffer", "procdir", "timer", "thread1", "workqueue", "tasklet", "netdev"} :
           ExitOrder[x] = 1
  BY DEF ExitOrder, Releases, Resources
<1>2. Enumerates(BaseExit, BaseOff, ExitOrder)
  BY <1>1 DEF Enumerates, BaseExit, BaseOff
<1>3. Enumerates(<<"kobj", "rootattr">>, {"kobj", "rootattr"}, ExitOrder)
  BY <1>1, Two
<1>4. Enumerates(SysfsExit, SysfsOff, ExitOrder)
  <2>1. \A x \in {"kobj", "rootattr"}, y \in BaseOff : ExitOrder[x] < ExitOrder[y]
    BY <1>1 DEF BaseOff
  <2> QED
    BY <1>2, <1>3, <2>1, Both DEF SysfsExit, SysfsOff
<1>5. Enumerates(StopTwo \o BaseExit, {"thread1", "thread2"} \cup BaseOff, ExitOrder)
  <2>1. Enumerates(StopTwo, {"thread1", "thread2"}, ExitOrder)
    BY <1>1, Two DEF StopTwo
  <2>2. \A x \in {"thread1", "thread2"}, y \in BaseOff : ExitOrder[x] < ExitOrder[y]
    BY <1>1 DEF BaseOff
  <2> QED
    BY <1>2, <2>1, <2>2, Both
<1>6. Enumerates(<<"device", "class", "region">>, {"device", "class", "region"}, ExitOrder)
  BY <1>1 DEF Enumerates
<1>7. ASSUME NEW x \in {"buffer", "procdir", "timer", "thread1", "irq"}
      PROVE  Enumerates(<<x>> \o BaseExit, {x} \cup BaseOff, ExitOrder)
  <2>1. Enumerates(<<x>>, {x}, ExitOrder)
    BY One
  <2>2. \A y \in {x}, z \in BaseOff : ExitOrder[y] < ExitOrder[z]
    BY <1>1 DEF BaseOff
  <2> QED
    BY <1>2, <2>1, <2>2, Both
<1>8. Enumerates(<<"irq">> \o SysfsExit, {"irq"} \cup SysfsOff, ExitOrder)
  <2>1. Enumerates(<<"irq">>, {"irq"}, ExitOrder)
    BY One
  <2>2. \A y \in {"irq"}, z \in SysfsOff : ExitOrder[y] < ExitOrder[z]
    BY <1>1 DEF BaseOff, SysfsOff
  <2> QED
    BY <1>4, <2>1, <2>2, Both
<1>9. ASSUME NEW x \in {"workqueue", "tasklet"}
      PROVE  Enumerates(<<x, "irq">> \o SysfsExit, {x, "irq"} \cup SysfsOff, ExitOrder)
  <2>1. Enumerates(<<x, "irq">>, {x, "irq"}, ExitOrder)
    BY <1>1, Two
  <2>2. \A y \in {x, "irq"}, z \in SysfsOff : ExitOrder[y] < ExitOrder[z]
    BY <1>1 DEF BaseOff, SysfsOff
  <2> QED
    BY <1>4, <2>1, <2>2, Both
<1>10. Enumerates(<<"netdev", "netalloc">>, {"netdev", "netalloc"}, ExitOrder)
  BY <1>1, Two
<1> QED
  BY <1>2, <1>4, <1>5, <1>6, <1>7, <1>8, <1>9, <1>10

\* The labels of a driver are in order, the irq label of the signal driver apart.
LEMMA LabelLists ==
  ASSUME NEW d, NEW tail,
         tail = IF d \in UnwindsCdev THEN <<"region", "cdev">> ELSE <<"region">>
  PROVE  /\ d # "Signal" => \A l \in {"out", "r_class", "r_device", "r_sysfs", "irq"} :
                              LabelSound(d, Labels(tail), l)
         /\ \A l \in {"out", "r_class", "r_device"} : LabelSound(d, Labels(tail), l)
<1>1. /\ LabelOrder["class"] = 7 /\ LabelOrder["cdev"] = 10
      /\ LabelOrder["region"] = 9 /\ LabelOrder["kobj"] = 4 /\ LabelOrder["rootattr"] = 5
      /\ LabelOrder["irq"] = 3
  BY DEF LabelOrder, ExitOrder, Releases, Resources
<1>2. Enumerates(tail, Tailing(d), LabelOrder)
  BY <1>1, One, Two DEF Tailing
<1>3. Enumerates(<<"class">> \o tail, {"class"} \cup Tailing(d), LabelOrder)
  <2>1. Enumerates(<<"class">>, {"class"}, LabelOrder)
    BY One
  <2>2. \A x \in {"class"}, y \in Tailing(d) : LabelOrder[x] < LabelOrder[y]
    BY <1>1 DEF Tailing
  <2> QED
    BY <1>2, <2>1, <2>2, Both
<1>4. Enumerates(<<"kobj", "rootattr">> \o (<<"class">> \o tail),
                 {"kobj", "rootattr"} \cup ({"class"} \cup Tailing(d)), LabelOrder)
  <2>1. Enumerates(<<"kobj", "rootattr">>, {"kobj", "rootattr"}, LabelOrder)
    BY <1>1, Two
  <2>2. \A x \in {"kobj", "rootattr"}, y \in {"class"} \cup Tailing(d) :
          LabelOrder[x] < LabelOrder[y]
    BY <1>1 DEF Tailing
  <2> QED
    BY <1>3, <2>1, <2>2, Both
<1>5. Enumerates(<<"irq">> \o (<<"kobj", "rootattr">> \o (<<"class">> \o tail)),
                 {"irq"} \cup ({"kobj", "rootattr"} \cup ({"class"} \cup Tailing(d))),
                 LabelOrder)
  <2>1. Enumerates(<<"irq">>, {"irq"}, LabelOrder)
    BY One
  <2>2. \A x \in {"irq"}, y \in {"kobj", "rootattr"} \cup ({"class"} \cup Tailing(d)) :
          LabelOrder[x] < LabelOrder[y]
    BY <1>1 DEF Tailing
  <2> QED
    BY <1>4, <2>1, <2>2, Both
<1>6. /\ Labels(tail)["out"] = <<>> /\ Labels(tail)["r_class"] = tail
      /\ Labels(tail)["r_device"] = <<"class">> \o tail
      /\ Labels(tail)["r_sysfs"] = <<"kobj", "rootattr">> \o (<<"class">> \o tail)
      /\ Labels(tail)["irq"] = <<"irq">> \o (<<"kobj", "rootattr">> \o (<<"class">> \o tail))
  BY DEF Labels
<1>7. LabelSound(d, Labels(tail), "out")
  BY <1>6 DEF LabelSound
<1>8. LabelSound(d, Labels(tail), "r_class")
  BY <1>2, <1>6 DEF LabelSound, LabelSet
<1>9. LabelSound(d, Labels(tail), "r_device")
  BY <1>3, <1>6 DEF LabelSound, LabelSet
<1>10. LabelSound(d, Labels(tail), "r_sysfs")
  BY <1>4, <1>6 DEF LabelSound, LabelSet
<1>11. d # "Signal" => LabelSound(d, Labels(tail), "irq")
  BY <1>5, <1>6 DEF LabelSound, LabelSet
<1> QED
  BY <1>7, <1>8, <1>9, <1>10, <1>11

-----------------------------------------------------------------------------
(* Every driver, family by family.                                         *)

\* The labels of a driver that has only usual ones are in order.
LEMMA UsualLabels ==
  ASSUME NEW d, d # "Signal", NEW E,
         \A e \in E : e.label \in {"none", "never", "used", "out", "r_class", "r_device", "r_sysfs",
                                  "irq"},
         NEW labels, labels = IF d \in UnwindsCdev THEN CdevDel ELSE NoCdevDel
  PROVE  \A e \in E : e.label \notin Passing => LabelSound(d, labels, e.label)
<1>1. \A l \in {"out", "r_class", "r_device", "r_sysfs", "irq"} : LabelSound(d, labels, l)
  BY LabelLists DEF CdevDel, NoCdevDel
<1> QED
  BY <1>1 DEF Passing

\* The failures of the statements of Base: what label each goes to fits what is
\* behind it.
LEMMA BaseFails ==
  ASSUME NEW d, NEW E, BaseSet \subseteq E, \A x \in E : x \in BaseSet \/ Rank(x.get) > 4
  PROVE  \A e \in BaseSet : SoundFailure(d, E, e)
<1>1. ASSUME NEW e \in BaseSet, e.label \notin Passing
      PROVE  e = Try("region", "out") \/ e = Try("cdev", "r_class")
  BY <1>1 DEF BaseSet, Unnoticed, Passing
<1>2. SoundFailure(d, E, Try("region", "out"))
  <2>1. \A x \in E : ~(Rank(x.get) < 1)
    BY DEF Rank
  <2>2. Residue(d, "region") = {} /\ LabelSet(d, "out") = {} /\ Rank("region") = 1
    BY DEF Residue, LabelSet, Rank
  <2> QED
    BY <2>1, <2>2 DEF SoundFailure, Try
<1>3. SoundFailure(d, E, Try("cdev", "r_class"))
  <2>1. \A x \in E : Rank(x.get) < 2 => x = Try("region", "out")
    BY DEF BaseSet, Rank, Try, Unnoticed
  <2>2. Residue(d, "cdev") = {} /\ LabelSet(d, "r_class") = Tailing(d)
    BY DEF Residue, LabelSet
  <2>3. TriedBefore(E, Try("cdev", "r_class"), "region")
    BY DEF TriedBefore, BaseSet, Rank, Try
  <2>4. Tailing(d) \in {{"region"}, {"region", "cdev"}} /\ "region" \in Released("region")
    BY DEF Tailing, Released
  <2>5. "cdev" \in Excused("cdev") /\ Rank("cdev") = 2
    BY DEF Excused, Rank
  <2>6. Tailing(d) \cap Missable \subseteq Harmless
    BY <2>4 DEF Missable, Harmless
  <2> QED
    BY <2>1, <2>2, <2>3, <2>4, <2>5, <2>6 DEF SoundFailure, Try
<1> QED
  BY <1>1, <1>2, <1>3 DEF SoundFailure

\* The failures behind Base in the drivers with a sysfs entry.
LEMMA SysfsFails ==
  ASSUME NEW d, d # "Signal", NEW E, BaseSet \cup SysfsSet \subseteq E,
         \A x \in E : x.get \in {"region", "cdev", "class", "device", "kobj", "attr", "irq",
                                "tasklet", "workqueue"},
         NEW e \in {Try("attr", "r_sysfs"), Try("irq", "irq"), Try("tasklet", "irq")},
         e.get = "tasklet" => IrqSet \subseteq E
  PROVE  SoundFailure(d, E, e)
<1> DEFINE L == LabelSet(d, e.label)
<1>1. /\ Rank("region") = 1 /\ Rank("cdev") = 2 /\ Rank("class") = 3 /\ Rank("device") = 4
      /\ Rank("kobj") = 5 /\ Rank("attr") = 6 /\ Rank("irq") = 7 /\ Rank("tasklet") = 8
      /\ Rank("workqueue") = 8
  BY DEF Rank
<1>2. \A u \in {"region", "cdev", "class", "device", "kobj"} : TriedBefore(E, e, u)
  BY <1>1 DEF TriedBefore, BaseSet, SysfsSet, Try, Unnoticed
<1>3. /\ {"kobj", "rootattr", "class"} \cup Tailing(d) \subseteq L
      /\ L \subseteq {"irq", "kobj", "rootattr", "class"} \cup Tailing(d)
      /\ e.get # "attr" => "irq" \in L
      /\ e.get = "attr" => "irq" \notin L
  <2>1. e.label = "r_sysfs" => L = {"kobj", "rootattr"} \cup ({"class"} \cup Tailing(d))
    BY DEF LabelSet
  <2>2. e.label = "irq" => L = {"irq"} \cup ({"kobj", "rootattr"} \cup ({"class"} \cup Tailing(d)))
    BY DEF LabelSet
  <2>3. \/ e.get = "attr" /\ e.label = "r_sysfs"
        \/ e.get \in {"irq", "tasklet"} /\ e.label = "irq"
    BY DEF Try
  <2>4. "irq" \notin {"kobj", "rootattr", "class"} \cup Tailing(d)
    BY DEF Tailing
  <2> HIDE DEF L
  <2> QED
    BY <2>1, <2>2, <2>3, <2>4
<1>4. Tailing(d) = IF d \in UnwindsCdev THEN {"region", "cdev"} ELSE {"region"}
  BY DEF Tailing
<1>5. Residue(d, e.get) = {"device"} \cup (IF d \in UnwindsCdev THEN {} ELSE {"cdev"})
  BY DEF Residue, Try
<1> HIDE DEF L
<1>6. \A x \in L : x \in Excused(e.get) \/ TriedBefore(E, e, x)
  <2>1. e.get = "irq" => "irq" \in Excused(e.get)
    BY DEF Excused
  <2>2. e.get = "tasklet" => TriedBefore(E, e, "irq")
    BY <1>1 DEF TriedBefore, IrqSet, Try
  <2>3. e.get \in {"attr", "irq", "tasklet"}
    BY DEF Try
  <2>4. "rootattr" \in Excused(e.get)
    BY DEF Excused
  <2> QED
    BY <1>2, <1>3, <1>4, <2>1, <2>2, <2>3, <2>4
<1>7. L \cap Missable \subseteq Harmless
  BY <1>3, <1>4 DEF Missable, Harmless
<1>8. ASSUME NEW x \in E, Rank(x.get) < Rank(e.get)
      PROVE  x.get \in Residue(d, e.get) \/ \E y \in L : x.get \in Released(y)
  <2>1. /\ x.get \in {"region", "cdev", "class", "device", "kobj", "attr", "irq"}
        /\ x.get = "attr" => e.get # "attr"
        /\ x.get = "irq" => e.get = "tasklet"
    BY <1>1, <1>8 DEF Try
  <2>2. \A r \in {"region", "cdev", "class", "irq", "kobj"} : r \in Released(r)
    BY DEF Released
  <2>3. "attr" \in Released("kobj")
    BY DEF Released
  <2> QED
    BY <1>3, <1>4, <1>5, <2>1, <2>2, <2>3
<1>9. ASSUME NEW r \in Residue(d, e.get)
      PROVE  TriedBefore(E, e, r) /\ \A y \in L : r \notin Released(y)
  BY <1>2, <1>3, <1>4, <1>5 DEF Released
<1> QED
  BY <1>6, <1>7, <1>8, <1>9 DEF SoundFailure, L

\* Ordered lists that fit each other make a driver sound.
LEMMA Fits ==
  ASSUME NEW d, NEW init, NEW labels, NEW exit, Drivers[d] = Driver(init, labels, exit),
         NEW E, NEW X, E \subseteq Entry /\ X \subseteq Releases,
         Enumerates(init, E, InitOrder), Enumerates(exit, X, ExitOrder),
         \A e \in E : SoundFailure(d, E, e), SoundExit(d, E, X),
         \A e \in E : e.label \notin Passing =>
                       LabelSound(d, Drivers[d].labels, e.label)
  PROVE  Sound(d, Drivers[d], E, X)
<1>1. Drivers[d].init = init /\ Drivers[d].exit = exit
  BY DEF Driver
<1> QED
  BY <1>1 DEF Sound

\* The driver families, one after the other: each has its three lists in order
\* and fitting each other.  The drivers with a dynamic number and nothing else.
LEMMA Majors ==
  \A d \in {"DynamicMajor", "ManualNode"} :
    \E E, X : Sound(d, Drivers[d], E, X)
<1> TAKE d \in {"DynamicMajor", "ManualNode"}
<1> DEFINE E == {Try("region", "out")}
           X == {"region"}
<1>1. Drivers[d] = Driver(<<Try("region", "out")>>, NoCdevDel, <<"region">>)
  BY DEF Drivers, DynamicMajor, ManualNode
<1>2. E \subseteq Entry /\ X \subseteq Releases
  <2>1. E \subseteq Entry
    BY BaseList, PieceLists, EntryOrder DEF Resources, Names
  <2> QED
    BY <2>1 DEF Releases, Resources
<1>3. Enumerates(<<Try("region", "out")>>, E, InitOrder)
  BY One
<1>4. Enumerates(<<"region">>, X, ExitOrder)
  BY One
<1>5. \A e \in E : SoundFailure(d, E, e)
  BY SMTT(60) DEF SoundFailure, TriedBefore, Rank, LabelSet, Tailing, Residue,
     Excused, Released, UnwindsCdev, Passing, Missable, Harmless, Try
<1>6. SoundExit(d, E, X)
  BY SMTT(60) DEF SoundExit, SureBefore, Rank, Released, Under, Needs,
     SelfEnding, Missable, Fatal, Trigger, Try
<1>7. \A e \in E : e.label \notin Passing =>
                  LabelSound(d, Drivers[d].labels, e.label)
  <2>1. \A e \in E : e.label \in {"none", "never", "used", "out", "r_class", "r_device", "r_sysfs",
                                "irq"}
    BY DEF Try
  <2>2. Drivers[d].labels = IF d \in UnwindsCdev THEN CdevDel ELSE NoCdevDel
    BY <1>1 DEF Driver, UnwindsCdev
  <2> QED
    BY <2>1, <2>2, UsualLabels
<1>8. Sound(d, Drivers[d], E, X)
  BY <1>1, <1>2, <1>3, <1>4, <1>5, <1>6, <1>7, Fits
<1> QED
  BY <1>8

\* The driver with a fixed major number, which it does not check.
LEMMA StaticMajors == \E E, X : Sound("StaticMajor", Drivers["StaticMajor"], E, X)
<1> DEFINE d == "StaticMajor"
<1> DEFINE E == {Unnoticed("region")}
           X == {"region"}
<1>1. Drivers[d] = Driver(<<Unnoticed("region")>>, NoCdevDel, <<"region">>)
  BY DEF Drivers, StaticMajor
<1>2. E \subseteq Entry /\ X \subseteq Releases
  <2>1. E \subseteq Entry
    BY BaseList, PieceLists, EntryOrder DEF Resources, Names
  <2> QED
    BY <2>1 DEF Releases, Resources
<1>3. Enumerates(<<Unnoticed("region")>>, E, InitOrder)
  BY One
<1>4. Enumerates(<<"region">>, X, ExitOrder)
  BY One
<1>5. \A e \in E : SoundFailure(d, E, e)
  BY SMTT(60) DEF SoundFailure, TriedBefore, Rank, LabelSet, Tailing, Residue,
     Excused, Released, UnwindsCdev, Passing, Missable, Harmless, Unnoticed
<1>6. SoundExit(d, E, X)
  BY SMTT(60) DEF SoundExit, SureBefore, Rank, Released, Under, Needs,
     SelfEnding, Missable, Fatal, Trigger, Unnoticed
<1>7. \A e \in E : e.label \notin Passing =>
                  LabelSound(d, Drivers[d].labels, e.label)
  <2>1. \A e \in E : e.label \in {"none", "never", "used", "out", "r_class", "r_device", "r_sysfs",
                                "irq"}
    BY DEF Unnoticed
  <2>2. Drivers[d].labels = IF d \in UnwindsCdev THEN CdevDel ELSE NoCdevDel
    BY <1>1 DEF Driver, UnwindsCdev
  <2> QED
    BY <2>1, <2>2, UsualLabels
<1>8. Sound(d, Drivers[d], E, X)
  BY <1>1, <1>2, <1>3, <1>4, <1>5, <1>6, <1>7, Fits
<1> QED
  BY <1>8

\* The driver with a device node and no cdev.
LEMMA AutoNodes == \E E, X : Sound("AutoNode", Drivers["AutoNode"], E, X)
<1> DEFINE d == "AutoNode"
<1> DEFINE E == {Try("region", "out"), Unnoticed("class"), Unnoticed("device")}
           X == {"device", "class", "region"}
<1>1. Drivers[d] = Driver(<<Try("region", "out"), Unnoticed("class"),
                             Unnoticed("device")>>,
                           NoCdevDel, <<"device", "class", "region">>)
  BY DEF Drivers, AutoNode
<1>2. E \subseteq Entry /\ X \subseteq Releases
  <2>1. E \subseteq Entry
    BY BaseList, PieceLists, EntryOrder DEF Resources, Names
  <2> QED
    BY <2>1 DEF Releases, Resources
<1>3. Enumerates(<<Try("region", "out"), Unnoticed("class"), Unnoticed("device")>>,
                 E, InitOrder)
  BY DEF Enumerates, InitOrder, Rank, Entry, Resources, Names, Try, Unnoticed
<1>4. Enumerates(<<"device", "class", "region">>, X, ExitOrder)
  BY ExitLists
<1>5. \A e \in E : SoundFailure(d, E, e)
  BY SMTT(60) DEF SoundFailure, TriedBefore, Rank, LabelSet, Tailing, Residue,
     Excused, Released, UnwindsCdev, Passing, Missable, Harmless, Try, Unnoticed
<1>6. SoundExit(d, E, X)
  BY SMTT(60) DEF SoundExit, SureBefore, Rank, Released, Under, Needs,
     SelfEnding, Missable, Fatal, Trigger, Try, Unnoticed
<1>7. \A e \in E : e.label \notin Passing =>
                  LabelSound(d, Drivers[d].labels, e.label)
  <2>1. \A e \in E : e.label \in {"none", "never", "used", "out", "r_class", "r_device", "r_sysfs",
                                "irq"}
    BY DEF Try, Unnoticed
  <2>2. Drivers[d].labels = IF d \in UnwindsCdev THEN CdevDel ELSE NoCdevDel
    BY <1>1 DEF Driver, UnwindsCdev
  <2> QED
    BY <2>1, <2>2, UsualLabels
<1>8. Sound(d, Drivers[d], E, X)
  BY <1>1, <1>2, <1>3, <1>4, <1>5, <1>6, <1>7, Fits
<1> QED
  BY <1>8

\* The drivers with a cdev and a device node only.
LEMMA Plain ==
  \A d \in {"FileOps", "Ioctl", "ExportDefinition", "ExportCaller"} :
    \E E, X : Sound(d, Drivers[d], E, X)
<1> TAKE d \in {"FileOps", "Ioctl", "ExportDefinition", "ExportCaller"}
<1> DEFINE E == BaseSet
           X == BaseOff
<1>1. Drivers[d] = Driver(Base, NoCdevDel, BaseExit)
  BY DEF Drivers, FileOps, Ioctl, ExportDefinition, ExportCaller
<1>2. E \subseteq Entry /\ X \subseteq Releases
  <2>1. E \subseteq Entry
    BY BaseList, PieceLists, EntryOrder DEF Resources, Names
  <2> QED
    BY <2>1 DEF Releases, Resources, BaseOff
<1>3. Enumerates(Base, E, InitOrder)
  BY BaseList
<1>4. Enumerates(BaseExit, X, ExitOrder)
  BY ExitLists
<1>5. \A e \in E : SoundFailure(d, E, e)
  BY SMTT(60) DEF SoundFailure, TriedBefore, Rank, LabelSet, Tailing, Residue,
     Excused, Released, UnwindsCdev, Passing, Missable, Harmless, BaseSet, BaseOff, Try, Unnoticed, Surely, Used
<1>6. SoundExit(d, E, X)
  BY SMTT(60) DEF SoundExit, SureBefore, Rank, Released, Under, Needs,
     SelfEnding, Missable, Fatal, Trigger, BaseSet, BaseOff, Try, Unnoticed, Surely, Used
<1>7. \A e \in E : e.label \notin Passing =>
                  LabelSound(d, Drivers[d].labels, e.label)
  <2>1. \A e \in E : e.label \in {"none", "never", "used", "out", "r_class", "r_device", "r_sysfs",
                                "irq"}
    BY DEF BaseSet, BaseOff, Try, Unnoticed, Surely, Used
  <2>2. Drivers[d].labels = IF d \in UnwindsCdev THEN CdevDel ELSE NoCdevDel
    BY <1>1 DEF Driver, UnwindsCdev
  <2> QED
    BY <2>1, <2>2, UsualLabels
<1>8. Sound(d, Drivers[d], E, X)
  BY <1>1, <1>2, <1>3, <1>4, <1>5, <1>6, <1>7, Fits
<1> QED
  BY <1>8

\* The driver with a kernel buffer.
LEMMA Buffers == \E E, X : Sound("RealDevice", Drivers["RealDevice"], E, X)
<1> DEFINE d == "RealDevice"
<1> DEFINE E == BaseSet \cup {Try("buffer", "r_device")}
           X == {"buffer"} \cup BaseOff
<1>1. Drivers[d] = Driver(Append(Base, Try("buffer", "r_device")),
                           NoCdevDel, <<"buffer">> \o BaseExit)
  BY DEF Drivers, RealDevice
<1>2. E \subseteq Entry /\ X \subseteq Releases
  <2>1. E \subseteq Entry
    BY BaseList, PieceLists, EntryOrder DEF Resources, Names
  <2> QED
    BY <2>1 DEF Releases, Resources, BaseOff
<1>3. Enumerates(Append(Base, Try("buffer", "r_device")), E, InitOrder)
  <2>1. Try("buffer", "r_device") \in Entry /\ InitOrder[Try("buffer", "r_device")] = 5
    BY EntryOrder DEF Resources, Names, Rank
  <2> QED
    BY <2>1, OneMore
<1>4. Enumerates(<<"buffer">> \o BaseExit, X, ExitOrder)
  BY ExitLists
<1>5. \A e \in E : SoundFailure(d, E, e)
  BY SMTT(60) DEF SoundFailure, TriedBefore, Rank, LabelSet, Tailing, Residue,
     Excused, Released, UnwindsCdev, Passing, Missable, Harmless, BaseSet, BaseOff, Try, Unnoticed, Surely, Used
<1>6. SoundExit(d, E, X)
  BY SMTT(60) DEF SoundExit, SureBefore, Rank, Released, Under, Needs,
     SelfEnding, Missable, Fatal, Trigger, BaseSet, BaseOff, Try, Unnoticed, Surely, Used
<1>7. \A e \in E : e.label \notin Passing =>
                  LabelSound(d, Drivers[d].labels, e.label)
  <2>1. \A e \in E : e.label \in {"none", "never", "used", "out", "r_class", "r_device", "r_sysfs",
                                "irq"}
    BY DEF BaseSet, BaseOff, Try, Unnoticed, Surely, Used
  <2>2. Drivers[d].labels = IF d \in UnwindsCdev THEN CdevDel ELSE NoCdevDel
    BY <1>1 DEF Driver, UnwindsCdev
  <2> QED
    BY <2>1, <2>2, UsualLabels
<1>8. Sound(d, Drivers[d], E, X)
  BY <1>1, <1>2, <1>3, <1>4, <1>5, <1>6, <1>7, Fits
<1> QED
  BY <1>8

\* The driver with a proc entry.
LEMMA Procs == \E E, X : Sound("Procfs", Drivers["Procfs"], E, X)
<1> DEFINE d == "Procfs"
<1> DEFINE E == BaseSet \cup ProcSet
           X == {"procdir"} \cup BaseOff
<1>1. Drivers[d] = Driver(Base \o <<Try("procdir", "r_device"), Unnoticed("procfile")>>,
                           NoCdevDel, <<"procdir">> \o BaseExit)
  BY DEF Drivers, Procfs
<1>2. E \subseteq Entry /\ X \subseteq Releases
  <2>1. E \subseteq Entry
    BY BaseList, PieceLists, EntryOrder DEF Resources, Names
  <2> QED
    BY <2>1 DEF Releases, Resources, BaseOff
<1>3. Enumerates(Base \o <<Try("procdir", "r_device"), Unnoticed("procfile")>>, E, InitOrder)
  BY InitLists
<1>4. Enumerates(<<"procdir">> \o BaseExit, X, ExitOrder)
  BY ExitLists
<1>5. \A e \in E : SoundFailure(d, E, e)
  BY SMTT(60) DEF SoundFailure, TriedBefore, Rank, LabelSet, Tailing, Residue,
     Excused, Released, UnwindsCdev, Passing, Missable, Harmless, BaseSet, ProcSet, BaseOff, Try, Unnoticed, Surely, Used
<1>6. SoundExit(d, E, X)
  BY SMTT(60) DEF SoundExit, SureBefore, Rank, Released, Under, Needs,
     SelfEnding, Missable, Fatal, Trigger, BaseSet, ProcSet, BaseOff, Try, Unnoticed, Surely, Used
<1>7. \A e \in E : e.label \notin Passing =>
                  LabelSound(d, Drivers[d].labels, e.label)
  <2>1. \A e \in E : e.label \in {"none", "never", "used", "out", "r_class", "r_device", "r_sysfs",
                                "irq"}
    BY DEF BaseSet, ProcSet, BaseOff, Try, Unnoticed, Surely, Used
  <2>2. Drivers[d].labels = IF d \in UnwindsCdev THEN CdevDel ELSE NoCdevDel
    BY <1>1 DEF Driver, UnwindsCdev
  <2> QED
    BY <2>1, <2>2, UsualLabels
<1>8. Sound(d, Drivers[d], E, X)
  BY <1>1, <1>2, <1>3, <1>4, <1>5, <1>6, <1>7, Fits
<1> QED
  BY <1>8

\* The wait and completion drivers, whose thread exit does not stop.
LEMMA Waits ==
  \A d \in {"WaitDynamic", "WaitStatic", "CompletionDynamic", "CompletionStatic"} :
    \E E, X : Sound(d, Drivers[d], E, X)
<1> TAKE d \in {"WaitDynamic", "WaitStatic", "CompletionDynamic", "CompletionStatic"}
<1> DEFINE E == BaseSet \cup {Used("thread1")}
           X == BaseOff
<1>1. Drivers[d] = Driver(Append(Base, Used("thread1")), NoCdevDel, BaseExit)
  BY DEF Drivers, WaitDynamic, WaitStatic, CompletionDynamic, CompletionStatic
<1>2. E \subseteq Entry /\ X \subseteq Releases
  <2>1. E \subseteq Entry
    BY BaseList, PieceLists, EntryOrder DEF Resources, Names
  <2> QED
    BY <2>1 DEF Releases, Resources, BaseOff
<1>3. Enumerates(Append(Base, Used("thread1")), E, InitOrder)
  <2>1. Used("thread1") \in Entry /\ InitOrder[Used("thread1")] = 5
    BY EntryOrder DEF Resources, Names, Rank
  <2> QED
    BY <2>1, OneMore
<1>4. Enumerates(BaseExit, X, ExitOrder)
  BY ExitLists
<1>5. \A e \in E : SoundFailure(d, E, e)
  BY SMTT(60) DEF SoundFailure, TriedBefore, Rank, LabelSet, Tailing, Residue,
     Excused, Released, UnwindsCdev, Passing, Missable, Harmless, BaseSet, BaseOff, Try, Unnoticed, Surely, Used
<1>6. SoundExit(d, E, X)
  BY SMTT(60) DEF SoundExit, SureBefore, Rank, Released, Under, Needs,
     SelfEnding, Missable, Fatal, Trigger, BaseSet, BaseOff, Try, Unnoticed, Surely, Used
<1>7. \A e \in E : e.label \notin Passing =>
                  LabelSound(d, Drivers[d].labels, e.label)
  <2>1. \A e \in E : e.label \in {"none", "never", "used", "out", "r_class", "r_device", "r_sysfs",
                                "irq"}
    BY DEF BaseSet, BaseOff, Try, Unnoticed, Surely, Used
  <2>2. Drivers[d].labels = IF d \in UnwindsCdev THEN CdevDel ELSE NoCdevDel
    BY <1>1 DEF Driver, UnwindsCdev
  <2> QED
    BY <2>1, <2>2, UsualLabels
<1>8. Sound(d, Drivers[d], E, X)
  BY <1>1, <1>2, <1>3, <1>4, <1>5, <1>6, <1>7, Fits
<1> QED
  BY <1>8

\* The sysfs driver.
LEMMA SysfsAttrs == \E E, X : Sound("SysfsAttr", Drivers["SysfsAttr"], E, X)
<1> DEFINE d == "SysfsAttr"
<1> DEFINE E == BaseSet \cup SysfsSet
           X == SysfsOff
<1>1. Drivers[d] = Driver(Base \o Sysfs, CdevDel, SysfsExit)
  BY DEF Drivers, SysfsAttr
<1>2. E \subseteq Entry /\ X \subseteq Releases
  <2>1. E \subseteq Entry
    BY BaseList, PieceLists, EntryOrder DEF Resources, Names
  <2> QED
    BY <2>1 DEF Releases, Resources, BaseOff, SysfsOff
<1>3. Enumerates(Base \o Sysfs, E, InitOrder)
  BY InitLists
<1>4. Enumerates(SysfsExit, X, ExitOrder)
  BY ExitLists
<1>5. \A e \in E : SoundFailure(d, E, e)
  <2>1. \A x \in E : x \in BaseSet \/ Rank(x.get) > 4
    BY DEF Rank, SysfsSet, Try, Unnoticed, Used
  <2>2. \A e \in BaseSet : SoundFailure(d, E, e)
    BY <2>1, BaseFails
  <2>3. \A x \in E : x.get \in {"region", "cdev", "class", "device", "kobj", "attr", "irq",
                                 "tasklet", "workqueue"}
    BY DEF BaseSet, SysfsSet, Try, Unnoticed
  <2>4. \A e \in E \ BaseSet :
          \/ e.label \in Passing
          \/ e \in {Try("attr", "r_sysfs"), Try("irq", "irq"), Try("tasklet", "irq")}
    BY DEF Passing, SysfsSet, Unnoticed
  <2>5. \A e \in E : e.get # "tasklet"
    BY DEF BaseSet, SysfsSet, Try, Unnoticed
  <2>6. \A e \in E \ BaseSet : e.label \notin Passing => SoundFailure(d, E, e)
    BY <2>3, <2>4, <2>5, SysfsFails
  <2> QED
    BY <2>2, <2>6 DEF SoundFailure
<1>6. SoundExit(d, E, X)
  BY SMTT(60) DEF SoundExit, SureBefore, Rank, Released, Under, Needs,
     SelfEnding, Missable, Fatal, Trigger, BaseSet, SysfsSet, SysfsOff, BaseOff, Try, Unnoticed, Surely, Used
<1>7. \A e \in E : e.label \notin Passing =>
                  LabelSound(d, Drivers[d].labels, e.label)
  <2>1. \A e \in E : e.label \in {"none", "never", "used", "out", "r_class", "r_device", "r_sysfs",
                                "irq"}
    BY DEF BaseSet, SysfsSet, SysfsOff, BaseOff, Try, Unnoticed, Surely, Used
  <2>2. Drivers[d].labels = IF d \in UnwindsCdev THEN CdevDel ELSE NoCdevDel
    BY <1>1 DEF Driver, UnwindsCdev
  <2> QED
    BY <2>1, <2>2, UsualLabels
<1>8. Sound(d, Drivers[d], E, X)
  BY <1>1, <1>2, <1>3, <1>4, <1>5, <1>6, <1>7, Fits
<1> QED
  BY <1>8

\* The poll, select and epoll driver.
LEMMA Polls == \E E, X : Sound("PollSelect", Drivers["PollSelect"], E, X)
<1> DEFINE d == "PollSelect"
<1> DEFINE E == BaseSet \cup SysfsSet
           X == SysfsOff
<1>1. Drivers[d] = Driver(Base \o Sysfs, NoCdevDel, SysfsExit)
  BY DEF Drivers, PollSelect
<1>2. E \subseteq Entry /\ X \subseteq Releases
  <2>1. E \subseteq Entry
    BY BaseList, PieceLists, EntryOrder DEF Resources, Names
  <2> QED
    BY <2>1 DEF Releases, Resources, BaseOff, SysfsOff
<1>3. Enumerates(Base \o Sysfs, E, InitOrder)
  BY InitLists
<1>4. Enumerates(SysfsExit, X, ExitOrder)
  BY ExitLists
<1>5. \A e \in E : SoundFailure(d, E, e)
  BY SMTT(60) DEF SoundFailure, TriedBefore, Rank, LabelSet, Tailing, Residue,
     Excused, Released, UnwindsCdev, Passing, Missable, Harmless, BaseSet, SysfsSet, SysfsOff, BaseOff,
     Try, Unnoticed, Surely, Used
<1>6. SoundExit(d, E, X)
  BY SMTT(60) DEF SoundExit, SureBefore, Rank, Released, Under, Needs,
     SelfEnding, Missable, Fatal, Trigger, BaseSet, SysfsSet, SysfsOff, BaseOff, Try, Unnoticed, Surely, Used
<1>7. \A e \in E : e.label \notin Passing =>
                  LabelSound(d, Drivers[d].labels, e.label)
  <2>1. \A e \in E : e.label \in {"none", "never", "used", "out", "r_class", "r_device", "r_sysfs",
                                "irq"}
    BY DEF BaseSet, SysfsSet, SysfsOff, BaseOff, Try, Unnoticed, Surely, Used
  <2>2. Drivers[d].labels = IF d \in UnwindsCdev THEN CdevDel ELSE NoCdevDel
    BY <1>1 DEF Driver, UnwindsCdev
  <2> QED
    BY <2>1, <2>2, UsualLabels
<1>8. Sound(d, Drivers[d], E, X)
  BY <1>1, <1>2, <1>3, <1>4, <1>5, <1>6, <1>7, Fits
<1> QED
  BY <1>8

\* The drivers with an interrupt and nothing behind it.
LEMMA Irqs ==
  \A d \in {"IrqOld", "IrqWorking", "GlobalWorkDynamic", "GlobalWorkStatic",
           "TaskletStatic"} :
    \E E, X : Sound(d, Drivers[d], E, X)
<1> TAKE d \in {"IrqOld", "IrqWorking", "GlobalWorkDynamic", "GlobalWorkStatic",
              "TaskletStatic"}
<1> DEFINE E == BaseSet \cup SysfsSet \cup IrqSet
           X == {"irq"} \cup SysfsOff
<1>1. Drivers[d] = Driver(Base \o Sysfs \o Irq, CdevDel, <<"irq">> \o SysfsExit)
  BY DEF Drivers, IrqOld, IrqWorking, GlobalWorkDynamic, GlobalWorkStatic,
     TaskletStatic
<1>2. E \subseteq Entry /\ X \subseteq Releases
  <2>1. E \subseteq Entry
    BY BaseList, PieceLists, EntryOrder DEF Resources, Names
  <2> QED
    BY <2>1 DEF Releases, Resources, BaseOff, SysfsOff
<1>3. Enumerates(Base \o Sysfs \o Irq, E, InitOrder)
  BY InitLists
<1>4. Enumerates(<<"irq">> \o SysfsExit, X, ExitOrder)
  BY ExitLists
<1>5. \A e \in E : SoundFailure(d, E, e)
  <2>1. \A x \in E : x \in BaseSet \/ Rank(x.get) > 4
    BY DEF Rank, SysfsSet, IrqSet, Try, Unnoticed, Used
  <2>2. \A e \in BaseSet : SoundFailure(d, E, e)
    BY <2>1, BaseFails
  <2>3. \A x \in E : x.get \in {"region", "cdev", "class", "device", "kobj", "attr", "irq",
                                 "tasklet", "workqueue"}
    BY DEF BaseSet, SysfsSet, IrqSet, Try, Unnoticed
  <2>4. \A e \in E \ BaseSet :
          \/ e.label \in Passing
          \/ e \in {Try("attr", "r_sysfs"), Try("irq", "irq"), Try("tasklet", "irq")}
    BY DEF Passing, SysfsSet, IrqSet, Unnoticed
  <2>5. \A e \in E : e.get # "tasklet"
    BY DEF BaseSet, SysfsSet, IrqSet, Try, Unnoticed
  <2>6. \A e \in E \ BaseSet : e.label \notin Passing => SoundFailure(d, E, e)
    BY <2>3, <2>4, <2>5, SysfsFails
  <2> QED
    BY <2>2, <2>6 DEF SoundFailure
<1>6. SoundExit(d, E, X)
  BY SMTT(60) DEF SoundExit, SureBefore, Rank, Released, Under, Needs,
     SelfEnding, Missable, Fatal, Trigger, BaseSet, SysfsSet, IrqSet, SysfsOff, BaseOff, Try, Unnoticed, Surely, Used
<1>7. \A e \in E : e.label \notin Passing =>
                  LabelSound(d, Drivers[d].labels, e.label)
  <2>1. \A e \in E : e.label \in {"none", "never", "used", "out", "r_class", "r_device", "r_sysfs",
                                "irq"}
    BY DEF BaseSet, SysfsSet, IrqSet, SysfsOff, BaseOff, Try, Unnoticed, Surely, Used
  <2>2. Drivers[d].labels = IF d \in UnwindsCdev THEN CdevDel ELSE NoCdevDel
    BY <1>1 DEF Driver, UnwindsCdev
  <2> QED
    BY <2>1, <2>2, UsualLabels
<1>8. Sound(d, Drivers[d], E, X)
  BY <1>1, <1>2, <1>3, <1>4, <1>5, <1>6, <1>7, Fits
<1> QED
  BY <1>8

\* The drivers with a work queue of their own, which they do not check.
LEMMA Queues ==
  \A d \in {"OwnWorkqueue", "LinkedList"} :
    \E E, X : Sound(d, Drivers[d], E, X)
<1> TAKE d \in {"OwnWorkqueue", "LinkedList"}
<1> DEFINE E == BaseSet \cup SysfsSet \cup IrqSet \cup {Unnoticed("workqueue")}
           X == {"workqueue", "irq"} \cup SysfsOff
<1>1. Drivers[d] = Driver(Base \o Sysfs \o Irq \o <<Unnoticed("workqueue")>>,
                           CdevDel, <<"workqueue", "irq">> \o SysfsExit)
  BY DEF Drivers, OwnWorkqueue, LinkedList
<1>2. E \subseteq Entry /\ X \subseteq Releases
  <2>1. E \subseteq Entry
    BY BaseList, PieceLists, EntryOrder DEF Resources, Names
  <2> QED
    BY <2>1 DEF Releases, Resources, BaseOff, SysfsOff
<1>3. Enumerates(Base \o Sysfs \o Irq \o <<Unnoticed("workqueue")>>, E, InitOrder)
  <2>1. Unnoticed("workqueue") \in Entry /\ InitOrder[Unnoticed("workqueue")] = 8
    BY EntryOrder DEF Resources, Names, Rank
  <2> QED
    BY <2>1, OneMore
<1>4. Enumerates(<<"workqueue", "irq">> \o SysfsExit, X, ExitOrder)
  BY ExitLists
<1>5. \A e \in E : SoundFailure(d, E, e)
  <2>1. \A x \in E : x \in BaseSet \/ Rank(x.get) > 4
    BY DEF Rank, SysfsSet, IrqSet, Try, Unnoticed, Used
  <2>2. \A e \in BaseSet : SoundFailure(d, E, e)
    BY <2>1, BaseFails
  <2>3. \A x \in E : x.get \in {"region", "cdev", "class", "device", "kobj", "attr", "irq",
                                 "tasklet", "workqueue"}
    BY DEF BaseSet, SysfsSet, IrqSet, Try, Unnoticed
  <2>4. \A e \in E \ BaseSet :
          \/ e.label \in Passing
          \/ e \in {Try("attr", "r_sysfs"), Try("irq", "irq"), Try("tasklet", "irq")}
    BY DEF Passing, SysfsSet, IrqSet, Unnoticed
  <2>5. \A e \in E : e.get # "tasklet"
    BY DEF BaseSet, SysfsSet, IrqSet, Try, Unnoticed
  <2>6. \A e \in E \ BaseSet : e.label \notin Passing => SoundFailure(d, E, e)
    BY <2>3, <2>4, <2>5, SysfsFails
  <2> QED
    BY <2>2, <2>6 DEF SoundFailure
<1>6. SoundExit(d, E, X)
  BY SMTT(60) DEF SoundExit, SureBefore, Rank, Released, Under, Needs,
     SelfEnding, Missable, Fatal, Trigger, BaseSet, SysfsSet, IrqSet, SysfsOff, BaseOff, Try, Unnoticed, Surely, Used
<1>7. \A e \in E : e.label \notin Passing =>
                  LabelSound(d, Drivers[d].labels, e.label)
  <2>1. \A e \in E : e.label \in {"none", "never", "used", "out", "r_class", "r_device", "r_sysfs",
                                "irq"}
    BY DEF BaseSet, SysfsSet, IrqSet, SysfsOff, BaseOff, Try, Unnoticed, Surely, Used
  <2>2. Drivers[d].labels = IF d \in UnwindsCdev THEN CdevDel ELSE NoCdevDel
    BY <1>1 DEF Driver, UnwindsCdev
  <2> QED
    BY <2>1, <2>2, UsualLabels
<1>8. Sound(d, Drivers[d], E, X)
  BY <1>1, <1>2, <1>3, <1>4, <1>5, <1>6, <1>7, Fits
<1> QED
  BY <1>8

\* The driver that allocates its tasklet.
LEMMA Tasklets == \E E, X : Sound("TaskletDynamic", Drivers["TaskletDynamic"], E, X)
<1> DEFINE d == "TaskletDynamic"
<1> DEFINE E == BaseSet \cup SysfsSet \cup IrqSet \cup {Try("tasklet", "irq")}
           X == {"tasklet", "irq"} \cup SysfsOff
<1>1. Drivers[d] = Driver(Base \o Sysfs \o Irq \o <<Try("tasklet", "irq")>>,
                           CdevDel, <<"tasklet", "irq">> \o SysfsExit)
  BY DEF Drivers, TaskletDynamic
<1>2. E \subseteq Entry /\ X \subseteq Releases
  <2>1. E \subseteq Entry
    BY BaseList, PieceLists, EntryOrder DEF Resources, Names
  <2> QED
    BY <2>1 DEF Releases, Resources, BaseOff, SysfsOff
<1>3. Enumerates(Base \o Sysfs \o Irq \o <<Try("tasklet", "irq")>>, E, InitOrder)
  <2>1. Try("tasklet", "irq") \in Entry /\ InitOrder[Try("tasklet", "irq")] = 8
    BY EntryOrder DEF Resources, Names, Rank
  <2> QED
    BY <2>1, OneMore
<1>4. Enumerates(<<"tasklet", "irq">> \o SysfsExit, X, ExitOrder)
  BY ExitLists
<1>5. \A e \in E : SoundFailure(d, E, e)
  <2>1. \A x \in E : x \in BaseSet \/ Rank(x.get) > 4
    BY DEF Rank, SysfsSet, IrqSet, Try, Unnoticed, Used
  <2>2. \A e \in BaseSet : SoundFailure(d, E, e)
    BY <2>1, BaseFails
  <2>3. \A x \in E : x.get \in {"region", "cdev", "class", "device", "kobj", "attr", "irq",
                                 "tasklet", "workqueue"}
    BY DEF BaseSet, SysfsSet, IrqSet, Try, Unnoticed
  <2>4. \A e \in E \ BaseSet :
          \/ e.label \in Passing
          \/ e \in {Try("attr", "r_sysfs"), Try("irq", "irq"), Try("tasklet", "irq")}
    BY DEF Passing, SysfsSet, IrqSet, Unnoticed
  <2>5. IrqSet \subseteq E
    OBVIOUS
  <2>6. \A e \in E \ BaseSet : e.label \notin Passing => SoundFailure(d, E, e)
    BY <2>3, <2>4, <2>5, SysfsFails
  <2> QED
    BY <2>2, <2>6 DEF SoundFailure
<1>6. SoundExit(d, E, X)
  BY SMTT(60) DEF SoundExit, SureBefore, Rank, Released, Under, Needs,
     SelfEnding, Missable, Fatal, Trigger, BaseSet, SysfsSet, IrqSet, SysfsOff, BaseOff, Try, Unnoticed, Surely, Used
<1>7. \A e \in E : e.label \notin Passing =>
                  LabelSound(d, Drivers[d].labels, e.label)
  <2>1. \A e \in E : e.label \in {"none", "never", "used", "out", "r_class", "r_device", "r_sysfs",
                                "irq"}
    BY DEF BaseSet, SysfsSet, IrqSet, SysfsOff, BaseOff, Try, Unnoticed, Surely, Used
  <2>2. Drivers[d].labels = IF d \in UnwindsCdev THEN CdevDel ELSE NoCdevDel
    BY <1>1 DEF Driver, UnwindsCdev
  <2> QED
    BY <2>1, <2>2, UsualLabels
<1>8. Sound(d, Drivers[d], E, X)
  BY <1>1, <1>2, <1>3, <1>4, <1>5, <1>6, <1>7, Fits
<1> QED
  BY <1>8

\* The driver with one kernel thread.
LEMMA OneThread == \E E, X : Sound("Kthread", Drivers["Kthread"], E, X)
<1> DEFINE d == "Kthread"
<1> DEFINE E == BaseSet \cup {Used("thread1")}
           X == {"thread1"} \cup BaseOff
<1>1. Drivers[d] = Driver(Append(Base, Used("thread1")),
                           CdevDel, <<"thread1">> \o BaseExit)
  BY DEF Drivers, Kthread
<1>2. E \subseteq Entry /\ X \subseteq Releases
  <2>1. E \subseteq Entry
    BY BaseList, PieceLists, EntryOrder DEF Resources, Names
  <2> QED
    BY <2>1 DEF Releases, Resources, BaseOff
<1>3. Enumerates(Append(Base, Used("thread1")), E, InitOrder)
  <2>1. Used("thread1") \in Entry /\ InitOrder[Used("thread1")] = 5
    BY EntryOrder DEF Resources, Names, Rank
  <2> QED
    BY <2>1, OneMore
<1>4. Enumerates(<<"thread1">> \o BaseExit, X, ExitOrder)
  BY ExitLists
<1>5. \A e \in E : SoundFailure(d, E, e)
  <2>1. \A x \in E : x \in BaseSet \/ Rank(x.get) > 4
    BY DEF Rank, Try, Unnoticed, Used
  <2>2. \A e \in BaseSet : SoundFailure(d, E, e)
    BY <2>1, BaseFails
  <2>3. \A e \in E \ BaseSet : e.label \in Passing
    BY DEF Passing, Unnoticed, Used
  <2> QED
    BY <2>2, <2>3 DEF SoundFailure
<1>6. SoundExit(d, E, X)
  BY SMTT(60) DEF SoundExit, SureBefore, Rank, Released, Under, Needs,
     SelfEnding, Missable, Fatal, Trigger, BaseSet, BaseOff, Try, Unnoticed, Surely, Used
<1>7. \A e \in E : e.label \notin Passing =>
                  LabelSound(d, Drivers[d].labels, e.label)
  <2>1. \A e \in E : e.label \in {"none", "never", "used", "out", "r_class", "r_device", "r_sysfs",
                                "irq"}
    BY DEF BaseSet, BaseOff, Try, Unnoticed, Surely, Used
  <2>2. Drivers[d].labels = IF d \in UnwindsCdev THEN CdevDel ELSE NoCdevDel
    BY <1>1 DEF Driver, UnwindsCdev
  <2> QED
    BY <2>1, <2>2, UsualLabels
<1>8. Sound(d, Drivers[d], E, X)
  BY <1>1, <1>2, <1>3, <1>4, <1>5, <1>6, <1>7, Fits
<1> QED
  BY <1>8

\* The lock drivers, with two kernel threads.
LEMMA Threaded ==
  \A d \in {"Mutex", "Spinlock", "RwSpinlock", "Atomic", "Seqlock"} :
    \E E, X : Sound(d, Drivers[d], E, X)
<1> TAKE d \in {"Mutex", "Spinlock", "RwSpinlock", "Atomic", "Seqlock"}
<1> DEFINE E == BaseSet \cup TwoSet
           X == {"thread1", "thread2"} \cup BaseOff
<1>1. Drivers[d] = Driver(Base \o TwoThreads, CdevDel, StopTwo \o BaseExit)
  BY DEF Drivers, Mutex, Spinlock, RwSpinlock, Atomic, Seqlock
<1>2. E \subseteq Entry /\ X \subseteq Releases
  <2>1. E \subseteq Entry
    BY BaseList, PieceLists, EntryOrder DEF Resources, Names
  <2> QED
    BY <2>1 DEF Releases, Resources, BaseOff
<1>3. Enumerates(Base \o TwoThreads, E, InitOrder)
  BY InitLists
<1>4. Enumerates(StopTwo \o BaseExit, X, ExitOrder)
  BY ExitLists
<1>5. \A e \in E : SoundFailure(d, E, e)
  <2>1. \A x \in E : x \in BaseSet \/ Rank(x.get) > 4
    BY DEF Rank, TwoSet, Try, Unnoticed, Used
  <2>2. \A e \in BaseSet : SoundFailure(d, E, e)
    BY <2>1, BaseFails
  <2>3. \A e \in E \ BaseSet : e.label \in Passing
    BY DEF Passing, TwoSet, Unnoticed, Used
  <2> QED
    BY <2>2, <2>3 DEF SoundFailure
<1>6. SoundExit(d, E, X)
  BY SMTT(60) DEF SoundExit, SureBefore, Rank, Released, Under, Needs,
     SelfEnding, Missable, Fatal, Trigger, BaseSet, TwoSet, BaseOff, Try, Unnoticed, Surely, Used
<1>7. \A e \in E : e.label \notin Passing =>
                  LabelSound(d, Drivers[d].labels, e.label)
  <2>1. \A e \in E : e.label \in {"none", "never", "used", "out", "r_class", "r_device", "r_sysfs",
                                "irq"}
    BY DEF BaseSet, TwoSet, BaseOff, Try, Unnoticed, Surely, Used
  <2>2. Drivers[d].labels = IF d \in UnwindsCdev THEN CdevDel ELSE NoCdevDel
    BY <1>1 DEF Driver, UnwindsCdev
  <2> QED
    BY <2>1, <2>2, UsualLabels
<1>8. Sound(d, Drivers[d], E, X)
  BY <1>1, <1>2, <1>3, <1>4, <1>5, <1>6, <1>7, Fits
<1> QED
  BY <1>8

\* The signal driver: an interrupt and no sysfs entry.
LEMMA Signals == \E E, X : Sound("Signal", Drivers["Signal"], E, X)
<1> DEFINE d == "Signal"
<1> DEFINE E == BaseSet \cup IrqSet
           X == {"irq"} \cup BaseOff
<1>1. Drivers[d] = Driver(Base \o Irq,
                           [NoCdevDel EXCEPT !.irq = <<"irq", "class", "region">>],
                           <<"irq">> \o BaseExit)
  BY DEF Drivers, Signal
<1>2. E \subseteq Entry /\ X \subseteq Releases
  <2>1. E \subseteq Entry
    BY BaseList, PieceLists, EntryOrder DEF Resources, Names
  <2> QED
    BY <2>1 DEF Releases, Resources, BaseOff
<1>3. Enumerates(Base \o Irq, E, InitOrder)
  BY InitLists
<1>4. Enumerates(<<"irq">> \o BaseExit, X, ExitOrder)
  BY ExitLists
<1>5. \A e \in E : SoundFailure(d, E, e)
  <2>1. \A x \in E : x \in BaseSet \/ Rank(x.get) > 4
    BY DEF Rank, IrqSet, Try, Unnoticed, Used
  <2>2. \A e \in BaseSet : SoundFailure(d, E, e)
    BY <2>1, BaseFails
  <2>3. SoundFailure(d, E, Try("irq", "irq"))
    <3>1. LabelSet(d, "irq") = {"irq", "class", "region"} /\ Residue(d, "irq") = {"device", "cdev"}
      BY DEF LabelSet, Residue, UnwindsCdev
    <3>2. \A u \in {"region", "cdev", "class", "device"} : TriedBefore(E, Try("irq", "irq"), u)
      <4>1. /\ Try("irq", "irq").get = "irq" /\ Rank("irq") = 7 /\ Rank("region") = 1
            /\ Rank("cdev") = 2 /\ Rank("class") = 3 /\ Rank("device") = 4
        BY DEF Try, Rank
      <4>2. \A u \in {"region", "cdev", "class", "device"} : \E x \in E : x.get = u
        <5>1. /\ Try("region", "out").get = "region" /\ Try("cdev", "r_class").get = "cdev"
              /\ Unnoticed("class").get = "class" /\ Unnoticed("device").get = "device"
          BY DEF Try, Unnoticed
        <5>2. /\ Try("region", "out") \in E /\ Try("cdev", "r_class") \in E
              /\ Unnoticed("class") \in E /\ Unnoticed("device") \in E
          BY DEF BaseSet
        <5> QED
          BY <5>1, <5>2
      <4> QED
        BY <4>1, <4>2 DEF TriedBefore
    <3>3. \A x \in E : x.get \in {"region", "cdev", "class", "device", "irq"}
      BY DEF BaseSet, IrqSet, Try, Unnoticed
    <3>4. /\ "irq" \in Excused("irq") /\ {"class", "region"} \subseteq Harmless
          /\ "irq" \notin Missable
          /\ \A r \in {"irq", "class", "region"} : Released(r) = {r}
      BY DEF Excused, Harmless, Missable, Released
    <3>5. Try("irq", "irq").get = "irq" /\ Try("irq", "irq").label = "irq" /\ Rank("irq") = 7
      BY DEF Try, Rank
    <3>6. \A x \in E : x.get # "irq" =>
            \/ x.get \in Residue(d, "irq")
            \/ \E y \in LabelSet(d, "irq") : x.get \in Released(y)
      BY <3>1, <3>3, <3>4
    <3>7. \A r \in Residue(d, "irq") : \A y \in LabelSet(d, "irq") : r \notin Released(y)
      BY <3>1, <3>4
    <3>8. LabelSet(d, "irq") \cap Missable \subseteq Harmless
      BY <3>1, <3>4
    <3> QED
      BY <3>1, <3>2, <3>4, <3>5, <3>6, <3>7, <3>8 DEF SoundFailure
  <2> QED
    BY <2>2, <2>3 DEF IrqSet
<1>6. SoundExit(d, E, X)
  BY SMTT(60) DEF SoundExit, SureBefore, Rank, Released, Under, Needs,
     SelfEnding, Missable, Fatal, Trigger, BaseSet, IrqSet, BaseOff, Try, Unnoticed, Surely, Used
<1>7. \A e \in E : e.label \notin Passing =>
                  LabelSound(d, Drivers[d].labels, e.label)
  <2> DEFINE L == [NoCdevDel EXCEPT !.irq = <<"irq", "class", "region">>]
  <2>0. Drivers[d].labels = L
    BY <1>1 DEF Driver
  <2>1. /\ Drivers[d].labels["irq"] = <<"irq", "class", "region">>
        /\ \A l \in {"out", "r_class", "r_device"} : Drivers[d].labels[l] = NoCdevDel[l]
    BY <2>0 DEF NoCdevDel, Labels
  <2>2. \A l \in {"out", "r_class", "r_device"} : LabelSound(d, NoCdevDel, l)
    BY LabelLists DEF NoCdevDel, UnwindsCdev
  <2>3. \A l \in {"out", "r_class", "r_device"} : LabelSound(d, Drivers[d].labels, l)
    BY <2>1, <2>2 DEF LabelSound
  <2>4. LabelOrder["irq"] = 3 /\ LabelOrder["class"] = 7 /\ LabelOrder["region"] = 9
    BY DEF LabelOrder, ExitOrder, Releases, Resources
  <2>5. Enumerates(<<"irq", "class", "region">>, {"irq", "class", "region"}, LabelOrder)
    BY <2>4 DEF Enumerates
  <2>6. LabelSound(d, Drivers[d].labels, "irq")
    BY <2>1, <2>5 DEF LabelSound, LabelSet
  <2>7. \A e \in E : e.label \in {"none", "out", "r_class", "irq"}
    BY DEF BaseSet, IrqSet, BaseOff, Try, Unnoticed, Surely, Used
  <2> QED
    BY <2>3, <2>6, <2>7 DEF Passing
<1>8. Sound(d, Drivers[d], E, X)
  BY <1>1, <1>2, <1>3, <1>4, <1>5, <1>6, <1>7, Fits
<1> QED
  BY <1>8

\* The timer drivers, whose timer cannot fail to be armed.
LEMMA TimerDrivers ==
  \A d \in {"KernelTimer", "HrTimer"} :
    \E E, X : Sound(d, Drivers[d], E, X)
<1> TAKE d \in {"KernelTimer", "HrTimer"}
<1> DEFINE E == BaseSet \cup {Surely("timer")}
           X == {"timer"} \cup BaseOff
<1>1. Drivers[d] = Driver(Append(Base, Surely("timer")), NoCdevDel, <<"timer">> \o BaseExit)
  BY DEF Drivers, KernelTimer, HrTimer
<1>2. E \subseteq Entry /\ X \subseteq Releases
  <2>1. E \subseteq Entry
    BY BaseList, PieceLists, EntryOrder DEF Resources, Names
  <2> QED
    BY <2>1 DEF Releases, Resources, BaseOff
<1>3. Enumerates(Append(Base, Surely("timer")), E, InitOrder)
  <2>1. Surely("timer") \in Entry /\ InitOrder[Surely("timer")] = 5
    BY EntryOrder DEF Resources, Names, Rank
  <2> QED
    BY <2>1, OneMore
<1>4. Enumerates(<<"timer">> \o BaseExit, X, ExitOrder)
  BY ExitLists
<1>5. \A e \in E : SoundFailure(d, E, e)
  BY SMTT(60) DEF SoundFailure, TriedBefore, Rank, LabelSet, Tailing, Residue,
     Excused, Released, UnwindsCdev, Passing, Missable, Harmless, BaseSet, BaseOff, Try, Unnoticed, Surely, Used
<1>6. SoundExit(d, E, X)
  BY SMTT(60) DEF SoundExit, SureBefore, Rank, Released, Under, Needs,
     SelfEnding, Missable, Fatal, Trigger, BaseSet, BaseOff, Try, Unnoticed, Surely, Used
<1>7. \A e \in E : e.label \notin Passing =>
                  LabelSound(d, Drivers[d].labels, e.label)
  <2>1. \A e \in E : e.label \in {"none", "never", "used", "out", "r_class", "r_device", "r_sysfs",
                                "irq"}
    BY DEF BaseSet, BaseOff, Try, Unnoticed, Surely, Used
  <2>2. Drivers[d].labels = IF d \in UnwindsCdev THEN CdevDel ELSE NoCdevDel
    BY <1>1 DEF Driver, UnwindsCdev
  <2> QED
    BY <2>1, <2>2, UsualLabels
<1>8. Sound(d, Drivers[d], E, X)
  BY <1>1, <1>2, <1>3, <1>4, <1>5, <1>6, <1>7, Fits
<1> QED
  BY <1>8

\* The misc driver.
LEMMA Miscs == \E E, X : Sound("Misc", Drivers["Misc"], E, X)
<1> DEFINE d == "Misc"
<1> DEFINE E == {Try("misc", "out")}
           X == {"misc"}
<1>1. Drivers[d] = Driver(<<Try("misc", "out")>>, NoCdevDel, <<"misc">>)
  BY DEF Drivers, Misc
<1>2. E \subseteq Entry /\ X \subseteq Releases
  <2>1. E \subseteq Entry
    BY BaseList, PieceLists, EntryOrder DEF Resources, Names
  <2> QED
    BY <2>1 DEF Releases, Resources
<1>3. Enumerates(<<Try("misc", "out")>>, E, InitOrder)
  BY One
<1>4. Enumerates(<<"misc">>, X, ExitOrder)
  BY One
<1>5. \A e \in E : SoundFailure(d, E, e)
  BY SMTT(60) DEF SoundFailure, TriedBefore, Rank, LabelSet, Tailing, Residue,
     Excused, Released, UnwindsCdev, Passing, Missable, Harmless, Try
<1>6. SoundExit(d, E, X)
  BY SMTT(60) DEF SoundExit, SureBefore, Rank, Released, Under, Needs,
     SelfEnding, Missable, Fatal, Trigger, Try
<1>7. \A e \in E : e.label \notin Passing =>
                  LabelSound(d, Drivers[d].labels, e.label)
  <2>1. \A e \in E : e.label \in {"none", "never", "used", "out", "r_class", "r_device", "r_sysfs",
                                "irq"}
    BY DEF Try
  <2>2. Drivers[d].labels = IF d \in UnwindsCdev THEN CdevDel ELSE NoCdevDel
    BY <1>1 DEF Driver, UnwindsCdev
  <2> QED
    BY <2>1, <2>2, UsualLabels
<1>8. Sound(d, Drivers[d], E, X)
  BY <1>1, <1>2, <1>3, <1>4, <1>5, <1>6, <1>7, Fits
<1> QED
  BY <1>8

\* The network device driver.
LEMMA NetDevices == \E E, X : Sound("NetDevice", Drivers["NetDevice"], E, X)
<1> DEFINE d == "NetDevice"
<1> DEFINE E == {Used("netalloc"), Try("netdev", "r_netdev")}
           X == {"netdev", "netalloc"}
<1>1. Drivers[d] = Driver(<<Used("netalloc"), Try("netdev", "r_netdev")>>,
                           [r_netdev |-> <<"netalloc">>], <<"netdev", "netalloc">>)
  BY DEF Drivers, NetDevice
<1>2. E \subseteq Entry /\ X \subseteq Releases
  <2>1. E \subseteq Entry
    BY BaseList, PieceLists, EntryOrder DEF Resources, Names
  <2> QED
    BY <2>1 DEF Releases, Resources
<1>3. Enumerates(<<Used("netalloc"), Try("netdev", "r_netdev")>>, E, InitOrder)
  <2>1. /\ InitOrder[Used("netalloc")] = 1
        /\ InitOrder[Try("netdev", "r_netdev")] = 2
    BY EntryOrder DEF Rank, Resources, Names
  <2> QED
    BY <2>1, Two
<1>4. Enumerates(<<"netdev", "netalloc">>, X, ExitOrder)
  BY ExitLists
<1>5. \A e \in E : SoundFailure(d, E, e)
  BY SMTT(60) DEF SoundFailure, TriedBefore, Rank, LabelSet, Tailing, Residue,
     Excused, Released, UnwindsCdev, Passing, Missable, Harmless, Try, Used
<1>6. SoundExit(d, E, X)
  BY SMTT(60) DEF SoundExit, SureBefore, Rank, Released, Under, Needs,
     SelfEnding, Missable, Fatal, Trigger, Try, Used
<1>7. \A e \in E : e.label \notin Passing =>
                  LabelSound(d, Drivers[d].labels, e.label)
  <2>1. Drivers[d].labels["r_netdev"] = <<"netalloc">>
    BY <1>1 DEF Driver
  <2>2. Enumerates(<<"netalloc">>, {"netalloc"}, LabelOrder)
    BY One
  <2>3. LabelSound(d, Drivers[d].labels, "r_netdev")
    BY <2>1, <2>2 DEF LabelSound, LabelSet
  <2>4. \A e \in E : e.label \in {"used", "r_netdev"}
    BY DEF Try, Used
  <2> QED
    BY <2>3, <2>4 DEF Passing
<1>8. Sound(d, Drivers[d], E, X)
  BY <1>1, <1>2, <1>3, <1>4, <1>5, <1>6, <1>7, Fits
<1> QED
  BY <1>8

\* The netlink drivers, with one socket.
LEMMA Netlinks ==
  \A d \in {"NetlinkHello", "NetlinkUnicast", "NetlinkMulticast"} :
    \E E, X : Sound(d, Drivers[d], E, X)
<1> TAKE d \in {"NetlinkHello", "NetlinkUnicast", "NetlinkMulticast"}
<1> DEFINE E == {Try("nlsock", "out")}
           X == {"nlsock"}
<1>1. Drivers[d] = Driver(<<Try("nlsock", "out")>>, NoCdevDel, <<"nlsock">>)
  BY DEF Drivers, NetlinkHello, NetlinkUnicast, NetlinkMulticast
<1>2. E \subseteq Entry /\ X \subseteq Releases
  <2>1. E \subseteq Entry
    BY BaseList, PieceLists, EntryOrder DEF Resources, Names
  <2> QED
    BY <2>1 DEF Releases, Resources
<1>3. Enumerates(<<Try("nlsock", "out")>>, E, InitOrder)
  BY One
<1>4. Enumerates(<<"nlsock">>, X, ExitOrder)
  BY One
<1>5. \A e \in E : SoundFailure(d, E, e)
  BY SMTT(60) DEF SoundFailure, TriedBefore, Rank, LabelSet, Tailing, Residue,
     Excused, Released, UnwindsCdev, Passing, Missable, Harmless, Try
<1>6. SoundExit(d, E, X)
  BY SMTT(60) DEF SoundExit, SureBefore, Rank, Released, Under, Needs,
     SelfEnding, Missable, Fatal, Trigger, Try
<1>7. \A e \in E : e.label \notin Passing =>
                  LabelSound(d, Drivers[d].labels, e.label)
  <2>1. \A e \in E : e.label \in {"none", "never", "used", "out", "r_class", "r_device", "r_sysfs",
                                "irq"}
    BY DEF Try
  <2>2. Drivers[d].labels = IF d \in UnwindsCdev THEN CdevDel ELSE NoCdevDel
    BY <1>1 DEF Driver, UnwindsCdev
  <2> QED
    BY <2>1, <2>2, UsualLabels
<1>8. Sound(d, Drivers[d], E, X)
  BY <1>1, <1>2, <1>3, <1>4, <1>5, <1>6, <1>7, Fits
<1> QED
  BY <1>8

\* The netlink driver registered in every network namespace, unchecked.
LEMMA Namespaces == \E E, X : Sound("NetlinkNamespace", Drivers["NetlinkNamespace"], E, X)
<1> DEFINE d == "NetlinkNamespace"
<1> DEFINE E == {Unnoticed("pernet")}
           X == {"pernet"}
<1>1. Drivers[d] = Driver(<<Unnoticed("pernet")>>, NoCdevDel, <<"pernet">>)
  BY DEF Drivers, NetlinkNamespace
<1>2. E \subseteq Entry /\ X \subseteq Releases
  <2>1. E \subseteq Entry
    BY BaseList, PieceLists, EntryOrder DEF Resources, Names
  <2> QED
    BY <2>1 DEF Releases, Resources
<1>3. Enumerates(<<Unnoticed("pernet")>>, E, InitOrder)
  BY One
<1>4. Enumerates(<<"pernet">>, X, ExitOrder)
  BY One
<1>5. \A e \in E : SoundFailure(d, E, e)
  BY SMTT(60) DEF SoundFailure, TriedBefore, Rank, LabelSet, Tailing, Residue,
     Excused, Released, UnwindsCdev, Passing, Missable, Harmless, Unnoticed
<1>6. SoundExit(d, E, X)
  BY SMTT(60) DEF SoundExit, SureBefore, Rank, Released, Under, Needs,
     SelfEnding, Missable, Fatal, Trigger, Unnoticed
<1>7. \A e \in E : e.label \notin Passing =>
                  LabelSound(d, Drivers[d].labels, e.label)
  <2>1. \A e \in E : e.label \in {"none", "never", "used", "out", "r_class", "r_device", "r_sysfs",
                                "irq"}
    BY DEF Unnoticed
  <2>2. Drivers[d].labels = IF d \in UnwindsCdev THEN CdevDel ELSE NoCdevDel
    BY <1>1 DEF Driver, UnwindsCdev
  <2> QED
    BY <2>1, <2>2, UsualLabels
<1>8. Sound(d, Drivers[d], E, X)
  BY <1>1, <1>2, <1>3, <1>4, <1>5, <1>6, <1>7, Fits
<1> QED
  BY <1>8

\* Every driver of the repository is sound.
LEMMA AllSound == \A d \in DOMAIN Drivers : \E E, X : Sound(d, Drivers[d], E, X)
<1>1. DOMAIN Drivers = UNION {{"DynamicMajor", "ManualNode"},
                              {"StaticMajor"},
                              {"AutoNode"},
                              {"FileOps", "Ioctl", "ExportDefinition", "ExportCaller"},
                              {"RealDevice"},
                              {"Procfs"},
                              {"WaitDynamic", "WaitStatic", "CompletionDynamic",
                               "CompletionStatic"},
                              {"SysfsAttr"},
                              {"PollSelect"},
                              {"IrqOld", "IrqWorking", "GlobalWorkDynamic",
                               "GlobalWorkStatic",
                               "TaskletStatic"},
                              {"OwnWorkqueue", "LinkedList"},
                              {"TaskletDynamic"},
                              {"Kthread"},
                              {"Mutex", "Spinlock", "RwSpinlock", "Atomic", "Seqlock"},
                              {"Signal"},
                              {"KernelTimer", "HrTimer"},
                              {"Misc"},
                              {"NetDevice"},
                              {"NetlinkHello", "NetlinkUnicast", "NetlinkMulticast"},
                              {"NetlinkNamespace"}}
  BY DEF Drivers
<1> QED
  BY <1>1, Majors, StaticMajors, AutoNodes, Plain, Buffers, Procs, Waits,
     SysfsAttrs, Polls, Irqs, Queues, Tasklets, OneThread, Threaded, Signals,
     TimerDrivers, Miscs, NetDevices, Netlinks, Namespaces

-----------------------------------------------------------------------------
(* The invariant and the steps.                                            *)

\* The statements of init and of exit of the driver, and those left.
Entries == Listed(Drivers[driver].init)
Exits == Listed(Drivers[driver].exit)
Left == Listed(todo)

\* The statements init has behind it.
Past == IF phase = "init" THEN Entries \ Left ELSE Entries

\* The list left to do is the rest of one list of the driver, in its order.
TodoInv ==
  /\ phase = "init" => /\ Enumerates(todo, Left, InitOrder) /\ Left \subseteq Entries
                       /\ \A x \in Past, y \in Left : Rank(x.get) < Rank(y.get)
  /\ phase = "unwind" => Enumerates(todo, Left, LabelOrder) /\ Left \subseteq Releases
  /\ phase = "exit" => Enumerates(todo, Left, ExitOrder) /\ Left \subseteq Exits
  /\ phase \in {"unloaded", "failed"} => Left = {}

\* What is held and what was missed, told from what is left to do.  Init has got
\* or missed what it has behind it, and missed none that it checks; what is held
\* rests on what is held (but for a failed init).
InitInv ==
  /\ phase \in {"init", "live"} =>
       /\ \A r \in held \cup missed : \E e \in Past : e.get = r
       /\ \A e \in Past : e.get \in held \cup missed
       /\ \A e \in Past : e.label # "none" => e.get \in held
       /\ wild = {}
  /\ phase \in {"init", "live", "exit", "unloaded", "dead"} =>
       /\ failedAt = "none"
       /\ \A r \in held : Under(r) \subseteq held
  /\ missed \cap held = {}

\* In exit a release is left for all that is held, and the release on which it
\* dies is left for all whose loss is fatal.
ExitInv ==
  /\ phase \in {"exit", "unloaded"} =>
       \A r \in held : \/ \E x \in Left : r \in Released(x)
                       \/ r = "thread1" /\ driver \in SelfEnding
  /\ phase = "exit" => /\ \A r \in missed \cap Fatal : Trigger(r) \in Left
                       /\ "device" \in Left => "class" \in Left
  /\ phase = "unloaded" => missed \cap Fatal = {}
  /\ phase = "dead" => missed \cap Fatal # {}

\* The releases left hit what is held, was missed or is excused; while a label
\* unwinds, the residue is what is held and no release is left for.
WildInv ==
  /\ phase \in {"exit", "unwind"} =>
       \A x \in Left : x \in held \cup missed \cup Excused(failedAt)
  /\ phase = "unwind" => Left \cap Missable \subseteq Harmless /\ failedAt # "none"
  /\ wild \subseteq Excused(failedAt) \cup (missed \cap Harmless)
  /\ failedAt = "none" => "class" \notin wild
  /\ phase \in {"unwind", "failed"} =>
       \A r \in Resources :
         r \in Residue(driver, failedAt) \ missed
           <=> r \in held /\ \A x \in Left : r \notin Released(x)

HeldInv == InitInv /\ ExitInv /\ WildInv

\* A file is open only when the cdev or misc device has been there: not when it
\* was its own registration, or one before it, that failed.
OpenInv ==
  /\ opened > 0 => phase \notin {"exit", "unloaded"}
  /\ phase = "init" /\ opened > 0 => held \cap {"cdev", "misc"} # {}
  /\ phase \in {"unwind", "failed"} /\ failedAt \in {"region", "cdev", "misc"} =>
       opened = 0 /\ held \cap {"cdev", "misc"} = {}

\* The inductive invariant.  None of the properties is inductive alone: what is
\* held at the end depends on which statements were left in between.
IInv == TypeOK /\ TodoInv /\ HeldInv /\ OpenInv

\* The driver being loaded is sound, whichever it is.
LEMMA DriverSound == TypeOK => Sound(driver, Drivers[driver], Entries, Exits)
<1> SUFFICES ASSUME TypeOK PROVE Sound(driver, Drivers[driver], Entries, Exits)
  OBVIOUS
<1>1. driver \in DOMAIN Drivers
  BY ExploredAssumption DEF TypeOK
<1>2. PICK E, X : Sound(driver, Drivers[driver], E, X)
  BY <1>1, AllSound
<1>3. /\ Enumerates(Drivers[driver].init, E, InitOrder)
      /\ Enumerates(Drivers[driver].exit, X, ExitOrder)
  BY <1>2 DEF Sound
<1>4. Entries = E /\ Exits = X
  BY <1>3, ListedAll DEF Entries, Exits
<1> QED
  BY <1>2, <1>4

\* The invariant holds when a module begins to load.
LEMMA InitIInv == Init => IInv
<1> SUFFICES ASSUME Init PROVE IInv
  OBVIOUS
<1>1. TypeOK
  BY MaxOpenAssumption DEF Init, TypeOK, Phases
<1>2. Sound(driver, Drivers[driver], Entries, Exits)
  BY <1>1, DriverSound
<1>3. Left = Entries /\ phase = "init" /\ Past = {}
  BY DEF Init, Left, Entries, Past
<1>4. Enumerates(todo, Left, InitOrder)
  BY <1>2, <1>3 DEF Sound, Init
<1>5. TodoInv
  BY <1>3, <1>4 DEF TodoInv
<1>6. HeldInv
  BY <1>3 DEF Init, HeldInv, InitInv, ExitInv, WildInv
<1>7. OpenInv
  BY <1>3 DEF Init, OpenInv
<1> QED
  BY <1>1, <1>5, <1>6, <1>7 DEF IInv

\* The next statement of init is one of its entries, those ranked before it are
\* the ones done, and none is left behind the last.
LEMMA NextEntry ==
  ASSUME IInv, phase = "init", NEW e, e = Head(todo)
  PROVE  /\ e \in Left /\ e \in Entries /\ e \in Entry
         /\ \A x \in Entries : Rank(x.get) < Rank(e.get) <=> x \in Past
         /\ \A x \in Left \ {e} : Rank(e.get) < Rank(x.get)
         /\ Listed(Tail(todo)) = Left \ {e}
         /\ Len(todo) = 1 => Left = {e} /\ Tail(todo) = <<>>
         /\ Len(todo) # 1 => Enumerates(Tail(todo), Left \ {e}, InitOrder)
<1>1. /\ Enumerates(todo, Left, InitOrder) /\ Left \subseteq Entries
      /\ \A x \in Past, y \in Left : Rank(x.get) < Rank(y.get)
  BY DEF IInv, TodoInv
<1>2. Entries \subseteq Entry
  BY DriverSound DEF IInv, Sound
<1>3. \A x \in Left : InitOrder[x] \in Nat /\ InitOrder[x] = Rank(x.get)
  BY <1>1, <1>2, Ranks
<1>4. /\ e \in Left
      /\ \A x \in Left \ {e} : InitOrder[e] < InitOrder[x]
      /\ Listed(Tail(todo)) = Left \ {e}
      /\ Len(todo) = 1 => Tail(todo) = <<>> /\ Left = {e}
      /\ Len(todo) # 1 => Enumerates(Tail(todo), Left \ {e}, InitOrder)
  BY <1>1, <1>3, Rest
<1>5. \A x \in Left \ {e} : Rank(e.get) < Rank(x.get)
  BY <1>3, <1>4
<1>6. \A x \in Entries : Rank(x.get) < Rank(e.get) <=> x \in Past
  <2> SUFFICES ASSUME NEW x \in Entries PROVE Rank(x.get) < Rank(e.get) <=> x \in Past
    OBVIOUS
  <2>1. x \in Past => Rank(x.get) < Rank(e.get)
    BY <1>1, <1>4
  <2>2. CASE x \in Left
    <3>1. Rank(x.get) \in Nat /\ Rank(e.get) \in Nat
      BY <1>3, <1>4, <2>2
    <3>2. ~(Rank(x.get) < Rank(e.get))
      BY <1>5, <2>2, <3>1
    <3> QED
      BY <2>1, <3>2
  <2>3. CASE x \notin Left
    BY <2>1, <2>3 DEF Past
  <2> QED
    BY <2>2, <2>3
<1> QED
  BY <1>1, <1>2, <1>4, <1>5, <1>6

\* What init leaves behind it with one more statement done: the order of the
\* rest, and that what the statement is for was neither held nor missed.
LEMMA OneDone ==
  ASSUME IInv, phase = "init", Proceed, NEW e, e = Head(todo)
  PROVE  /\ e \in Entries /\ e \in Entry
         /\ Past' = Past \cup {e}
         /\ \A u : SureBefore(Entries, e, u) => u \in held
         /\ e.get \notin held \cup missed
         /\ TodoInv'
<1>1. /\ todo' = Tail(todo) /\ phase' = IF Len(todo) = 1 THEN "live" ELSE "init"
      /\ UNCHANGED <<driver, failedAt, wild, opened>>
  BY DEF Proceed, After
<1>2. /\ e \in Left /\ e \in Entries /\ e \in Entry
      /\ \A x \in Entries : Rank(x.get) < Rank(e.get) <=> x \in Past
      /\ \A x \in Left \ {e} : Rank(e.get) < Rank(x.get)
      /\ Listed(Tail(todo)) = Left \ {e}
      /\ Len(todo) = 1 => Left = {e} /\ Tail(todo) = <<>>
      /\ Len(todo) # 1 => Enumerates(Tail(todo), Left \ {e}, InitOrder)
  BY NextEntry
<1>3. Left' = Left \ {e} /\ Entries' = Entries /\ Exits' = Exits
  BY <1>1, <1>2 DEF Left, Entries, Exits
<1>4. Past' = Past \cup {e}
  <2>1. CASE Len(todo) = 1
    BY <1>1, <1>2, <1>3, <2>1 DEF Past, IInv, TodoInv
  <2>2. CASE Len(todo) # 1
    BY <1>1, <1>2, <1>3, <2>2 DEF Past, IInv, TodoInv
  <2> QED
    BY <2>1, <2>2
<1>5. TodoInv'
  <2>1. \A x \in Past', y \in Left' : Rank(x.get) < Rank(y.get)
    BY <1>2, <1>3, <1>4 DEF IInv, TodoInv
  <2> QED
    BY <1>1, <1>2, <1>3, <2>1 DEF IInv, TodoInv
<1>6. \A u : SureBefore(Entries, e, u) => u \in held
  BY <1>2 DEF SureBefore, IInv, HeldInv, InitInv
<1>7. e.get \notin held \cup missed
  <2> SUFFICES ASSUME e.get \in held \cup missed PROVE FALSE
    OBVIOUS
  <2>1. PICK x \in Past : x.get = e.get
    BY DEF IInv, HeldInv, InitInv
  <2>2. Rank(x.get) < Rank(e.get)
    BY <1>2, <2>1 DEF Past
  <2>3. Rank(e.get) \in Nat
    BY DEF Rank
  <2> QED
    BY <2>1, <2>2, <2>3
<1> QED
  BY <1>2, <1>4, <1>5, <1>6, <1>7

\* A statement of init that works.
LEMMA AcquireStep == IInv /\ Acquire => IInv'
<1> SUFFICES ASSUME IInv, Acquire PROVE IInv'
  OBVIOUS
<1>1. PICK e : e = Head(todo)
  OBVIOUS
<1>2. /\ phase = "init" /\ Proceed /\ Needs(e.get) \subseteq held
      /\ held' = held \cup {e.get} /\ missed' = missed
      /\ phase' \in {"init", "live"}
      /\ UNCHANGED <<driver, failedAt, wild, opened>>
  BY <1>1 DEF Acquire, Proceed, After
<1>3. /\ e \in Entries /\ e \in Entry
      /\ Past' = Past \cup {e}
      /\ \A u : SureBefore(Entries, e, u) => u \in held
      /\ e.get \notin held \cup missed
      /\ TodoInv'
  BY <1>1, <1>2, OneDone
<1>4. TypeOK'
  BY <1>2, <1>3 DEF IInv, TypeOK, Phases, Entry
<1>5. \A r \in held' : Under(r) \subseteq held'
  <2>1. \A r \in held : Under(r) \subseteq held
    BY <1>2 DEF IInv, HeldInv, InitInv
  <2>2. \A u \in Under(e.get) \ Needs(e.get) : SureBefore(Entries, e, u)
    BY <1>3, DriverSound DEF IInv, Sound, SoundExit
  <2> QED
    BY <1>2, <1>3, <2>1, <2>2
<1>6. InitInv'
  BY <1>2, <1>3, <1>5 DEF IInv, HeldInv, InitInv
<1>7. ExitInv' /\ WildInv'
  BY <1>2 DEF IInv, HeldInv, ExitInv, WildInv
<1>8. OpenInv'
  BY <1>2 DEF IInv, OpenInv
<1> QED
  BY <1>3, <1>4, <1>6, <1>7, <1>8 DEF IInv, HeldInv

\* A statement whose failure goes unnoticed.
LEMMA MissStep == IInv /\ Miss => IInv'
<1> SUFFICES ASSUME IInv, Miss PROVE IInv'
  OBVIOUS
<1>1. PICK e : e = Head(todo)
  OBVIOUS
<1>2. /\ phase = "init" /\ Proceed /\ e.label = "none"
      /\ missed' = missed \cup {e.get} /\ held' = held
      /\ phase' \in {"init", "live"}
      /\ UNCHANGED <<driver, failedAt, wild, opened>>
  BY <1>1 DEF Miss, Proceed, After
<1>3. /\ e \in Entries /\ e \in Entry
      /\ Past' = Past \cup {e}
      /\ e.get \notin held \cup missed
      /\ TodoInv'
  BY <1>1, <1>2, OneDone
<1>4. e.get \in Missable
  BY <1>2, <1>3, DriverSound DEF IInv, Sound, SoundExit
<1>5. TypeOK'
  BY <1>2, <1>4 DEF IInv, TypeOK, Phases
<1>6. InitInv'
  BY <1>2, <1>3 DEF IInv, HeldInv, InitInv
<1>7. ExitInv' /\ WildInv'
  BY <1>2 DEF IInv, HeldInv, ExitInv, WildInv
<1>8. OpenInv'
  BY <1>2 DEF IInv, OpenInv
<1> QED
  BY <1>3, <1>5, <1>6, <1>7, <1>8 DEF IInv, HeldInv

\* A statement that fails: its label takes over.
LEMMA FailStep == IInv /\ FailAcquire => IInv'
<1> SUFFICES ASSUME IInv, FailAcquire PROVE IInv'
  OBVIOUS
<1>1. PICK e : e = Head(todo)
  OBVIOUS
<1>2. /\ phase = "init"
      /\ e.label \notin Passing
      /\ todo' = Drivers[driver].labels[e.label]
      /\ failedAt' = e.get
      /\ phase' = IF e.label = "out" THEN "failed" ELSE "unwind"
      /\ UNCHANGED <<driver, held, missed, wild, opened>>
  BY <1>1 DEF FailAcquire, Passing
<1>3. /\ e \in Entries /\ e \in Entry
      /\ \A x \in Entries : Rank(x.get) < Rank(e.get) <=> x \in Past
  BY <1>1, <1>2, NextEntry
<1>4. /\ SoundFailure(driver, Entries, e)
      /\ LabelSound(driver, Drivers[driver].labels, e.label)
  BY <1>2, <1>3, DriverSound DEF IInv, Sound
<1> DEFINE L == LabelSet(driver, e.label)
<1>5. L \subseteq Releases
  BY DEF LabelSet, Tailing, Releases, Resources
<1>6. /\ Left' = L
      /\ e.label = "out" => todo' = <<>> /\ L = {}
      /\ e.label # "out" => Enumerates(todo', L, LabelOrder)
  <2>1. Left' = Listed(todo')
    BY DEF Left
  <2>2. e.label = "out" => todo' = <<>> /\ L = {}
    BY <1>2, <1>4 DEF LabelSound, LabelSet
  <2>3. e.label # "out" => Enumerates(todo', L, LabelOrder)
    BY <1>2, <1>4 DEF LabelSound
  <2>4. e.label = "out" => Listed(todo') = {}
    BY <2>2 DEF Listed
  <2>5. e.label # "out" => Listed(todo') = L
    BY <2>3, ListedAll
  <2> QED
    BY <2>1, <2>2, <2>3, <2>4, <2>5
<1>7. TypeOK'
  BY <1>2, <1>3 DEF IInv, TypeOK, Phases, Entry
<1>8. TodoInv'
  BY <1>2, <1>5, <1>6 DEF TodoInv
<1>9. \A u : TriedBefore(Entries, e, u) => u \in held \cup missed
  BY <1>2, <1>3 DEF TriedBefore, IInv, HeldInv, InitInv
<1>10. \A x \in L : x \in held \cup missed \cup Excused(e.get)
  BY <1>2, <1>4, <1>9 DEF SoundFailure
<1>11. L \cap Missable \subseteq Harmless
  BY <1>2, <1>4 DEF SoundFailure
<1>12. ASSUME NEW r \in Resources
       PROVE  r \in Residue(driver, e.get) \ missed
                <=> r \in held /\ \A y \in L : r \notin Released(y)
  <2>1. ASSUME r \in held, \A y \in L : r \notin Released(y)
        PROVE  r \in Residue(driver, e.get) \ missed
    <3>1. PICK x \in Past : x.get = r
      BY <1>2, <2>1 DEF IInv, HeldInv, InitInv
    <3>2. x \in Entries /\ Rank(x.get) < Rank(e.get)
      BY <1>2, <1>3, <3>1 DEF Past
    <3>3. r \in Residue(driver, e.get)
      BY <1>2, <1>4, <2>1, <3>1, <3>2 DEF SoundFailure
    <3> QED
      BY <2>1, <3>3 DEF IInv, HeldInv, InitInv
  <2>2. ASSUME r \in Residue(driver, e.get) \ missed
        PROVE  r \in held /\ \A y \in L : r \notin Released(y)
    BY <1>2, <1>4, <1>9, <2>2 DEF SoundFailure
  <2> QED
    BY <2>1, <2>2
<1>13. wild = {} /\ phase' \in {"failed", "unwind"} /\ e.get # "none"
  BY <1>2, <1>3 DEF IInv, HeldInv, InitInv, Entry, Resources
<1>14. HeldInv'
  <2>1. InitInv' /\ ExitInv'
    BY <1>2, <1>13 DEF IInv, HeldInv, InitInv, ExitInv
  <2>2. WildInv'
    BY <1>2, <1>6, <1>10, <1>11, <1>12, <1>13 DEF WildInv
  <2> QED
    BY <2>1, <2>2 DEF HeldInv
<1>15. e.get \in {"region", "cdev", "misc"} => held \cap {"cdev", "misc"} = {}
  <2> SUFFICES ASSUME e.get \in {"region", "cdev", "misc"}, NEW r \in held,
                      r \in {"cdev", "misc"}
               PROVE  FALSE
    OBVIOUS
  <2>1. PICK x \in Past : x.get = r
    BY <1>2 DEF IInv, HeldInv, InitInv
  <2>2. x \in Entries
    BY <1>2, <2>1 DEF Past
  <2>3. Rank(r) < Rank(e.get)
    BY <1>3, <2>1, <2>2
  <2>4. Rank(r) = 2 /\ Rank(e.get) \in {1, 2}
    BY DEF Rank
  <2> QED
    BY <2>3, <2>4
<1>16. OpenInv'
  <2>1. e.get \in {"region", "cdev", "misc"} => opened = 0
    BY <1>2, <1>15 DEF IInv, OpenInv, TypeOK
  <2> QED
    BY <1>2, <1>15, <2>1 DEF OpenInv
<1> QED
  BY <1>7, <1>8, <1>14, <1>16 DEF IInv

\* wake_up_process on an error pointer, register_netdev(NULL).
LEMMA OopsStep == IInv /\ Oops => IInv'
<1> SUFFICES ASSUME IInv, Oops PROVE IInv'
  OBVIOUS
<1>1. /\ phase = "init" /\ phase' = "oops"
      /\ UNCHANGED <<driver, held, missed, failedAt, wild, opened>>
  BY DEF Oops
<1>2. TypeOK'
  BY <1>1 DEF IInv, TypeOK, Phases
<1>3. TodoInv' /\ OpenInv'
  BY <1>1 DEF TodoInv, OpenInv
<1>4. HeldInv'
  BY <1>1 DEF IInv, HeldInv, InitInv, ExitInv, WildInv
<1> QED
  BY <1>2, <1>3, <1>4 DEF IInv

\* A release gives up one release's worth, and what a resource rests on is
\* released with it or behind it.
LEMMA ReleasedOrder ==
  /\ \A x, y \in Releases : x \in Released(y) => x = y
  /\ \A x, y \in Releases, r \in Resources :
       \A u \in Under(r) : r \in Released(x) /\ u \in Released(y) =>
         x = y \/ ExitOrder[x] < ExitOrder[y]
<1>1. \A x, y \in Releases : x \in Released(y) => x = y
  BY DEF Releases, Resources, Released
<1>2. /\ ExitOrder["device"] = 6 /\ ExitOrder["class"] = 7 /\ ExitOrder["cdev"] = 8
      /\ ExitOrder["region"] = 9 /\ ExitOrder["netdev"] = 1 /\ ExitOrder["netalloc"] = 2
  BY DEF ExitOrder, Releases, Resources
<1>3. ASSUME NEW x \in Releases, NEW y \in Releases, NEW r \in Resources, NEW u \in Under(r),
             r \in Released(x), u \in Released(y)
      PROVE  x = y \/ ExitOrder[x] < ExitOrder[y]
  <2>1. \/ r = "device" /\ u \in {"class", "region"}
        \/ r = "cdev" /\ u = "region"
        \/ r = "attr" /\ u = "kobj"
        \/ r = "procfile" /\ u = "procdir"
        \/ r = "netdev" /\ u = "netalloc"
    BY DEF Under, Resources
  <2>2. r \in {"device", "cdev", "netdev"} => x = r
    BY <1>3 DEF Released
  <2>3. u \in {"class", "region", "netalloc", "kobj", "procdir"} => y = u
    BY <1>3 DEF Released
  <2>4. (r = "attr" => x = "kobj") /\ (r = "procfile" => x = "procdir")
    BY <1>3 DEF Released, Releases
  <2> QED
    BY <1>2, <2>1, <2>2, <2>3, <2>4
<1> QED
  BY <1>1, <1>3

\* The next release of a list is not among the later ones.
LEMMA NextRelease ==
  ASSUME NEW f, Enumerates(todo, Left, f), Left \subseteq Releases,
         \A x \in Releases : f[x] \in Nat, NEW h, h = Head(todo)
  PROVE  /\ h \in Left /\ h \in Releases
         /\ \A x \in Left \ {h} : f[h] < f[x]
         /\ Listed(Tail(todo)) = Left \ {h}
         /\ Len(todo) = 1 => Left = {h}
         /\ Len(todo) # 1 => Enumerates(Tail(todo), Left \ {h}, f)
<1>1. \A x \in Left : f[x] \in Nat
  OBVIOUS
<1>2. PICK s, S : s = todo /\ S = Left
  OBVIOUS
<1>3. Enumerates(s, S, f) /\ (\A x \in S : f[x] \in Nat) /\ h = Head(s)
  BY <1>1, <1>2
<1>4. /\ h \in S
      /\ \A x \in S \ {h} : f[h] < f[x]
      /\ Listed(Tail(s)) = S \ {h}
      /\ Len(s) = 1 => Tail(s) = <<>> /\ S = {h}
      /\ Len(s) # 1 => Enumerates(Tail(s), S \ {h}, f)
  BY <1>3, Rest
<1> QED
  BY <1>2, <1>4

\* A release under a label.
LEMMA UnwindStep == IInv /\ Unwind => IInv'
<1> SUFFICES ASSUME IInv, Unwind PROVE IInv'
  OBVIOUS
<1>1. PICK h : h = Head(todo)
  OBVIOUS
<1>2. /\ phase = "unwind"
      /\ held' = held \ Released(h)
      /\ wild' = IF h \in held THEN wild ELSE wild \cup {h}
      /\ todo' = Tail(todo)
      /\ phase' = IF Len(todo) = 1 THEN "failed" ELSE "unwind"
      /\ UNCHANGED <<driver, missed, failedAt, opened>>
  BY <1>1 DEF Unwind, Release, After
<1>3. Enumerates(todo, Left, LabelOrder) /\ Left \subseteq Releases
  BY <1>2 DEF IInv, TodoInv
<1>4. /\ h \in Left /\ h \in Releases
      /\ Listed(Tail(todo)) = Left \ {h}
      /\ Len(todo) = 1 => Left = {h}
      /\ Len(todo) # 1 => Enumerates(Tail(todo), Left \ {h}, LabelOrder)
  BY <1>1, <1>3, Ranks, NextRelease
<1>5. Left' = Left \ {h}
  BY <1>2, <1>4 DEF Left
<1>6. /\ wild \subseteq Excused(failedAt) \cup (missed \cap Harmless)
      /\ failedAt = "none" => "class" \notin wild
      /\ missed \subseteq Missable /\ missed \cap held = {}
      /\ Left \cap Missable \subseteq Harmless
      /\ \A x \in Left : x \in held \cup missed \cup Excused(failedAt)
      /\ \A r \in Resources :
           r \in Residue(driver, failedAt) \ missed
             <=> r \in held /\ \A x \in Left : r \notin Released(x)
  BY <1>2 DEF IInv, HeldInv, InitInv, WildInv, TypeOK
<1>7. TypeOK'
  BY <1>2, <1>4 DEF IInv, TypeOK, Phases, Releases
<1>8. TodoInv'
  BY <1>2, <1>3, <1>4, <1>5 DEF TodoInv
<1>9. InitInv' /\ ExitInv'
  BY <1>2, <1>6 DEF InitInv, ExitInv
<1>10. WildInv'
  <2>1. wild' \subseteq Excused(failedAt) \cup (missed \cap Harmless)
    BY <1>2, <1>4, <1>6
  <2>2. \A x \in Left' : x \in held' \cup missed \cup Excused(failedAt)
    BY <1>2, <1>3, <1>4, <1>5, <1>6, ReleasedOrder
  <2>3. \A r \in Resources :
          r \in Residue(driver, failedAt) \ missed
            <=> r \in held' /\ \A x \in Left' : r \notin Released(x)
    BY <1>2, <1>4, <1>5, <1>6
  <2>4. failedAt # "none"
    BY <1>2 DEF IInv, HeldInv, WildInv
  <2> QED
    BY <1>2, <1>5, <1>6, <2>1, <2>2, <2>3, <2>4 DEF WildInv
<1>11. OpenInv'
  BY <1>2 DEF IInv, OpenInv
<1> QED
  BY <1>7, <1>8, <1>9, <1>10, <1>11 DEF IInv, HeldInv

\* rmmod starts the exit function on a live module that nobody uses.
LEMMA RmmodStep == IInv /\ Rmmod => IInv'
<1> SUFFICES ASSUME IInv, Rmmod PROVE IInv'
  OBVIOUS
<1>1. /\ phase = "live" /\ opened = 0 /\ phase' = "exit"
      /\ todo' = Drivers[driver].exit
      /\ UNCHANGED <<driver, held, missed, failedAt, wild, opened>>
  BY DEF Rmmod
<1>2. /\ Enumerates(Drivers[driver].exit, Exits, ExitOrder) /\ Exits \subseteq Releases
      /\ SoundExit(driver, Entries, Exits)
  BY DriverSound DEF IInv, Sound
<1>3. Left' = Exits /\ Exits' = Exits /\ Past = Entries
  BY <1>1 DEF Left, Exits, Past
<1>4. TypeOK' /\ OpenInv'
  BY <1>1 DEF IInv, TypeOK, Phases, OpenInv
<1>5. TodoInv'
  BY <1>1, <1>2, <1>3 DEF TodoInv
<1>6. /\ \A r \in held \cup missed : \E e \in Entries : e.get = r
      /\ \A e \in Entries : e.get \in held \cup missed
      /\ \A e \in Entries : e.label # "none" => e.get \in held
      /\ wild = {} /\ failedAt = "none" /\ missed \cap held = {}
      /\ \A r \in held : Under(r) \subseteq held
  BY <1>1, <1>3 DEF IInv, HeldInv, InitInv
<1>7. InitInv'
  BY <1>1, <1>6 DEF InitInv
<1>8. \A r \in held' : \/ \E x \in Left' : r \in Released(x)
                       \/ r = "thread1" /\ driver \in SelfEnding
  BY <1>1, <1>2, <1>3, <1>6 DEF SoundExit
<1>9. ASSUME NEW r \in missed \cap Fatal PROVE Trigger(r) \in Exits
  <2>1. PICK e \in Entries : e.get = r
    BY <1>6
  <2>2. e.label = "none"
    BY <1>6, <2>1
  <2> QED
    BY <1>2, <2>1, <2>2 DEF SoundExit
<1>10. ExitInv'
  <2>1. "device" \in Exits => "class" \in Exits
    BY <1>2 DEF SoundExit
  <2> QED
    BY <1>1, <1>3, <1>8, <1>9, <2>1 DEF ExitInv
<1>11. WildInv'
  <2>1. \A x \in Exits : x \in held \cup missed \cup Excused(failedAt)
    BY <1>2, <1>6 DEF SoundExit, Excused
  <2> QED
    BY <1>1, <1>3, <1>6, <2>1 DEF WildInv
<1> QED
  BY <1>4, <1>5, <1>7, <1>10, <1>11 DEF IInv, HeldInv

\* What holds of the next release of exit, deadly or not.
LEMMA ExitRelease ==
  ASSUME IInv, phase = "exit", NEW h, h = Head(todo)
  PROVE  /\ h \in Left /\ h \in Releases /\ Left \subseteq Releases
         /\ \A x \in Left \ {h} : ExitOrder[h] < ExitOrder[x]
         /\ Listed(Tail(todo)) = Left \ {h}
         /\ Len(todo) = 1 => Left = {h}
         /\ Len(todo) # 1 => Enumerates(Tail(todo), Left \ {h}, ExitOrder)
         /\ h \in held \cup missed \cup {"rootattr"}
         /\ h = "device" => "class" \in held \cup missed
         /\ h = "class" => "device" \notin Left
<1>1. /\ Enumerates(todo, Left, ExitOrder) /\ Left \subseteq Exits /\ Exits \subseteq Releases
  BY DriverSound DEF IInv, TodoInv, Sound
<1>2. /\ h \in Left /\ h \in Releases
      /\ \A x \in Left \ {h} : ExitOrder[h] < ExitOrder[x]
      /\ Listed(Tail(todo)) = Left \ {h}
      /\ Len(todo) = 1 => Left = {h}
      /\ Len(todo) # 1 => Enumerates(Tail(todo), Left \ {h}, ExitOrder)
  BY <1>1, Ranks, NextRelease
<1>3. /\ \A x \in Left : x \in held \cup missed \cup Excused(failedAt)
      /\ failedAt = "none"
      /\ "device" \in Left => "class" \in Left
  BY DEF IInv, HeldInv, InitInv, ExitInv, WildInv
<1>4. Excused(failedAt) = {"rootattr"}
  BY <1>3 DEF Excused
<1>5. h = "class" => "device" \notin Left
  <2>1. ExitOrder["class"] = 7 /\ ExitOrder["device"] = 6
    BY DEF ExitOrder, Releases, Resources
  <2> QED
    BY <1>2, <2>1
<1> QED
  BY <1>1, <1>2, <1>3, <1>4, <1>5

\* A release of the exit function.
LEMMA ExitStep == IInv /\ Exit => IInv'
<1> SUFFICES ASSUME IInv, Exit PROVE IInv'
  OBVIOUS
<1>1. PICK h : h = Head(todo)
  OBVIOUS
<1>2. /\ phase = "exit"
      /\ held' = held \ Released(h)
      /\ wild' = IF h \in held THEN wild ELSE wild \cup {h}
      /\ todo' = Tail(todo)
      /\ phase' = IF Len(todo) = 1 THEN "unloaded" ELSE "exit"
      /\ ~(h = "device" /\ "class" \notin held)
      /\ h \notin {"thread1", "thread2", "workqueue", "pernet"} \ held
      /\ UNCHANGED <<driver, missed, failedAt, opened>>
  BY <1>1 DEF Exit, Deadly, Release, After
<1>3. /\ h \in Left /\ h \in Releases /\ Left \subseteq Releases
      /\ \A x \in Left \ {h} : ExitOrder[h] < ExitOrder[x]
      /\ Listed(Tail(todo)) = Left \ {h}
      /\ Len(todo) = 1 => Left = {h}
      /\ Len(todo) # 1 => Enumerates(Tail(todo), Left \ {h}, ExitOrder)
      /\ h \in held \cup missed \cup {"rootattr"}
      /\ h = "class" => "device" \notin Left
  BY <1>1, <1>2, ExitRelease
<1>4. Left' = Left \ {h} /\ Exits' = Exits
  BY <1>2, <1>3 DEF Left, Exits
<1>5. /\ failedAt = "none" /\ missed \cap held = {} /\ missed \subseteq Missable
      /\ wild \subseteq Excused(failedAt) \cup (missed \cap Harmless)
      /\ "class" \notin wild
      /\ \A x \in Left : x \in held \cup missed \cup Excused(failedAt)
      /\ \A r \in held : Under(r) \subseteq held
      /\ \A r \in held : \/ \E x \in Left : r \in Released(x)
                         \/ r = "thread1" /\ driver \in SelfEnding
      /\ \A r \in missed \cap Fatal : Trigger(r) \in Left
      /\ "device" \in Left => "class" \in Left
  BY <1>2 DEF IInv, HeldInv, InitInv, ExitInv, WildInv, TypeOK
<1>6. TypeOK'
  BY <1>2, <1>3 DEF IInv, TypeOK, Phases, Releases
<1>7. TodoInv'
  BY <1>2, <1>3, <1>4 DEF IInv, TodoInv
<1>8. \A r \in held' : \/ \E x \in Left' : r \in Released(x)
                       \/ r = "thread1" /\ driver \in SelfEnding
  BY <1>2, <1>4, <1>5
<1>9. \A r \in held' : Under(r) \subseteq held'
  <2> SUFFICES ASSUME NEW r \in held', NEW u \in Under(r) PROVE u \in held'
    OBVIOUS
  <2>1. r \in held /\ u \in held /\ r \in Resources
    BY <1>2, <1>5 DEF IInv, TypeOK
  <2>2. r # "thread1"
    BY DEF Under
  <2>3. PICK x \in Left \ {h} : r \in Released(x)
    BY <1>4, <1>8, <2>2
  <2>4. ExitOrder[h] < ExitOrder[x] /\ x \in Releases /\ x # h
    BY <1>3
  <2>5. ~(ExitOrder[x] < ExitOrder[h])
    BY <1>3, <2>4, Ranks
  <2>6. u \notin Released(h)
    BY <1>3, <2>1, <2>3, <2>4, <2>5, ReleasedOrder
  <2> QED
    BY <1>2, <2>1, <2>6
<1>10. InitInv'
  BY <1>2, <1>5, <1>9 DEF InitInv
<1>11. \A r \in missed \cap Fatal : Trigger(r) # h
  BY <1>2, <1>5 DEF Fatal, Trigger
<1>12. ExitInv'
  <2>1. \A r \in missed' \cap Fatal : Trigger(r) \in Left'
    BY <1>2, <1>4, <1>5, <1>11
  <2>2. "device" \in Left' => "class" \in Left'
    BY <1>3, <1>4, <1>5
  <2>3. phase' = "unloaded" => missed' \cap Fatal = {}
    BY <1>2, <1>3, <1>5, <1>11
  <2> QED
    BY <1>2, <1>8, <2>1, <2>2, <2>3 DEF ExitInv
<1>13. h \notin held => h \in {"rootattr"} \cup (missed \cap Harmless) /\ h # "class"
  <2> SUFFICES ASSUME h \notin held
               PROVE  h \in {"rootattr"} \cup (missed \cap Harmless) /\ h # "class"
    OBVIOUS
  <2>1. h # "class"
    BY <1>3, <1>5 DEF Fatal, Trigger
  <2>2. h \in missed => h \in Harmless
    BY <1>2, <1>3, <1>5 DEF Missable, Harmless, Releases
  <2> QED
    BY <1>3, <2>1, <2>2
<1>14. WildInv'
  <2>1. wild' \subseteq Excused(failedAt) \cup (missed \cap Harmless) /\ "class" \notin wild'
    BY <1>2, <1>5, <1>13 DEF Excused
  <2>2. \A x \in Left' : x \in held' \cup missed \cup Excused(failedAt)
    BY <1>2, <1>3, <1>4, <1>5, ReleasedOrder
  <2> QED
    BY <1>2, <2>1, <2>2 DEF WildInv
<1>15. OpenInv'
  BY <1>2 DEF IInv, OpenInv
<1> QED
  BY <1>6, <1>7, <1>10, <1>12, <1>14, <1>15 DEF IInv, HeldInv

\* A release on which exit dies.
LEMMA ExitOopsStep == IInv /\ ExitOops => IInv'
<1> SUFFICES ASSUME IInv, ExitOops PROVE IInv'
  OBVIOUS
<1>1. PICK h : h = Head(todo)
  OBVIOUS
<1>2. /\ phase = "exit" /\ phase' = "dead"
      /\ \/ h = "device" /\ "class" \notin held
         \/ h \in {"thread1", "thread2", "workqueue", "pernet"} \ held
      /\ UNCHANGED <<driver, held, missed, failedAt, wild, opened>>
  BY <1>1 DEF ExitOops, Deadly
<1>3. /\ h \in held \cup missed \cup {"rootattr"}
      /\ h = "device" => "class" \in held \cup missed
  BY <1>1, <1>2, ExitRelease
<1>4. missed \cap Fatal # {}
  BY <1>2, <1>3 DEF Fatal
<1>5. TypeOK'
  BY <1>2 DEF IInv, TypeOK, Phases
<1>6. TodoInv' /\ OpenInv'
  BY <1>2 DEF IInv, TodoInv, OpenInv
<1>7. HeldInv'
  BY <1>2, <1>4 DEF IInv, HeldInv, InitInv, ExitInv, WildInv
<1> QED
  BY <1>5, <1>6, <1>7 DEF IInv

\* A file is opened or closed.
LEMMA FileStep == IInv /\ (Open \/ Close) => IInv'
<1> SUFFICES ASSUME IInv, Open \/ Close PROVE IInv'
  OBVIOUS
<1>1. UNCHANGED <<driver, phase, todo, held, missed, failedAt, wild>>
  BY DEF Open, Close
<1>2. TypeOK'
  BY <1>1, MaxOpenAssumption DEF IInv, TypeOK, Open, Close
<1>3. UNCHANGED <<Left, Entries, Exits, Past>>
  BY <1>1 DEF Left, Entries, Exits, Past
<1>4. TodoInv' /\ HeldInv'
  BY <1>1, <1>3 DEF IInv, TodoInv, HeldInv, InitInv, ExitInv, WildInv
<1>5. OpenInv'
  <2>1. CASE Open
    BY <1>1, <2>1 DEF IInv, OpenInv, Open
  <2>2. CASE Close
    BY <1>1, <2>2 DEF IInv, OpenInv, TypeOK, Close
  <2> QED
    BY <2>1, <2>2
<1> QED
  BY <1>2, <1>4, <1>5 DEF IInv

\* The invariant holds in every state, for every set of drivers loaded and every
\* number of files open.
THEOREM Invariance == Spec => []IInv
<1>1. IInv /\ [Next]_vars => IInv'
  <2> SUFFICES ASSUME IInv, [Next]_vars PROVE IInv'
    OBVIOUS
  <2>1. CASE Next
    BY <2>1, AcquireStep, MissStep, FailStep, OopsStep, UnwindStep, RmmodStep, ExitStep,
       ExitOopsStep, FileStep
    DEF Next
  <2>2. CASE UNCHANGED vars
    <3>1. UNCHANGED <<Left, Entries, Exits, Past>>
      BY <2>2 DEF vars, Left, Entries, Exits, Past
    <3> QED
      BY <2>2, <3>1 DEF vars, IInv, TypeOK, TodoInv, HeldInv, InitInv, ExitInv, WildInv,
         OpenInv
  <2> QED
    BY <2>1, <2>2
<1> QED
  BY <1>1, InitIInv, PTL DEF Spec

\* Every variable stays in its range.
THEOREM TypeCorrect == Spec => []TypeOK
<1>1. IInv => TypeOK
  BY DEF IInv
<1> QED
  BY <1>1, Invariance, PTL

\* An exit function dies when init missed something it cannot do without (class,
\* threads, work queue, registration in the namespaces), and only then.  One that
\* comes to its end has given back all its init acquired (the thread of the wait
\* and completion drivers may remain), and none, not even one that dies on the
\* way, releases a resource under one that rests on it.
THEOREM ExitReleasesAll == Spec => []ExitCleansUp
<1>1. IInv => ExitCleansUp
  <2> SUFFICES ASSUME IInv PROVE ExitCleansUp
    OBVIOUS
  <2>1. ASSUME phase = "unloaded"
        PROVE  held \subseteq IF driver \in SelfEnding THEN {"thread1"} ELSE {}
    <3>1. Left = {}
      BY <2>1 DEF IInv, TodoInv
    <3> QED
      BY <2>1, <3>1 DEF IInv, HeldInv, ExitInv
  <2>2. phase \in {"exit", "unloaded", "dead"} => \A r \in held : Under(r) \subseteq held
    BY DEF IInv, HeldInv, InitInv
  <2>3. /\ phase = "unloaded" => missed \cap Fatal = {}
        /\ phase = "dead" => missed \cap Fatal # {}
    BY DEF IInv, HeldInv, ExitInv
  <2> QED
    BY <2>1, <2>2, <2>3 DEF ExitCleansUp
<1> QED
  BY <1>1, Invariance, PTL

\* A failed init leaves registered exactly the device and the cdev, each in the
\* cases FailedInitResidue lists, and nothing else.
THEOREM ResidueExact == Spec => []FailedInitResidue
<1>1. IInv => FailedInitResidue
  <2> SUFFICES ASSUME IInv, phase = "failed" PROVE FailedInitResidue
    BY DEF FailedInitResidue
  <2>1. Left = {} /\ held \subseteq Resources /\ missed \subseteq Missable
    BY DEF IInv, TodoInv, TypeOK
  <2>2. \A r \in Resources : r \in Residue(driver, failedAt) \ missed <=> r \in held
    BY <2>1 DEF IInv, HeldInv, WildInv
  <2>3. Residue(driver, failedAt) \subseteq Resources
    BY DEF Residue, Resources
  <2>4. held = Residue(driver, failedAt) \ missed
    BY <2>1, <2>2, <2>3
  <2>5. "cdev" \notin missed
    BY <2>1 DEF Missable
  <2> QED
    BY <2>4, <2>5 DEF FailedInitResidue, Residue
<1> QED
  BY <1>1, Invariance, PTL

\* No release that comes back hits a resource the module does not hold, apart
\* from the cases WildReleasesKnown lists; an exit function never gets to
\* class_destroy with an error pointer.
THEOREM WildReleases == Spec => []WildReleasesKnown
<1>1. IInv => WildReleasesKnown
  BY DEF IInv, HeldInv, WildInv, Excused, Harmless, WildReleasesKnown
<1> QED
  BY <1>1, Invariance, PTL

\* The module's memory goes away under an open file only when init fails after
\* the cdev was added, never through rmmod.
THEOREM NeverUnderOpenFile == Spec => []GoneUnderOpenFile
<1>1. IInv => GoneUnderOpenFile
  <2> SUFFICES ASSUME IInv, opened > 0, phase \in {"exit", "unloaded", "failed"}
               PROVE  phase = "failed" /\ failedAt \notin {"region", "cdev", "misc"}
    BY DEF GoneUnderOpenFile
  <2>1. opened # 0
    OBVIOUS
  <2> QED
    BY <2>1 DEF IInv, OpenInv
<1> QED
  BY <1>1, Invariance, PTL
=============================================================================
