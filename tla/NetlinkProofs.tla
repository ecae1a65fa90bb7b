--------------------------- MODULE NetlinkProofs ----------------------------
(***************************************************************************)
(* What the netlink drivers and programs promise, for every number of      *)
(* clients, namespaces, listeners, senders, routes and changes and every   *)
(* length of a queue: the drivers that answer a request, the routing table *)
(* program, the network monitor and the multicast programs, each with the  *)
(* inductive invariant of its specification.                               *)
(***************************************************************************)
EXTENDS NetlinkEcho, RouteDump, NetMonitor, NetlinkMulticast,
        SequenceTheorems, FiniteSetTheorems, TLAPS

-----------------------------------------------------------------------------
(* Queues and what was read of them.                                       *)

\* A message moves from the head of a queue to the end of what was read.
LEMMA Moved ==
  ASSUME NEW S, NEW s \in Seq(S), NEW q \in Seq(S), q # <<>>
  PROVE  /\ Append(s, Head(q)) \o Tail(q) = s \o q
         /\ Append(s, Head(q)) \in Seq(S) /\ Tail(q) \in Seq(S) /\ Len(Tail(q)) = Len(q) - 1
<1>1. Len(q) \in Nat \ {0} /\ Head(q) = q[1] /\ Head(q) \in S
  BY EmptySeq, HeadTailProperties
<1>2. /\ Tail(q) \in Seq(S) /\ Len(Tail(q)) = Len(q) - 1
      /\ \A i \in 1..(Len(q) - 1) : Tail(q)[i] = q[i + 1]
  BY <1>1, HeadTailProperties
<1>3. /\ Append(s, Head(q)) \in Seq(S) /\ Len(Append(s, Head(q))) = Len(s) + 1
      /\ \A i \in 1..Len(s) : Append(s, Head(q))[i] = s[i]
      /\ Append(s, Head(q))[Len(s) + 1] = q[1]
  BY <1>1, AppendProperties
<1> DEFINE a == Append(s, Head(q)) \o Tail(q)
           b == s \o q
<1>4. /\ a \in Seq(S) /\ Len(a) = Len(s) + 1 + (Len(q) - 1)
      /\ \A i \in 1..Len(a) : a[i] = IF i <= Len(s) + 1 THEN Append(s, Head(q))[i]
                                                        ELSE Tail(q)[i - (Len(s) + 1)]
  BY <1>2, <1>3, ConcatProperties
<1>5. /\ b \in Seq(S) /\ Len(b) = Len(s) + Len(q)
      /\ \A i \in 1..Len(b) : b[i] = IF i <= Len(s) THEN s[i] ELSE q[i - Len(s)]
  BY ConcatProperties
<1> HIDE DEF a, b
<1>6. Len(a) = Len(b) /\ Len(s) \in Nat
  BY <1>1, <1>4, <1>5, LenProperties
<1>7. ASSUME NEW i \in 1..Len(a) PROVE a[i] = b[i]
  <2>1. CASE i <= Len(s)
    <3>1. i \in 1..Len(s) /\ i \in 1..Len(b) /\ i <= Len(s) + 1
      BY <1>6, <2>1
    <3>2. a[i] = Append(s, Head(q))[i] /\ b[i] = s[i]
      BY <1>4, <1>5, <2>1, <3>1
    <3> QED
      BY <1>3, <3>1, <3>2
  <2>2. CASE i = Len(s) + 1
    BY <1>3, <1>4, <1>5, <1>6, <2>2
  <2>3. CASE i > Len(s) + 1
    <3>1. i - (Len(s) + 1) \in 1..(Len(q) - 1) /\ (i - (Len(s) + 1)) + 1 = i - Len(s)
      BY <1>1, <1>4, <1>6, <2>3
    <3>2. a[i] = Tail(q)[i - (Len(s) + 1)]
      BY <1>4, <1>6, <2>3
    <3>3. Tail(q)[i - (Len(s) + 1)] = q[i - Len(s)]
      BY <1>2, <3>1
    <3> QED
      BY <1>5, <1>6, <2>3, <3>2, <3>3
  <2> QED
    BY <1>6, <2>1, <2>2, <2>3
<1>8. a = b
  BY <1>4, <1>5, <1>6, <1>7, SeqEqual
<1> QED
  BY <1>2, <1>3, <1>8 DEF a, b

\* A message is added to the end of a queue.
LEMMA Added ==
  ASSUME NEW S, NEW s \in Seq(S), NEW q \in Seq(S), NEW m \in S
  PROVE  /\ s \o Append(q, m) = Append(s \o q, m)
         /\ Append(q, m) \in Seq(S) /\ Len(Append(q, m)) = Len(q) + 1
<1>1. <<m>> \in Seq(S) /\ s \o q \in Seq(S)
  BY ConcatProperties
<1>2. Append(q, m) = q \o <<m>> /\ Append(s \o q, m) = (s \o q) \o <<m>>
  BY <1>1, AppendIsConcat
<1>3. s \o (q \o <<m>>) = (s \o q) \o <<m>>
  BY <1>1, ConcatAssociative
<1> QED
  BY <1>2, <1>3, AppendProperties

-----------------------------------------------------------------------------
(* The drivers that answer a request.                                      *)

\* Every variable stays in its range.
EchoTypeInv ==
  /\ echoDriver \in EchoDrivers \cup {"none"}
  /\ echoPhase \in {"absent", "loading", "loaded", "unloaded"}
  /\ kernelSock \in [Nets -> {"none", "created", "stored"}]
  /\ netsGone \subseteq Nets
  /\ kept \in [Nets -> Nat]
  /\ echoAt \in [EchoClients -> {"start", "bind", "send", "receive", "end"}]
  /\ bound \subseteq EchoClients /\ replies \subseteq EchoClients /\ heard \subseteq EchoClients
  /\ stuck \in [EchoClients -> {"no", "refused", "early", "nomem", "unbound"}]
  /\ echoFault \in BOOLEAN

\* The sockets of a driver: none before and after it, at most one that is
\* created and not stored yet, and one at most for the drivers that know
\* of no namespace.
SockInv ==
  /\ echoPhase = "absent" <=> echoDriver = "none"
  /\ echoPhase \in {"absent", "unloaded"} => \A n \in Nets : kernelSock[n] = "none"
  /\ \A n \in Nets : kernelSock[n] = "created" =>
       /\ echoPhase = "loading"
       /\ \A k \in Nets : kernelSock[k] = "created" => k = n
  /\ echoDriver \in {"hello", "unicast"} =>
       /\ \A n \in Nets \ {InitNet} : kernelSock[n] = "none"
       /\ echoPhase = "loading" => kernelSock[InitNet] # "stored"
  /\ InitNet \notin netsGone

\* A client that was heard has passed its send.  An answer waits only for who
\* receives.  A namespace is kept once for each client heard, at most, and the
\* namespace driver keeps it for good.
ClientInv ==
  /\ \A c \in EchoClients :
       /\ echoAt[c] \in {"start", "bind", "send"} => c \notin heard /\ stuck[c] = "no"
       /\ c \in replies => echoAt[c] = "receive"
       /\ c \in replies /\ echoDriver # "namespace" => echoPhase = "loaded"
       /\ echoDriver = "namespace" /\ c \in heard => kept[NetOf[c]] > 0
  /\ \A n \in Nets : kept[n] <= Cardinality(heard)
  /\ echoPhase = "absent" => \A c \in EchoClients : echoAt[c] = "start"

\* The causes for which a client waits are known from the state of the driver.
EchoInv == EchoTypeInv /\ SockInv /\ ClientInv /\ EchoFaultsKnown
-----------------------------------------------------------------------------
\* No client has started before a driver is loaded.
LEMMA EchoStart == EchoInit => EchoInv
<1> SUFFICES ASSUME EchoInit PROVE EchoInv
  OBVIOUS
<1>1. echoFault \in BOOLEAN /\ ~echoFault
  BY Zenon DEF EchoInit
<1>2. EchoTypeInv
  BY <1>1 DEF EchoInit, EchoTypeInv
<1>3. SockInv /\ EchoFaultsKnown
  BY <1>1, NetsAssumption DEF EchoInit, SockInv, EchoFaultsKnown
<1>4. ClientInv
  <2>1. Cardinality(heard) = 0
    BY FS_EmptySet DEF EchoInit
  <2> QED
    BY <2>1 DEF EchoInit, ClientInv
<1> QED
  BY <1>2, <1>3, <1>4 DEF EchoInv

\* The init and exit functions leave the clients alone.
LEMMA EchoModuleSteps ==
  ASSUME EchoInv, ~echoFault,
         \/ EchoLoad \/ EchoRmmod
         \/ \E n \in Nets : CreateSock(n) \/ StoreSock(n) \/ CreateFails(n) \/ NetEnds(n)
  PROVE  EchoInv'
<1> USE NetsAssumption DEF EchoInv, echoModule, clients, EchoDrivers, Served, HasSocket
<1>1. CASE EchoLoad
  <2>1. EchoTypeInv'
    BY <1>1 DEF EchoLoad, EchoTypeInv
  <2>2. SockInv'
    BY <1>1 DEF EchoLoad, EchoTypeInv, SockInv
  <2>3. ClientInv' /\ EchoFaultsKnown'
    BY <1>1 DEF EchoLoad, EchoTypeInv, SockInv, ClientInv, EchoFaultsKnown
  <2> QED
    BY <2>1, <2>2, <2>3
<1>2. CASE EchoRmmod
  <2>1. EchoTypeInv' /\ SockInv'
    BY <1>2 DEF EchoRmmod, EchoTypeInv, SockInv
  <2>2. ClientInv' /\ EchoFaultsKnown'
    BY <1>2 DEF EchoRmmod, EchoTypeInv, SockInv, ClientInv, EchoFaultsKnown
  <2> QED
    BY <2>1, <2>2
<1>3. ASSUME NEW n \in Nets, CreateSock(n) PROVE EchoInv'
  <2>1. EchoTypeInv'
    BY <1>3 DEF CreateSock, EchoTypeInv
  <2>2. SockInv'
    BY <1>3 DEF CreateSock, EchoTypeInv, SockInv
  <2>3. ClientInv' /\ EchoFaultsKnown'
    BY <1>3 DEF CreateSock, EchoTypeInv, SockInv, ClientInv, EchoFaultsKnown
  <2> QED
    BY <2>1, <2>2, <2>3
<1>4. ASSUME NEW n \in Nets, StoreSock(n) PROVE EchoInv'
  <2>1. EchoTypeInv'
    BY <1>4 DEF StoreSock, EchoTypeInv
  <2>2. SockInv'
    BY <1>4 DEF StoreSock, EchoTypeInv, SockInv
  <2>3. ClientInv' /\ EchoFaultsKnown'
    BY <1>4 DEF StoreSock, EchoTypeInv, SockInv, ClientInv, EchoFaultsKnown
  <2> QED
    BY <2>1, <2>2, <2>3
<1>5. ASSUME NEW n \in Nets, CreateFails(n) PROVE EchoInv'
  <2>1. EchoTypeInv'
    BY <1>5 DEF CreateFails, EchoTypeInv
  <2>2. SockInv'
    BY <1>5 DEF CreateFails, EchoTypeInv, SockInv
  <2>3. ClientInv' /\ EchoFaultsKnown'
    BY <1>5 DEF CreateFails, EchoTypeInv, SockInv, ClientInv, EchoFaultsKnown
  <2> QED
    BY <2>1, <2>2, <2>3
<1>6. ASSUME NEW n \in Nets, NetEnds(n) PROVE EchoInv'
  <2>1. EchoTypeInv'
    BY <1>6 DEF NetEnds, EchoTypeInv
  <2>2. SockInv'
    BY <1>6 DEF NetEnds, EchoTypeInv, SockInv
  <2>3. ClientInv' /\ EchoFaultsKnown'
    BY <1>6 DEF NetEnds, EchoTypeInv, SockInv, ClientInv, EchoFaultsKnown
  <2> QED
    BY <2>1, <2>2, <2>3
<1> QED
  BY <1>1, <1>2, <1>3, <1>4, <1>5, <1>6

\* The programs, but for the message that the callback takes.
LEMMA EchoClientSteps ==
  ASSUME EchoInv, ~echoFault, NEW c \in EchoClients,
         OpenSocket(c) \/ Bind(c) \/ SendRefused(c) \/ ReceiveReply(c) \/ KillClient(c)
  PROVE  EchoInv'
<1> USE NetsAssumption DEF EchoInv, echoModule, Go
<1>1. CASE OpenSocket(c)
  <2>1. EchoTypeInv' /\ SockInv'
    BY <1>1 DEF OpenSocket, EchoTypeInv, SockInv
  <2>2. ClientInv' /\ EchoFaultsKnown'
    BY <1>1 DEF OpenSocket, EchoTypeInv, ClientInv, EchoFaultsKnown
  <2> QED
    BY <2>1, <2>2
<1>2. CASE Bind(c)
  <2>1. EchoTypeInv' /\ SockInv'
    BY <1>2 DEF Bind, EchoTypeInv, SockInv
  <2>2. ClientInv' /\ EchoFaultsKnown'
    BY <1>2 DEF Bind, EchoTypeInv, ClientInv, EchoFaultsKnown
  <2> QED
    BY <2>1, <2>2
<1>3. CASE SendRefused(c)
  <2>1. EchoTypeInv' /\ SockInv'
    BY <1>3 DEF SendRefused, EchoTypeInv, SockInv
  <2>2. ClientInv'
    BY <1>3 DEF SendRefused, EchoTypeInv, ClientInv
  <2>3. EchoFaultsKnown'
    BY <1>3 DEF SendRefused, EchoTypeInv, ClientInv, EchoFaultsKnown
  <2> QED
    BY <2>1, <2>2, <2>3
<1>4. CASE ReceiveReply(c)
  <2>1. EchoTypeInv' /\ SockInv'
    BY <1>4 DEF ReceiveReply, EchoTypeInv, SockInv
  <2>2. ClientInv' /\ EchoFaultsKnown'
    BY <1>4 DEF ReceiveReply, EchoTypeInv, ClientInv, EchoFaultsKnown
  <2> QED
    BY <2>1, <2>2
<1>5. CASE KillClient(c)
  <2>1. EchoTypeInv' /\ SockInv'
    BY <1>5 DEF KillClient, EchoTypeInv, SockInv
  <2>2. ClientInv' /\ EchoFaultsKnown'
    BY <1>5 DEF KillClient, EchoTypeInv, ClientInv, EchoFaultsKnown
  <2> QED
    BY <2>1, <2>2
<1> QED
  BY <1>1, <1>2, <1>3, <1>4, <1>5

\* Who has heard one client more may hold one reference more to its namespace.
LEMMA EchoRequestSteps ==
  ASSUME EchoInv, ~echoFault, NEW c \in EchoClients, SendRequest(c)
  PROVE  EchoInv'
<1> USE NetsAssumption DEF EchoInv, echoModule
<1> DEFINE n == NetOf[c]
<1>1. /\ echoAt[c] = "send" /\ echoAt' = [echoAt EXCEPT ![c] = "receive"]
      /\ kernelSock[n] # "none" /\ heard' = heard \cup {c} /\ TakeNet(n)
      /\ UNCHANGED <<echoDriver, echoPhase, kernelSock, netsGone, bound>>
      /\ n \in Nets /\ c \notin heard /\ c \notin replies /\ stuck[c] = "no"
  BY DEF SendRequest, Go, RecvMsg, EchoTypeInv, ClientInv
<1>2. /\ stuck' \in [EchoClients -> {"no", "refused", "early", "nomem", "unbound"}]
      /\ replies \subseteq replies' /\ replies' \subseteq replies \cup {c}
      /\ c \in replies' => kernelSock[n] = "stored"
      /\ echoFault' \in BOOLEAN
      /\ echoFault' => echoDriver # "namespace" /\ kernelSock[n] = "created"
      /\ c \notin replies' /\ ~echoFault' => stuck'[c] # "no"
      /\ stuck'[c] # "refused"
      /\ stuck'[c] = "early" => echoDriver = "namespace"
      /\ \A d \in EchoClients \ {c} : stuck'[d] = stuck[d]
  <2>1. CASE echoDriver = "namespace" /\ kernelSock[n] = "created" /\ Silent(c, "early")
    BY <1>1, <2>1 DEF Silent, EchoTypeInv
  <2>2. CASE Silent(c, "nomem")
    BY <1>1, <2>2 DEF Silent, EchoTypeInv
  <2>3. CASE /\ echoDriver # "namespace" /\ kernelSock[n] = "created"
             /\ echoFault' = TRUE /\ UNCHANGED <<stuck, replies>>
    BY <1>1, <2>3 DEF EchoTypeInv
  <2>4. CASE /\ kernelSock[n] = "stored" /\ Answered(c)
             /\ stuck' = [stuck EXCEPT ![c] = IF c \in bound THEN "no" ELSE "unbound"]
             /\ UNCHANGED echoFault
    BY <1>1, <2>4 DEF Answered, EchoTypeInv
  <2> QED
    BY <2>1, <2>2, <2>3, <2>4 DEF SendRequest, RecvMsg
<1>3. /\ kept' \in [Nets -> Nat]
      /\ \A k \in Nets : kept[k] <= kept'[k] /\ kept'[k] <= kept[k] + 1
      /\ echoDriver = "namespace" => kept'[n] > 0
  BY <1>1 DEF TakeNet, EchoTypeInv
<1>4. Cardinality(heard') = Cardinality(heard) + 1 /\ Cardinality(heard) \in Nat
  <2>1. IsFiniteSet(heard)
    BY EchoClientsAssumption, FS_Subset DEF EchoTypeInv
  <2> QED
    BY <1>1, <2>1, FS_AddElement, FS_CardinalityType
<1>5. EchoTypeInv' /\ SockInv'
  <2>1. replies' \subseteq EchoClients /\ heard' \subseteq EchoClients
    BY <1>1, <1>2 DEF EchoTypeInv
  <2>2. EchoTypeInv'
    BY <1>1, <1>2, <1>3, <2>1 DEF EchoTypeInv
  <2>3. SockInv'
    BY <1>1 DEF SockInv
  <2> QED
    BY <2>2, <2>3
<1>6. kernelSock[n] = "stored" /\ echoDriver # "namespace" => echoPhase = "loaded"
  BY <1>1 DEF SockInv, EchoTypeInv, EchoDrivers
<1>7. \A d \in EchoClients \ {c} : /\ echoAt'[d] = echoAt[d] /\ (d \in heard' <=> d \in heard)
                                   /\ (d \in replies' <=> d \in replies)
  BY <1>1, <1>2 DEF EchoTypeInv
<1>8. echoAt'[c] = "receive" /\ c \in heard' /\ echoPhase \in {"loading", "loaded"}
  BY <1>1 DEF EchoTypeInv, SockInv
<1>9. ClientInv'
  <2>1. \A d \in EchoClients :
          /\ echoAt'[d] \in {"start", "bind", "send"} => d \notin heard' /\ stuck'[d] = "no"
          /\ d \in replies' => echoAt'[d] = "receive"
          /\ d \in replies' /\ echoDriver # "namespace" => echoPhase = "loaded"
    BY <1>2, <1>6, <1>7, <1>8 DEF ClientInv
  <2>2. \A d \in EchoClients : echoDriver = "namespace" /\ d \in heard' => kept'[NetOf[d]] > 0
    BY <1>3, <1>7 DEF ClientInv, EchoTypeInv
  <2>3. \A k \in Nets : kept'[k] <= Cardinality(heard')
    BY <1>3, <1>4 DEF ClientInv, EchoTypeInv
  <2> QED
    BY <1>1, <1>8, <2>1, <2>2, <2>3 DEF ClientInv
<1>10. EchoFaultsKnown'
  <2>1. echoDriver = "namespace" => n \notin netsGone
    BY <1>1 DEF EchoFaultsKnown
  <2>2. \A d \in EchoClients :
       /\ echoAt'[d] = "receive" /\ d \notin replies' /\ ~echoFault' => stuck'[d] # "no"
       /\ stuck'[d] = "refused" => echoDriver = "hello" /\ d \notin heard'
       /\ stuck'[d] = "early" => echoDriver = "namespace"
       /\ d \in replies' => echoPhase \in {"loading", "loaded"}
       /\ echoDriver = "namespace" /\ d \in heard' => NetOf[d] \notin netsGone
    BY <1>2, <1>7, <1>8, <2>1 DEF EchoFaultsKnown
  <2>3. echoFault' => echoDriver \in {"hello", "unicast"} /\ echoPhase = "loading"
    BY <1>1, <1>2, <1>8 DEF SockInv, EchoTypeInv, EchoDrivers
  <2> QED
    BY <1>1, <2>2, <2>3 DEF EchoFaultsKnown
<1> QED
  BY <1>5, <1>9, <1>10

\* EchoInv holds in every reachable state of the three drivers.
LEMMA EchoInvariance == EchoSpec => []EchoInv
<1>1. EchoInv /\ [EchoNext]_echoVars => EchoInv'
  <2> SUFFICES ASSUME EchoInv, [EchoNext]_echoVars PROVE EchoInv'
    OBVIOUS
  <2>1. CASE UNCHANGED echoVars
    BY <2>1 DEF EchoInv, EchoTypeInv, SockInv, ClientInv, EchoFaultsKnown, echoVars, echoModule, clients
  <2>2. CASE EchoNext
    BY <2>2, EchoModuleSteps, EchoClientSteps, EchoRequestSteps DEF EchoNext, ClientStep
  <2> QED
    BY <2>1, <2>2
<1> QED
  BY <1>1, EchoStart, PTL DEF EchoSpec

\* The type invariant that the run checks follows from it: a namespace is kept
\* at most once for each client.
LEMMA EchoTypes == EchoInv => EchoTypeOK
<1> SUFFICES ASSUME EchoInv PROVE EchoTypeOK
  OBVIOUS
<1>1. Cardinality(heard) \in Nat /\ Cardinality(heard) <= Cardinality(EchoClients)
      /\ Cardinality(EchoClients) \in Nat
  <2>1. heard \in SUBSET EchoClients
    BY DEF EchoInv, EchoTypeInv
  <2> QED
    BY <2>1, EchoClientsAssumption, FS_Subset, FS_CardinalityType
<1>2. kept \in [Nets -> 0..Cardinality(EchoClients)]
  BY <1>1 DEF EchoInv, EchoTypeInv, ClientInv
<1>3. {bound, replies, heard} \subseteq SUBSET EchoClients
  BY DEF EchoInv, EchoTypeInv
<1> QED
  BY <1>2, <1>3 DEF EchoInv, EchoTypeInv, EchoTypeOK

-----------------------------------------------------------------------------
(* The routing table program.                                              *)

\* What may be in the queue of the program, and in its buffer.
Datagrams == [from : {"nobody", "kernel", "other"}, type : {"routes", "done", "error"},
              msgs : Seq({"shown", "hidden", "end", "error"}), intr : BOOLEAN]

\* What the fields of a datagram say of each other.  Only an answer that fits
\* into one datagram is the whole table.
Sound(d) ==
  /\ d.from \in {"nobody", "kernel", "other"} /\ d.type \in {"routes", "done", "error"}
  /\ Len(d.msgs) \in Nat
  /\ d.from = "nobody" <=> d = Unset
  /\ d = Unset => Len(d.msgs) = 0 /\ d.type = "routes"
  /\ d.from = "kernel" => ~d.intr
  /\ d.from = "other" => d.type = "routes"
  /\ d.from = "kernel" /\ d.type = "routes" => /\ Len(d.msgs) <= MaxRoutes
                                               /\ d.msgs = table <=> Len(table) <= PerDatagram
  /\ d.type = "error" => d.from = "kernel" /\ Len(d.msgs) = 1
  /\ d.type # "routes" => \A i \in 1..Len(d.msgs) : d.msgs[i] # "shown"
  /\ DOMAIN d.msgs = 1..Len(d.msgs)

\* What is in the queue: before the request only what a stranger has sent.
InboxInv ==
  /\ table \in Seq({"shown", "hidden"}) /\ Len(table) <= MaxRoutes
  /\ inbox \in Seq(Datagrams)
  /\ \A i \in 1..Len(inbox) : /\ Sound(inbox[i]) /\ inbox[i].from # "nobody"
                              /\ dumpAt \in {"open", "request"} => inbox[i].from = "other"
  /\ Len(inbox) <= IF dumpAt \in {"open", "request"}
                   THEN (IF foreign THEN 1 ELSE 0) ELSE (IF foreign THEN 2 ELSE 1)
  /\ dumpAt \in {"malloc", "receive"} => Len(inbox) >= 1
  /\ foreign \in BOOLEAN

\* Messages before the pointer that the program prints.
PrintedBefore == {i \in 1..(pos - 1) : buf.msgs[i] = "shown"}

\* The buffer has been filled when the program looks at it, the pointer stays
\* in it, and what has been freed is known from the pointer.
BufInv ==
  /\ dumpAt \in {"open", "request", "peek", "malloc", "receive", "next", "continue",
                 "print", "free", "end"}
  /\ dumpFault \in {"none", "wild_free", "used_freed", "double_free"}
  /\ Sound(buf)
  /\ dumpAt \in {"open", "request", "peek", "malloc", "receive"} =>
       buf = Unset /\ pos = 1 /\ frees = 0
  /\ pos \in 1..(Len(buf.msgs) + 1)
  /\ dumpAt = "print" => pos <= Len(buf.msgs) /\ buf.from = "kernel"
  /\ buf.from # "kernel" => pos = 1
  /\ dumpAt = "free" => pos = Len(buf.msgs) + 1
  /\ buf.from = "kernel" /\ buf.type = "routes" /\ dumpAt = "end" => pos = Len(buf.msgs) + 1
  /\ dumpAt # "end" => dumpFault = "none"
  /\ dumpAt # "end" => frees = IF buf.type = "error" /\ (dumpAt = "print" \/ pos = 2) THEN 1 ELSE 0
  /\ dumpAt = "end" /\ buf # Unset => /\ frees = 1 <=> dumpFault # "double_free"
                                      /\ dumpFault \in {"used_freed", "double_free"} => buf.type = "error"
  /\ frees \in 0..2
  /\ dumpFault = "wild_free" => buf = Unset
  /\ buf = Unset => dumpFault \in {"none", "wild_free"}

\* The program has printed what is behind the pointer, each message once.
PrintInv == printed = Cardinality(PrintedBefore)

\* The state of the program as its buffer shows it.
DumpInv == InboxInv /\ BufInv /\ PrintInv
-----------------------------------------------------------------------------
\* The buffer before the first datagram.
LEMMA UnsetSound == Sound(Unset) /\ Unset.from = "nobody" /\ Len(Unset.msgs) = 0 /\ Unset.type = "routes"
BY DEF Sound, Unset, Datagram, Datagrams

\* What a stranger sends.
LEMMA ForeignSound ==
  ASSUME NEW intr \in BOOLEAN
  PROVE  Sound(Datagram("other", "routes", <<"shown">>, intr))
         /\ Datagram("other", "routes", <<"shown">>, intr).from = "other"
         /\ Datagram("other", "routes", <<"shown">>, intr) \in Datagrams
BY DEF Sound, Unset, Datagram, Datagrams

\* What the kernel answers with: the table, as much as one datagram takes, or
\* an error.
LEMMA AnswerSound ==
  ASSUME table' \in Seq({"shown", "hidden"}), Len(table') <= MaxRoutes,
         NEW d \in {FirstDatagram(table'), Datagram("kernel", "error", <<"error">>, FALSE)}
  PROVE  Sound(d)' /\ d.from = "kernel" /\ d \in Datagrams
<1> DEFINE t == table'
<1>1. CASE d = Datagram("kernel", "error", <<"error">>, FALSE)
  BY <1>1 DEF Sound, Datagram, Datagrams, Unset
<1>2. CASE t = <<>> /\ d = FirstDatagram(t)
  BY <1>2 DEF Sound, FirstDatagram, Datagram, Datagrams, Unset
<1>3. CASE t # <<>> /\ d = FirstDatagram(t)
  <2> DEFINE n == IF Len(t) < PerDatagram THEN Len(t) ELSE PerDatagram
  <2>1. d = Datagram("kernel", "routes", SubSeq(t, 1, n), FALSE)
    BY <1>3 DEF FirstDatagram
  <2>2. n \in 1..Len(t) /\ Len(t) \in Nat
    BY <1>3, RoutesAssumption, EmptySeq
  <2>3. SubSeq(t, 1, n) \in Seq({"shown", "hidden"}) /\ Len(SubSeq(t, 1, n)) = n
    BY <2>2
  <2>4. SubSeq(t, 1, n) \in Seq({"shown", "hidden", "end", "error"})
    BY <2>3, SeqMonotonic
  <2>5. (SubSeq(t, 1, n) = t) = (Len(t) <= PerDatagram)
    <3>1. CASE Len(t) <= PerDatagram
      <4>1. n = Len(t)
        BY <2>2, <3>1, RoutesAssumption
      <4> QED
        BY <4>1, <3>1, SubSeqFull
    <3>2. CASE ~(Len(t) <= PerDatagram)
      BY <2>2, <2>3, <3>2, RoutesAssumption
    <3> QED
      BY <3>1, <3>2
  <2> HIDE DEF n
  <2> QED
    BY <2>1, <2>2, <2>3, <2>4, <2>5, RoutesAssumption DEF Sound, Datagram, Datagrams, Unset
<1> QED
  BY <1>1, <1>2, <1>3

\* Nothing has come before the program opens its socket.
LEMMA DumpStart == DumpInit => DumpInv
<1> SUFFICES ASSUME DumpInit PROVE DumpInv
  OBVIOUS
<1>1. InboxInv
  <2>1. <<>> \in Seq(Datagrams) /\ <<>> \in Seq({"shown", "hidden"}) /\ Len(<<>>) = 0
    OBVIOUS
  <2>2. inbox = <<>> /\ ~foreign /\ foreign \in BOOLEAN
    BY Zenon DEF DumpInit
  <2> QED
    BY <2>1, <2>2, RoutesAssumption DEF DumpInit, InboxInv
<1>2. PrintedBefore = {}
  BY DEF DumpInit, PrintedBefore
<1>3. BufInv /\ PrintInv
  BY <1>2, UnsetSound, FS_EmptySet DEF DumpInit, BufInv, PrintInv
<1> QED
  BY <1>1, <1>3 DEF DumpInv

\* As long as the table stays, what has come stays what it is.
LEMMA SameTable == UNCHANGED table => \A d : Sound(d)' = Sound(d)
BY DEF Sound

\* The kernel answers in the system call of the request.
LEMMA DumpRequestSteps == DumpInv /\ Request => DumpInv'
<1> SUFFICES ASSUME DumpInv, Request PROVE DumpInv'
  OBVIOUS
<1> USE DEF DumpInv, incoming, traversal
<1>1. dumpAt = "request" /\ buf = Unset /\ UNCHANGED <<buf, pos, printed, frees, dumpFault>>
      /\ dumpAt' \in {"end", "peek"} /\ foreign' = foreign
  BY DEF Request, BufInv
<1>2. BufInv' /\ PrintInv'
  <2>1. Sound(buf)' /\ PrintedBefore' = PrintedBefore
    <3>1. Sound(buf)' = (Sound(buf) /\ TRUE)
      BY <1>1, UnsetSound DEF Sound
    <3> QED
      BY <1>1, <3>1, UnsetSound DEF PrintedBefore
  <2> QED
    BY <1>1, <2>1, UnsetSound DEF BufInv, PrintInv
<1>3. CASE dumpAt' = "end" /\ UNCHANGED <<table, inbox>>
  <2>1. InboxInv'
    BY <1>1, <1>3, SameTable DEF InboxInv
  <2> QED
    BY <1>2, <2>1
<1>4. CASE /\ dumpAt' = "peek"
           /\ table' \in UNION {[1..n -> {"shown", "hidden"}] : n \in 0..MaxRoutes}
           /\ inbox' \in {Append(inbox, d) : d \in {FirstDatagram(table'),
                                                Datagram("kernel", "error", <<"error">>, FALSE)}}
  <2>1. table' \in Seq({"shown", "hidden"}) /\ Len(table') <= MaxRoutes
    BY <1>4, RoutesAssumption
  <2>2. PICK d \in {FirstDatagram(table'), Datagram("kernel", "error", <<"error">>, FALSE)} :
          inbox' = Append(inbox, d)
    BY <1>4
  <2>3. Sound(d)' /\ d.from = "kernel" /\ d \in Datagrams
    BY <2>1, AnswerSound
  <2>4. \A e : Sound(e) /\ e.from = "other" => Sound(e)'
    BY DEF Sound
  <2>5. /\ inbox' \in Seq(Datagrams) /\ Len(inbox') = Len(inbox) + 1
        /\ \A i \in 1..Len(inbox) : inbox'[i] = inbox[i]
        /\ inbox'[Len(inbox) + 1] = d
    BY <2>2, <2>3 DEF InboxInv
  <2>6. \A i \in 1..Len(inbox') : inbox'[i] = d \/ \E j \in 1..Len(inbox) : inbox'[i] = inbox[j]
    BY <2>5 DEF InboxInv
  <2>7. ASSUME NEW i \in 1..Len(inbox') PROVE Sound(inbox[i])' /\ inbox'[i].from # "nobody"
    <3>1. CASE inbox'[i] = d
      BY <2>3, <3>1
    <3>2. CASE \E j \in 1..Len(inbox) : inbox'[i] = inbox[j]
      BY <1>1, <2>4, <3>2 DEF InboxInv
    <3> QED
      BY <2>6, <3>1, <3>2
  <2>8. InboxInv'
    BY <1>1, <1>4, <2>1, <2>5, <2>7 DEF InboxInv
  <2> QED
    BY <1>2, <2>8
<1> QED
  BY <1>3, <1>4 DEF Request

\* A datagram of a stranger comes in between.
LEMMA ForeignSteps == DumpInv /\ ForeignSends => DumpInv'
<1> SUFFICES ASSUME DumpInv, ForeignSends PROVE DumpInv'
  OBVIOUS
<1> USE DEF DumpInv, incoming, traversal
<1>1. PICK intr \in BOOLEAN : inbox' = Append(inbox, Datagram("other", "routes", <<"shown">>, intr))
  BY DEF ForeignSends
<1>2. UNCHANGED <<dumpAt, table, buf, pos, printed, frees, dumpFault>> /\ ~foreign /\ foreign' = TRUE
  BY DEF ForeignSends
<1>3. PICK d : d = Datagram("other", "routes", <<"shown">>, intr)
  OBVIOUS
<1>4. Sound(d) /\ d.from = "other" /\ d \in Datagrams
  BY <1>3, ForeignSound
<1>5. /\ inbox' \in Seq(Datagrams) /\ Len(inbox') = Len(inbox) + 1
      /\ \A i \in 1..Len(inbox) : inbox'[i] = inbox[i]
      /\ inbox'[Len(inbox) + 1] = d
  BY <1>1, <1>3, <1>4 DEF InboxInv
<1>6. \A i \in 1..Len(inbox') : inbox'[i] = d \/ \E j \in 1..Len(inbox) : inbox'[i] = inbox[j]
                                              /\ j = i
  BY <1>5 DEF InboxInv
<1>7. InboxInv'
  BY <1>2, <1>4, <1>5, <1>6, SameTable DEF InboxInv
<1>8. PrintedBefore' = PrintedBefore
  BY <1>2 DEF PrintedBefore
<1>9. BufInv' /\ PrintInv'
  BY <1>2, <1>8, SameTable DEF BufInv, PrintInv
<1> QED
  BY <1>7, <1>9

\* The steps that only lead towards the traversal.
LEMMA TowardsSteps ==
  DumpInv /\ (OpenNetlink \/ ReceiveFails \/ PeekLength \/ AllocBuf \/ Continue) => DumpInv'
<1> SUFFICES ASSUME DumpInv, OpenNetlink \/ ReceiveFails \/ PeekLength \/ AllocBuf \/ Continue
             PROVE  DumpInv'
  OBVIOUS
<1> USE DEF DumpInv, incoming, traversal, From, OpenNetlink, ReceiveFails, PeekLength, AllocBuf, Continue
<1>1. InboxInv'
  BY SameTable DEF InboxInv
<1>2. PrintedBefore' = PrintedBefore
  BY DEF PrintedBefore
<1>3. BufInv' /\ PrintInv'
  BY <1>2, SameTable, UnsetSound DEF BufInv, PrintInv
<1> QED
  BY <1>1, <1>3

\* The program takes the oldest datagram.
LEMMA ReceiveSteps == DumpInv /\ ReceiveDatagram => DumpInv'
<1> SUFFICES ASSUME DumpInv, ReceiveDatagram PROVE DumpInv'
  OBVIOUS
<1> USE DEF DumpInv, incoming, traversal
<1>1. UNCHANGED <<table, foreign, pos, printed, frees, dumpFault>> /\ dumpAt = "receive"
      /\ dumpAt' = "next" /\ buf' = Head(inbox) /\ inbox' = Tail(inbox)
  BY DEF ReceiveDatagram, From
<1>2. buf' = inbox[1] /\ 1 \in 1..Len(inbox)
  BY <1>1 DEF InboxInv
<1>3. Sound(buf') /\ buf'.from # "nobody"
  BY <1>2 DEF InboxInv
<1>4. InboxInv'
  <2>1. inbox' \in Seq(Datagrams) /\ Len(inbox') = Len(inbox) - 1
        /\ \A i \in 1..Len(inbox') : inbox'[i] = inbox[i + 1] /\ i + 1 \in 1..Len(inbox)
    BY <1>1 DEF InboxInv
  <2> QED
    BY <1>1, <2>1, SameTable DEF InboxInv
<1>5. PrintedBefore' = {} /\ PrintedBefore = {}
  BY <1>1 DEF PrintedBefore, BufInv
<1>6. BufInv' /\ PrintInv'
  BY <1>1, <1>3, <1>5, SameTable, UnsetSound DEF BufInv, Sound, PrintInv
<1> QED
  BY <1>4, <1>6

\* As long as nothing comes, the queue stays what it is.
LEMMA SameInbox ==
  ASSUME InboxInv, UNCHANGED <<table, inbox, foreign>>,
         dumpAt \notin {"open", "request"}, dumpAt' \notin {"open", "request", "malloc", "receive"}
  PROVE  InboxInv'
BY SameTable DEF InboxInv

\* The program looks at the sender and the type.
LEMMA ExamineSteps == DumpInv /\ Examine => DumpInv'
<1> SUFFICES ASSUME DumpInv, Examine PROVE DumpInv'
  OBVIOUS
<1> USE DEF DumpInv, incoming, traversal
<1>1. UNCHANGED <<table, inbox, foreign, buf, pos, printed, dumpFault>> /\ dumpAt = "next"
      /\ dumpAt' \in {"free", "end", "continue", "print"}
  BY DEF Examine
<1>2. InboxInv'
  BY <1>1, SameInbox
<1>3. PrintedBefore' = PrintedBefore /\ Sound(buf)'
  BY <1>1, SameTable DEF PrintedBefore, BufInv
<1>4. /\ Len(buf.msgs) \in Nat /\ pos \in Nat /\ pos <= Len(buf.msgs) + 1
      /\ buf = Unset => buf.from = "nobody" /\ Len(buf.msgs) = 0
      /\ buf.from = "nobody" => buf = Unset
  BY UnsetSound DEF BufInv, Sound
<1>5. CASE pos > Len(buf.msgs) /\ dumpAt' = "free" /\ UNCHANGED frees
  BY <1>1, <1>2, <1>3, <1>4, <1>5 DEF BufInv, PrintInv
<1>6. CASE pos <= Len(buf.msgs) /\ buf.intr /\ dumpAt' = "end" /\ frees' = frees + 1
  <2>1. buf.from = "other" /\ buf.type = "routes"
    BY <1>4, <1>6 DEF BufInv, Sound
  <2>2. frees' = 1 /\ dumpFault = "none"
    BY <1>1, <1>6, <2>1 DEF BufInv
  <2> QED
    BY <1>1, <1>2, <1>3, <1>4, <1>6, <2>1, <2>2 DEF BufInv, PrintInv
<1>7. CASE pos <= Len(buf.msgs) /\ buf.from # "kernel" /\ dumpAt' = "continue" /\ UNCHANGED frees
  BY <1>1, <1>2, <1>3, <1>4, <1>7 DEF BufInv, PrintInv
<1>8. CASE /\ pos <= Len(buf.msgs) /\ buf.from = "kernel" /\ dumpAt' = "print"
           /\ frees' = IF buf.type = "error" THEN frees + 1 ELSE frees
  <2>1. buf.type = "error" => pos = 1
    BY <1>4, <1>8 DEF BufInv, Sound
  <2>2. frees' = IF buf.type = "error" THEN 1 ELSE 0
    BY <1>1, <1>8, <2>1 DEF BufInv
  <2> QED
    BY <1>1, <1>2, <1>3, <1>4, <1>8, <2>2 DEF BufInv, PrintInv
<1> QED
  BY <1>2, <1>4, <1>5, <1>6, <1>7, <1>8 DEF Examine

\* One message more is behind the pointer.
LEMMA PrintSteps == DumpInv /\ PrintRoute => DumpInv'
<1> SUFFICES ASSUME DumpInv, PrintRoute PROVE DumpInv'
  OBVIOUS
<1> USE DEF DumpInv, incoming, traversal
<1>1. UNCHANGED <<table, inbox, foreign, buf, frees>> /\ dumpAt = "print"
      /\ dumpAt' \in {"next", "end"} /\ pos' = pos + 1
      /\ printed' = IF buf.msgs[pos] = "shown" THEN printed + 1 ELSE printed
  BY DEF PrintRoute
<1>2. InboxInv'
  BY <1>1, SameInbox
<1>3. /\ Len(buf.msgs) \in Nat /\ pos \in Nat \ {0} /\ pos <= Len(buf.msgs) /\ buf.from = "kernel"
      /\ frees = IF buf.type = "error" THEN 1 ELSE 0
      /\ buf # Unset /\ dumpFault = "none" /\ Sound(buf)'
      /\ buf.type = "error" => pos = 1
  BY <1>1, UnsetSound, SameTable DEF BufInv, Sound
<1>4. printed' = Cardinality(PrintedBefore')
  <2>1. IsFiniteSet(PrintedBefore) /\ pos \notin PrintedBefore
    <3>1. pos - 1 \in Int /\ PrintedBefore \in SUBSET (1..(pos - 1))
      BY <1>3 DEF PrintedBefore
    <3>2. IsFiniteSet(PrintedBefore)
      <4>1. IsFiniteSet(1..(pos - 1))
        BY <3>1, FS_Interval
      <4> QED
        BY <3>1, <4>1, FS_Subset
    <3> QED
      BY <1>3, <3>1, <3>2
  <2>2. PrintedBefore' = IF buf.msgs[pos] = "shown" THEN PrintedBefore \cup {pos} ELSE PrintedBefore
    BY <1>1, <1>3 DEF PrintedBefore
  <2> QED
    BY <1>1, <2>1, <2>2, FS_AddElement DEF PrintInv
<1>5. \/ dumpAt' = "next" /\ UNCHANGED dumpFault
      \/ frees > 0 /\ dumpAt' = "end" /\ dumpFault' = "used_freed"
  BY DEF PrintRoute
<1>6. BufInv'
  BY <1>1, <1>3, <1>4, <1>5 DEF BufInv
<1> QED
  BY <1>2, <1>4, <1>6 DEF PrintInv

\* The program frees its buffer in the end, once more after an error.
LEMMA FreeSteps == DumpInv /\ FreeBuf => DumpInv'
<1> SUFFICES ASSUME DumpInv, FreeBuf PROVE DumpInv'
  OBVIOUS
<1> USE DEF DumpInv, incoming, traversal
<1>1. UNCHANGED <<table, inbox, foreign, buf, pos, printed>> /\ dumpAt = "free" /\ dumpAt' = "end"
      /\ frees' = frees + 1
      /\ dumpFault' \in IF buf.from = "nobody" THEN {"none", "wild_free"}
                         ELSE IF frees > 0 THEN {"double_free"} ELSE {"none"}
  BY DEF FreeBuf, From
<1>2. InboxInv'
  BY <1>1, SameInbox
<1>3. PrintedBefore' = PrintedBefore /\ Sound(buf)'
  BY <1>1, SameTable DEF PrintedBefore, BufInv
<1>4. /\ buf = Unset => buf.from = "nobody" /\ buf.type = "routes"
      /\ buf.from = "nobody" => buf = Unset
      /\ frees = IF buf.type = "error" /\ pos = 2 THEN 1 ELSE 0
      /\ buf.type = "error" => pos = 2
  BY <1>1, UnsetSound DEF BufInv, Sound
<1>5. BufInv'
  BY <1>1, <1>3, <1>4 DEF BufInv
<1>6. PrintInv'
  BY <1>1, <1>3 DEF PrintInv
<1> QED
  BY <1>2, <1>5, <1>6

\* DumpInv holds in every reachable state of the program.
LEMMA DumpInvariance == DumpSpec => []DumpInv
<1>1. DumpInv /\ [DumpNext]_dumpVars => DumpInv'
  <2>1. DumpInv /\ UNCHANGED dumpVars => DumpInv'
    <3> SUFFICES ASSUME DumpInv, UNCHANGED dumpVars PROVE DumpInv'
      OBVIOUS
    <3> USE DEF DumpInv, dumpVars, incoming, traversal
    <3>1. InboxInv'
      BY SameTable DEF InboxInv
    <3>2. BufInv' /\ PrintInv'
      BY SameTable DEF BufInv, PrintInv, PrintedBefore
    <3> QED
      BY <3>1, <3>2
  <2> QED
    BY <2>1, TowardsSteps, DumpRequestSteps, ForeignSteps, ReceiveSteps, ExamineSteps, PrintSteps,
       FreeSteps DEF DumpNext, DumpStep
<1> QED
  BY <1>1, DumpStart, PTL DEF DumpSpec

\* It prints no more messages than the table may have.
LEMMA PrintedBounded ==
  ASSUME DumpInv
  PROVE  printed \in 0..MaxRoutes
<1> USE DEF DumpInv
<1>1. PrintedBefore \subseteq 1..(pos - 1) /\ pos - 1 \in Nat /\ pos - 1 <= Len(buf.msgs)
  BY DEF PrintedBefore, BufInv, Sound, Datagrams
<1>2. Cardinality(PrintedBefore) \in Nat /\ Cardinality(PrintedBefore) <= pos - 1
  <2>1. IsFiniteSet(1..(pos - 1)) /\ Cardinality(1..(pos - 1)) = pos - 1
    BY <1>1, FS_Interval
  <2> QED
    BY <1>1, <2>1, FS_Subset, FS_CardinalityType
<1>3. CASE buf.from = "kernel" /\ buf.type = "routes"
  <2>1. Len(buf.msgs) \in Nat /\ Len(buf.msgs) <= MaxRoutes
    BY <1>3 DEF BufInv, Sound
  <2> QED
    BY <1>1, <1>2, <2>1, RoutesAssumption DEF PrintInv
<1>4. CASE ~(buf.from = "kernel" /\ buf.type = "routes")
  <2>1. PrintedBefore = {}
    BY <1>1, <1>4 DEF BufInv, Sound, PrintedBefore, Datagrams
  <2> QED
    BY <2>1, FS_EmptySet, RoutesAssumption DEF PrintInv
<1> QED
  BY <1>3, <1>4

\* The type invariant that the run checks follows from it.
LEMMA DumpTypes == DumpInv => DumpTypeOK
<1> SUFFICES ASSUME DumpInv PROVE DumpTypeOK
  OBVIOUS
<1> QED
  BY PrintedBounded DEF DumpInv, InboxInv, BufInv, DumpTypeOK, Sound, Datagrams

\* So do the faults that the run allows, and no others.
LEMMA DumpFaults == DumpInv => DumpFaultsKnown
<1> SUFFICES ASSUME DumpInv PROVE DumpFaultsKnown
  OBVIOUS
<1>1. /\ dumpFault = "wild_free" => buf = Unset
      /\ dumpFault \in {"used_freed", "double_free"} => buf.type = "error"
      /\ dumpAt = "end" /\ buf # Unset => (frees = 1) = (dumpFault # "double_free")
  BY DEF DumpInv, BufInv
<1>2. ASSUME dumpAt = "end", buf.from = "kernel", buf.type = "routes"
      PROVE  /\ printed = Cardinality(ShownOf(buf.msgs))
             /\ (buf.msgs = table) = (Len(table) <= PerDatagram)
  <2>1. PrintedBefore = ShownOf(buf.msgs)
    BY <1>2 DEF DumpInv, BufInv, Sound, Datagrams, PrintedBefore, ShownOf
  <2> QED
    BY <1>2, <2>1 DEF DumpInv, BufInv, Sound, PrintInv
<1> QED
  BY <1>1, <1>2 DEF DumpFaultsKnown

-----------------------------------------------------------------------------
(* The network monitor.                                                    *)

\* What the monitor has read or will read.
Known  == shown \o monitorSock.msgs

\* An error waits for the monitor.
Warned == IF monitorSock.error THEN 1 ELSE 0

\* The monitor has a queue only while it reads; a full queue leaves an error.
QueueInv ==
  /\ monitorAt \in {"start", "read", "asleep", "end"}
  /\ changes \in Nat /\ changes <= MaxChanges
  /\ monitorSock \in [msgs : Seq(Nat), error : BOOLEAN, congested : BOOLEAN]
  /\ Len(monitorSock.msgs) <= QueueMax
  /\ shown \in Seq(Nat)
  /\ failures \in Nat /\ failures + Warned <= changes
  /\ monitorSock.error => monitorSock.congested
  /\ monitorAt \in {"start", "end"} => monitorSock = EmptyQueue /\ shown = <<>>

\* What is known are changes in their order, with no more gaps than errors.
\* A queue that has dropped a change ends before the last one.
KnownInv ==
  /\ \A i \in 1..Len(Known) : Known[i] \in 1..changes
  /\ Increasing(Known)
  /\ Cardinality(Gaps(Known, changes)) <= failures + Warned
  /\ monitorSock.congested => Len(Known) > 0 /\ Known[Len(Known)] < changes

\* Each gap in what is known stands for one error.
MonitorInv == QueueInv /\ KnownInv
-----------------------------------------------------------------------------
-----------------------------------------------------------------------------
\* The next change adds no gap.
LEMMA GapsOfAppended ==
  ASSUME NEW s \in Seq(Nat), NEW n \in Nat, \A i \in 1..Len(s) : s[i] <= n
  PROVE  Gaps(Append(s, n + 1), n + 1) = Gaps(s, n)
<1> DEFINE t == Append(s, n + 1)
<1>1. /\ t \in Seq(Nat) /\ Len(t) = Len(s) + 1 /\ Len(s) \in Nat
      /\ \A i \in 1..Len(s) : t[i] = s[i]
      /\ t[Len(s) + 1] = n + 1
  BY AppendProperties
<1>2. \A i \in 1..Len(s) : s[i] \in Nat /\ (i # Len(s) => i + 1 \in 1..Len(s))
  BY ElementOfSeq
<1> HIDE DEF t
<1>3. ASSUME NEW i \in 1..Len(s) PROVE i \in Gaps(t, n + 1) <=> i \in Gaps(s, n)
  <2>1. CASE i = Len(s)
    BY <1>1, <1>2, <2>1 DEF Gaps
  <2>2. CASE i # Len(s)
    <3>1. i + 1 \in 1..Len(s) /\ i # Len(t) /\ t[i] = s[i] /\ t[i + 1] = s[i + 1]
      BY <1>1, <1>2, <2>2
    <3>2. i \in DOMAIN t /\ i \in DOMAIN s
      BY <1>1
    <3> QED
      BY <2>2, <3>1, <3>2 DEF Gaps
  <2> QED
    BY <2>1, <2>2
<1>4. Len(s) + 1 \notin Gaps(t, n + 1)
  BY <1>1 DEF Gaps
<1>5. Gaps(t, n + 1) \subseteq 1..(Len(s) + 1) /\ Gaps(s, n) \subseteq 1..Len(s)
  BY <1>1 DEF Gaps
<1>6. Gaps(t, n + 1) = Gaps(s, n)
  <2>1. \A i \in 1..(Len(s) + 1) : i \in 1..Len(s) \/ i = Len(s) + 1
    BY <1>1
  <2>2. \A i \in Gaps(t, n + 1) : i \in Gaps(s, n)
    BY <1>3, <1>4, <1>5, <2>1
  <2>3. \A i \in Gaps(s, n) : i \in Gaps(t, n + 1)
    BY <1>3, <1>5
  <2> QED
    BY <2>2, <2>3
<1> QED
  BY <1>6 DEF t

\* A change that is dropped adds one gap, after the last that is known, unless
\* that gap is there already.
LEMMA GapsOfDropped ==
  ASSUME NEW s \in Seq(Nat), NEW n \in Nat, \A i \in 1..Len(s) : s[i] <= n
  PROVE  /\ Gaps(s, n + 1) \subseteq Gaps(s, n) \cup {Len(s)}
         /\ Len(s) = 0 \/ s[Len(s)] < n => Gaps(s, n + 1) = Gaps(s, n)
         /\ IsFiniteSet(Gaps(s, n)) /\ Cardinality(Gaps(s, n)) \in Nat
<1>1. Len(s) \in Nat /\ DOMAIN s = 1..Len(s) /\ \A i \in 1..Len(s) : s[i] \in Nat
  BY ElementOfSeq, LenProperties
<1>2. Gaps(s, n + 1) \subseteq Gaps(s, n) \cup {Len(s)}
  BY <1>1 DEF Gaps
<1>3. Len(s) = 0 \/ s[Len(s)] < n => Gaps(s, n + 1) = Gaps(s, n)
  BY <1>1 DEF Gaps
<1>4. Gaps(s, n) \in SUBSET (1..Len(s)) /\ IsFiniteSet(1..Len(s))
  BY <1>1, FS_Interval DEF Gaps
<1> QED
  BY <1>2, <1>3, <1>4, FS_Subset, FS_CardinalityType

\* Nothing has changed before the monitor starts.
LEMMA MonitorStart == MonitorInit => MonitorInv
<1> SUFFICES ASSUME MonitorInit PROVE MonitorInv
  OBVIOUS
<1>1. monitorSock = EmptyQueue /\ monitorSock.msgs = <<>> /\ ~monitorSock.error
      /\ monitorSock.error \in BOOLEAN /\ monitorSock.congested \in BOOLEAN
      /\ ~monitorSock.congested /\ shown = <<>>
  BY DEF MonitorInit, EmptyQueue
<1>2. Known = <<>>
  BY <1>1 DEF Known
<1>3. QueueInv
  <2>1. EmptyQueue \in [msgs : Seq(Nat), error : BOOLEAN, congested : BOOLEAN]
    BY DEF EmptyQueue
  <2> QED
    BY <1>1, <2>1, QueueMaxAssumption, MaxChangesAssumption DEF MonitorInit, QueueInv, Warned
<1>4. Gaps(Known, changes) = {} /\ Increasing(Known)
  BY <1>2 DEF Gaps, Increasing
<1>5. KnownInv
  BY <1>1, <1>2, <1>4, FS_EmptySet DEF KnownInv, MonitorInit, Warned
<1> QED
  BY <1>3, <1>5 DEF MonitorInv

\* What is known is a sequence of numbers.
LEMMA KnownType ==
  ASSUME MonitorInv
  PROVE  /\ Known \in Seq(Nat) /\ Len(Known) \in Nat /\ DOMAIN Known = 1..Len(Known)
         /\ \A i \in 1..Len(Known) : Known[i] \in Nat /\ Known[i] <= changes
         /\ Len(Known) = Len(shown) + Len(monitorSock.msgs)
         /\ Len(shown) \in Nat /\ Len(monitorSock.msgs) \in Nat
         /\ monitorSock.error \in BOOLEAN /\ monitorSock.congested \in BOOLEAN
<1>1. shown \in Seq(Nat) /\ monitorSock.msgs \in Seq(Nat)
      /\ monitorSock.error \in BOOLEAN /\ monitorSock.congested \in BOOLEAN
  BY DEF MonitorInv, QueueInv
<1>2. Known \in Seq(Nat) /\ Len(Known) = Len(shown) + Len(monitorSock.msgs)
  BY <1>1, ConcatProperties DEF Known
<1>3. \A i \in 1..Len(Known) : Known[i] \in Nat /\ Known[i] <= changes
  BY DEF MonitorInv, QueueInv, KnownInv
<1>4. /\ Len(Known) \in Nat /\ DOMAIN Known = 1..Len(Known)
      /\ Len(shown) \in Nat /\ Len(monitorSock.msgs) \in Nat
  BY <1>1, <1>2, LenProperties
<1> QED
  BY <1>1, <1>2, <1>3, <1>4

\* What the monitor does with the queue: nothing, take the error, take a message.
LEMMA MonitorSteps ==
  MonitorInv /\ (BindMonitor \/ ReadNothing \/ WakeMonitor \/ ReadError \/ ReadChange) => MonitorInv'
<1> SUFFICES ASSUME MonitorInv, BindMonitor \/ ReadNothing \/ WakeMonitor \/ ReadError \/ ReadChange
             PROVE  MonitorInv'
  OBVIOUS
<1>1. CASE BindMonitor \/ ReadNothing \/ WakeMonitor
  <2>1. UNCHANGED <<changes, monitorSock, shown, failures>> /\ monitorAt' \in {"read", "asleep", "end"}
        /\ (monitorAt' = "end" => monitorAt = "start")
    BY <1>1 DEF BindMonitor, ReadNothing, WakeMonitor
  <2>2. Known' = Known /\ Warned' = Warned
    BY <2>1 DEF Known, Warned
  <2>3. QueueInv'
    BY <2>1, <2>2 DEF MonitorInv, QueueInv
  <2>4. KnownInv'
    BY <2>1, <2>2 DEF MonitorInv, KnownInv
  <2> QED
    BY <2>3, <2>4 DEF MonitorInv
<1>2. CASE ReadError
  <2>1. /\ UNCHANGED <<monitorAt, changes, shown>> /\ monitorAt = "read"
        /\ monitorSock.error /\ failures' = failures + 1
        /\ monitorSock' = ErrorTaken(monitorSock)
    BY <1>2 DEF ReadError
  <2>2. /\ monitorSock' \in [msgs : Seq(Nat), error : BOOLEAN, congested : BOOLEAN]
        /\ monitorSock'.msgs = monitorSock.msgs /\ ~monitorSock'.error
        /\ monitorSock'.congested => monitorSock.congested
    BY <2>1 DEF ErrorTaken, Relaxed, MonitorInv, QueueInv
  <2>3. Known' = Known /\ Warned' = 0 /\ Warned = 1
    BY <2>1, <2>2 DEF Known, Warned
  <2>4. QueueInv'
    BY <2>1, <2>2, <2>3 DEF MonitorInv, QueueInv
  <2>5. KnownInv'
    BY <2>1, <2>2, <2>3 DEF MonitorInv, KnownInv, QueueInv
  <2> QED
    BY <2>4, <2>5 DEF MonitorInv
<1>3. CASE ReadChange
  <2> DEFINE q == monitorSock.msgs
  <2>1. /\ UNCHANGED <<changes, failures>> /\ monitorAt' = "asleep"
        /\ ~monitorSock.error /\ q # <<>>
        /\ shown' = Append(shown, Head(q))
        /\ monitorSock' = HeadTaken(monitorSock)
    BY <1>3 DEF ReadChange
  <2>2. /\ monitorSock'.msgs = Tail(q) /\ monitorSock'.error = monitorSock.error
        /\ monitorSock'.congested => monitorSock.congested
        /\ monitorSock'.congested \in BOOLEAN
        /\ monitorSock' = [msgs |-> Tail(q), error |-> monitorSock'.error,
                           congested |-> monitorSock'.congested]
    BY <2>1 DEF HeadTaken, Relaxed, MonitorInv, QueueInv
  <2>3. q \in Seq(Nat) /\ shown \in Seq(Nat) /\ monitorSock.error \in BOOLEAN
    BY DEF MonitorInv, QueueInv
  <2>4. /\ Known' = Known /\ Warned' = Warned
        /\ shown' \in Seq(Nat) /\ Tail(q) \in Seq(Nat) /\ Len(Tail(q)) = Len(q) - 1
    <3>1. Append(shown, Head(q)) \o Tail(q) = shown \o q
          /\ Append(shown, Head(q)) \in Seq(Nat) /\ Tail(q) \in Seq(Nat) /\ Len(Tail(q)) = Len(q) - 1
      BY <2>1, <2>3, Moved
    <3>2. Warned' = Warned
      BY <2>2 DEF Warned
    <3> QED
      BY <2>1, <2>2, <3>1, <3>2 DEF Known
  <2>5. QueueInv'
    <3>1. monitorSock' \in [msgs : Seq(Nat), error : BOOLEAN, congested : BOOLEAN]
      BY <2>2, <2>3, <2>4
    <3>2. Len(monitorSock'.msgs) <= QueueMax
      BY <2>2, <2>3, <2>4, QueueMaxAssumption DEF MonitorInv, QueueInv
    <3> QED
      BY <2>1, <2>2, <2>4, <3>1, <3>2 DEF MonitorInv, QueueInv
  <2>6. KnownInv'
    BY <2>1, <2>2, <2>4 DEF MonitorInv, KnownInv
  <2> QED
    BY <2>5, <2>6 DEF MonitorInv
<1> QED
  BY <1>1, <1>2, <1>3

\* A change that is dropped opens a gap only behind a queue that was not
\* congested, and then there is a new error.
LEMMA ChangeSteps == MonitorInv /\ Change => MonitorInv'
<1> SUFFICES ASSUME MonitorInv, Change PROVE MonitorInv'
  OBVIOUS
<1> DEFINE n == changes
           m == n + 1
           q == monitorSock.msgs
<1>1. /\ changes' = m /\ UNCHANGED <<monitorAt, shown, failures>> /\ m <= MaxChanges /\ n \in Nat
      /\ \A i \in 1..Len(Known) : Known[i] <= n
      /\ Increasing(Known) /\ Cardinality(Gaps(Known, n)) <= failures + Warned
      /\ q \in Seq(Nat) /\ shown \in Seq(Nat) /\ Len(q) <= QueueMax
      /\ failures \in Nat /\ failures + Warned <= n
      /\ monitorSock \in [msgs : Seq(Nat), error : BOOLEAN, congested : BOOLEAN]
      /\ monitorSock.error => monitorSock.congested
      /\ Warned \in {0, 1}
  BY KnownType, MaxChangesAssumption DEF Change, MonitorInv, QueueInv, KnownInv, Warned
<1>2. CASE monitorAt \notin {"read", "asleep"}
  <2>1. monitorSock' = monitorSock /\ Known' = <<>> /\ monitorSock = EmptyQueue /\ Warned' = Warned
        /\ Known = <<>> /\ monitorAt' = monitorAt
    BY <1>1, <1>2 DEF Change, MonitorInv, QueueInv, Known, EmptyQueue, Warned
  <2>2. Gaps(Known', m) = {} /\ Increasing(Known') /\ Len(<<>>) = 0 /\ Warned = 0
        /\ ~monitorSock.congested
    BY <2>1 DEF Gaps, Increasing, EmptyQueue, Warned
  <2>3. QueueInv'
    <3>1. failures + Warned' <= m
      BY <1>1, <2>1
    <3> QED
      BY <1>1, <2>1, <3>1 DEF MonitorInv, QueueInv
  <2>4. KnownInv'
    <3>1. Cardinality(Gaps(Known', m)) <= failures + Warned'
      <4>1. Cardinality({}) = 0
        BY FS_EmptySet
      <4>2. Cardinality(Gaps(Known', m)) = 0
        BY <2>2, <4>1
      <4>3. failures \in Nat /\ Warned' = 0
        BY <1>1, <2>1, <2>2
      <4> QED
        BY <4>2, <4>3
    <3> QED
      BY <1>1, <2>1, <2>2, <3>1 DEF KnownInv
  <2> QED
    BY <2>3, <2>4 DEF MonitorInv
<1>3. CASE monitorAt \in {"read", "asleep"} /\ Accepts(monitorSock)
  <2>1. /\ monitorSock' = [monitorSock EXCEPT !.msgs = Append(q, m)]
        /\ ~monitorSock.congested /\ Len(q) < QueueMax /\ ~monitorSock.error
    BY <1>1, <1>3 DEF Change, Offer, Accepts
  <2>2. /\ shown \o Append(q, m) = Append(Known, m)
        /\ Append(q, m) \in Seq(Nat) /\ Len(Append(q, m)) = Len(q) + 1
    BY <1>1, Added DEF Known
  <2>3. /\ monitorSock' \in [msgs : Seq(Nat), error : BOOLEAN, congested : BOOLEAN]
        /\ monitorSock'.msgs = Append(q, m) /\ monitorSock'.error = monitorSock.error
        /\ monitorSock'.congested = monitorSock.congested
    BY <1>1, <2>1, <2>2
  <2>4. Known' = Append(Known, m) /\ Warned' = Warned
    BY <1>1, <2>2, <2>3 DEF Known, Warned
  <2>5. QueueInv'
    <3>1. failures + Warned' <= m /\ Len(Append(q, m)) <= QueueMax
      <4>1. Len(q) \in Nat
        BY KnownType
      <4> QED
        BY <1>1, <2>1, <2>2, <2>4, <4>1, QueueMaxAssumption
    <3> QED
      BY <1>1, <1>3, <2>1, <2>3, <3>1 DEF MonitorInv, QueueInv
  <2>6. Gaps(Known', m) = Gaps(Known, n)
    BY <1>1, <2>4, KnownType, GapsOfAppended
  <2>7. /\ Len(Known') = Len(Known) + 1 /\ DOMAIN Known' = 1..(Len(Known) + 1)
        /\ \A i \in 1..Len(Known) : Known'[i] = Known[i] /\ Known[i] <= n /\ Known[i] \in 1..n
        /\ Known'[Len(Known) + 1] = m /\ Len(Known) \in Nat
    <3>1. \A i \in 1..Len(Known) : Known[i] \in 1..n
      BY DEF MonitorInv, KnownInv
    <3> QED
      <4>1. Known \in Seq(Nat) /\ Len(Known) \in Nat
        BY KnownType
      <4>2. m \in Nat
        BY <1>1
      <4>3. /\ Known' \in Seq(Nat) /\ Len(Known') = Len(Known) + 1
            /\ \A i \in 1..Len(Known) : Known'[i] = Known[i]
            /\ Known'[Len(Known) + 1] = m
        BY <2>4, <4>1, <4>2, AppendProperties
      <4> QED
        BY <1>1, <3>1, <4>1, <4>3, LenProperties
  <2>8. Increasing(Known')
    <3>1. \A i, j \in 1..Len(Known) : i < j => Known[i] < Known[j]
      BY <1>1, KnownType DEF Increasing
    <3> QED
      <4> SUFFICES ASSUME NEW i \in 1..(Len(Known) + 1), NEW j \in 1..(Len(Known) + 1), i < j
                   PROVE  Known'[i] < Known'[j]
        BY <2>7 DEF Increasing
      <4>1. i \in 1..Len(Known) /\ (j \in 1..Len(Known) \/ j = Len(Known) + 1)
        BY <2>7
      <4>2. CASE j \in 1..Len(Known)
        BY <2>7, <3>1, <4>1, <4>2
      <4>3. CASE j = Len(Known) + 1
        <5>1. Known'[i] \in Nat /\ Known'[i] <= n /\ Known'[j] = m
          BY <2>7, <4>1, <4>3
        <5> QED
          BY <1>1, <5>1
      <4> QED
        BY <4>1, <4>2, <4>3
  <2>9. \A i \in 1..Len(Known') : Known'[i] \in 1..m
    <3> TAKE i \in 1..Len(Known')
    <3>1. i \in 1..Len(Known) \/ i = Len(Known) + 1
      BY <2>7
    <3>2. CASE i \in 1..Len(Known)
      <4>1. Known'[i] \in Nat /\ Known'[i] >= 1 /\ Known'[i] <= n
        BY <2>7, <3>2
      <4> QED
        BY <1>1, <4>1
    <3>3. CASE i = Len(Known) + 1
      <4>1. Known'[i] = m
        BY <2>7, <3>3
      <4> QED
        BY <1>1, <4>1
    <3> QED
      BY <3>1, <3>2, <3>3
  <2>10. KnownInv'
    BY <1>1, <2>1, <2>3, <2>4, <2>6, <2>8, <2>9 DEF KnownInv
  <2> QED
    BY <2>5, <2>10 DEF MonitorInv
<1>4. CASE monitorAt \in {"read", "asleep"} /\ ~Accepts(monitorSock)
  <2>1. monitorSock' = [monitorSock EXCEPT !.error = @ \/ ~monitorSock.congested, !.congested = TRUE]
    BY <1>4 DEF Change, Offer
  <2>2. /\ monitorSock'.msgs = q /\ monitorSock'.congested
        /\ monitorSock'.error <=> monitorSock.error \/ ~monitorSock.congested
        /\ monitorSock' \in [msgs : Seq(Nat), error : BOOLEAN, congested : BOOLEAN]
    BY <1>1, <2>1
  <2>3. Known' = Known /\ Warned' = (IF monitorSock.congested THEN Warned ELSE 1)
        /\ (~monitorSock.congested => Warned = 0) /\ Warned \in {0, 1}
    BY <1>1, <2>2 DEF Known, Warned
  <2>4. Len(Known) > 0
    <3>1. CASE monitorSock.congested
      BY <3>1 DEF MonitorInv, KnownInv
    <3>2. CASE Len(q) >= QueueMax
      <4>1. Len(Known) = Len(shown) + Len(q) /\ Len(shown) \in Nat /\ Len(q) \in Nat
        BY KnownType
      <4> QED
        BY <3>2, <4>1, QueueMaxAssumption
    <3> QED
      BY <1>1, <1>4, <3>1, <3>2, QueueMaxAssumption DEF Accepts
  <2>5. QueueInv'
    BY <1>1, <1>4, <2>2, <2>3 DEF MonitorInv, QueueInv
  <2>6. Cardinality(Gaps(Known, m)) <= failures + Warned'
    <3>1. CASE monitorSock.congested
      <4>1. Known[Len(Known)] < n
        BY <3>1 DEF MonitorInv, KnownInv
      <4>2. Gaps(Known, m) = Gaps(Known, n)
        BY <1>1, <4>1, KnownType, GapsOfDropped
      <4> QED
        BY <1>1, <2>3, <3>1, <4>2
    <3>2. CASE ~monitorSock.congested
      <4>1. /\ Gaps(Known, m) \subseteq Gaps(Known, n) \cup {Len(Known)}
            /\ IsFiniteSet(Gaps(Known, n)) /\ Cardinality(Gaps(Known, n)) \in Nat
        BY <1>1, KnownType, GapsOfDropped
      <4>2. /\ IsFiniteSet(Gaps(Known, n) \cup {Len(Known)})
            /\ Cardinality(Gaps(Known, n) \cup {Len(Known)}) <= Cardinality(Gaps(Known, n)) + 1
            /\ Cardinality(Gaps(Known, n) \cup {Len(Known)}) \in Nat
        <5>1. /\ IsFiniteSet(Gaps(Known, n) \cup {Len(Known)})
              /\ Cardinality(Gaps(Known, n) \cup {Len(Known)})
                   = IF Len(Known) \in Gaps(Known, n) THEN Cardinality(Gaps(Known, n))
                     ELSE Cardinality(Gaps(Known, n)) + 1
          BY <4>1, FS_AddElement
        <5> QED
          BY <4>1, <5>1
      <4>3. /\ Cardinality(Gaps(Known, m)) <= Cardinality(Gaps(Known, n) \cup {Len(Known)})
            /\ Cardinality(Gaps(Known, m)) \in Nat
        BY <4>1, <4>2, FS_Subset, FS_CardinalityType
      <4> QED
        BY <1>1, <2>3, <3>2, <4>1, <4>2, <4>3
    <3> QED
      BY <3>1, <3>2
  <2>7. \A i \in 1..Len(Known) : Known[i] \in 1..m /\ Known[i] < m
    BY <1>1 DEF MonitorInv, KnownInv
  <2>8. KnownInv'
    <3>1. Len(Known) \in Nat
      BY KnownType
    <3>2. Len(Known) \in 1..Len(Known)
      BY <2>4, <3>1
    <3>3. Known[Len(Known)] < m
      BY <2>7, <3>2
    <3> QED
      BY <1>1, <2>2, <2>3, <2>4, <2>6, <2>7, <3>3 DEF KnownInv
  <2> QED
    BY <2>5, <2>8 DEF MonitorInv
<1> QED
  BY <1>2, <1>3, <1>4

\* MonitorInv holds in every reachable state of the monitor.
LEMMA MonitorInvariance == MonitorSpec => []MonitorInv
<1>1. MonitorInv /\ [MonitorNext]_monitorVars => MonitorInv'
  <2>1. MonitorInv /\ UNCHANGED monitorVars => MonitorInv'
    BY DEF MonitorInv, QueueInv, KnownInv, Known, Warned, monitorVars
  <2> QED
    BY <2>1, MonitorSteps, ChangeSteps DEF MonitorNext
<1> QED
  BY <1>1, MonitorStart, PTL DEF MonitorSpec

\* It implies that the monitor hears of each change or of an error.
LEMMA MonitorIsTold == MonitorInv => MonitorTold
BY DEF MonitorInv, KnownInv, Known, Warned, MonitorTold

\* A sequence is one over its elements.
LEMMA SeqOver ==
  ASSUME NEW S, NEW T, NEW s \in Seq(S), \A i \in 1..Len(s) : s[i] \in T
  PROVE  s \in Seq(T)
<1>1. Len(s) \in Nat /\ s \in [1..Len(s) -> S]
  BY LenProperties
<1>2. s \in [1..Len(s) -> T]
  BY <1>1
<1> QED
  BY <1>1, <1>2

\* The type invariant that the run checks follows from it.
LEMMA MonitorTypes == MonitorInv => MonitorTypeOK
<1> SUFFICES ASSUME MonitorInv PROVE MonitorTypeOK
  OBVIOUS
<1> DEFINE q == monitorSock.msgs
<1>1. q \in Seq(Nat) /\ shown \in Seq(Nat) /\ Len(q) \in Nat /\ Len(shown) \in Nat
  BY LenProperties DEF MonitorInv, QueueInv
<1>2. /\ \A i \in 1..Len(shown) : Known[i] = shown[i] /\ i \in 1..Len(Known)
      /\ \A i \in 1..Len(q) : Known[Len(shown) + i] = q[i] /\ Len(shown) + i \in 1..Len(Known)
  BY <1>1 DEF Known
<1>3. \A i \in 1..Len(Known) : Known[i] \in 1..changes
  BY DEF MonitorInv, KnownInv
<1>4. \A i \in 1..Len(shown) : shown[i] \in 1..changes
  BY <1>2, <1>3
<1>5. \A i \in 1..Len(q) : q[i] \in 1..changes
  BY <1>2, <1>3
<1>6. q \in Seq(1..changes) /\ shown \in Seq(1..changes)
  BY <1>1, <1>4, <1>5, SeqOver
<1>7. {monitorSock.error, monitorSock.congested} \subseteq BOOLEAN
  BY DEF MonitorInv, QueueInv
<1>8. failures \in 0..MaxChanges
  BY MaxChangesAssumption DEF MonitorInv, QueueInv, Warned
<1> QED
  BY <1>6, <1>7, <1>8 DEF MonitorInv, QueueInv, MonitorTypeOK

-----------------------------------------------------------------------------
(* The multicast driver and its programs.                                  *)

\* Nothing is in a sequence twice.
NoTwice(q) == \A i, j \in DOMAIN q : i # j => q[i] # q[j]

\* What a listener has printed or has in its queue.
KnownOf(l) == mcPrinted[l] \o mcQueue[l].msgs

\* Every variable stays in its range.
McTypeInv ==
  /\ mcSock \in {"none", "created", "stored"}
  /\ mcUsed \in BOOLEAN
  /\ mcAt \in [Members -> {"start", "joined", "callback", "multicast", "sent", "read", "end"}]
  /\ group \in Seq(Members)
  /\ mcQueue \in [Members -> [msgs : Seq(Members), error : BOOLEAN, congested : BOOLEAN]]
  /\ \A p \in Members : Len(mcQueue[p].msgs) <= QueueMax
  /\ targets \in [Members -> Seq(Members)]
  /\ mcPrinted \in [Listeners -> Seq(Members)]
  /\ swallowed \in [Listeners -> Nat]
  /\ owed \in [Listeners -> SUBSET Members]
  /\ dropped \in [Listeners -> SUBSET Members]
  /\ mcFault \in {"none", "null", "unloaded"}

\* Who has joined and not ended is in the group, once.
GroupInv ==
  /\ NoTwice(group)
  /\ \A p \in Members : p \in Elements(group) <=> mcAt[p] \notin {"start", "end"}

\* A message is delivered only in the callback, to each member once.
TargetInv == \A s \in Members : /\ NoTwice(targets[s])
                                /\ targets[s] # <<>> => mcAt[s] = "multicast"

\* What a listener knows was sent, and is not on its way to it any more.
OnceInv ==
  \A l \in Listeners :
    /\ NoTwice(KnownOf(l))
    /\ \A s \in Elements(KnownOf(l)) : /\ mcAt[s] \notin {"start", "joined", "callback"}
                                       /\ l \notin Elements(targets[s])
    /\ mcAt[l] # "read" => mcPrinted[l] = <<>>

\* What is owed to a member of the group is known to it, dropped, or on its
\* way.  A queue that drops leaves an error, or has left one that was read.
OwedInv ==
  \A l \in Listeners :
    /\ mcAt[l] = "start" => owed[l] = {} /\ dropped[l] = {} /\ ~mcQueue[l].congested
    /\ l \in Elements(group) =>
         /\ \A s \in owed[l] : \/ s \in Elements(KnownOf(l)) \cup dropped[l]
                               \/ l \in Elements(targets[s])
         /\ dropped[l] # {} \/ mcQueue[l].congested => mcQueue[l].error \/ swallowed[l] > 0

\* Each message is at one place for each listener.
McInv == McTypeInv /\ GroupInv /\ TargetInv /\ OnceInv /\ OwedInv
-----------------------------------------------------------------------------
\* Nothing is in the empty sequence.
LEMMA ElementsOfEmpty == Elements(<<>>) = {} /\ NoTwice(<<>>)
  BY DEF Elements, NoTwice

\* Without its head a sequence has lost that element.
LEMMA ElementsOfTail ==
  ASSUME NEW S, NEW q \in Seq(S), q # <<>>, NoTwice(q)
  PROVE  /\ Tail(q) \in Seq(S) /\ Head(q) \in S
         /\ NoTwice(Tail(q)) /\ Elements(Tail(q)) = Elements(q) \ {Head(q)}
         /\ Head(q) \in Elements(q)
<1>1. Len(q) \in Nat \ {0} /\ DOMAIN q = 1..Len(q) /\ Head(q) = q[1] /\ Head(q) \in S
  BY EmptySeq, HeadTailProperties, LenProperties
<1>2. /\ Tail(q) \in Seq(S) /\ DOMAIN Tail(q) = 1..(Len(q) - 1)
      /\ \A i \in 1..(Len(q) - 1) : Tail(q)[i] = q[i + 1]
  BY <1>1, HeadTailProperties, LenProperties
<1>3. NoTwice(Tail(q))
  BY <1>1, <1>2 DEF NoTwice
<1>4. Head(q) \in Elements(q)
  BY <1>1 DEF Elements
<1>5. ASSUME NEW x \in Elements(Tail(q)) PROVE x \in Elements(q) \ {Head(q)}
  <2>1. PICK i \in 1..(Len(q) - 1) : x = q[i + 1]
    BY <1>2 DEF Elements
  <2>2. i + 1 \in 1..Len(q) /\ 1 \in 1..Len(q) /\ i + 1 # 1
    BY <1>1
  <2> QED
    BY <1>1, <2>1, <2>2 DEF Elements, NoTwice
<1>6. ASSUME NEW x \in Elements(q) \ {Head(q)} PROVE x \in Elements(Tail(q))
  <2>1. PICK i \in 1..Len(q) : x = q[i]
    BY <1>1 DEF Elements
  <2>2. i - 1 \in 1..(Len(q) - 1) /\ (i - 1) + 1 = i
    BY <1>1, <2>1
  <2> QED
    BY <1>2, <2>1, <2>2 DEF Elements
<1> QED
  BY <1>1, <1>2, <1>3, <1>4, <1>5, <1>6

\* One element more at the end.
LEMMA ElementsOfAppend ==
  ASSUME NEW S, NEW q \in Seq(S), NEW m \in S
  PROVE  /\ Elements(Append(q, m)) = Elements(q) \cup {m}
         /\ NoTwice(q) /\ m \notin Elements(q) => NoTwice(Append(q, m))
<1>1. /\ Len(q) \in Nat /\ DOMAIN q = 1..Len(q) /\ DOMAIN Append(q, m) = 1..(Len(q) + 1)
      /\ \A i \in 1..Len(q) : Append(q, m)[i] = q[i]
      /\ Append(q, m)[Len(q) + 1] = m
  BY AppendProperties, LenProperties
<1>2. \A i \in 1..(Len(q) + 1) : i \in 1..Len(q) \/ i = Len(q) + 1
  BY <1>1
<1>3. \A i \in 1..Len(q) : i \in 1..(Len(q) + 1)
  BY <1>1
<1>4. Len(q) + 1 \in 1..(Len(q) + 1)
  BY <1>1
<1>5. Elements(Append(q, m)) = Elements(q) \cup {m}
  BY <1>1, <1>2, <1>3, <1>4 DEF Elements
<1>6. ASSUME NoTwice(q), m \notin Elements(q) PROVE NoTwice(Append(q, m))
  BY <1>1, <1>2, <1>6 DEF Elements, NoTwice
<1> QED
  BY <1>5, <1>6

\* One element more at the beginning.
LEMMA ElementsOfJoined ==
  ASSUME NEW S, NEW q \in Seq(S), NEW p \in S, NoTwice(q), p \notin Elements(q)
  PROVE  /\ <<p>> \o q \in Seq(S)
         /\ Elements(<<p>> \o q) = Elements(q) \cup {p} /\ NoTwice(<<p>> \o q)
<1> DEFINE r == <<p>> \o q
<1>1. /\ r \in Seq(S) /\ Len(q) \in Nat /\ DOMAIN q = 1..Len(q) /\ DOMAIN r = 1..(Len(q) + 1)
      /\ \A i \in 1..(Len(q) + 1) : r[i] = IF i <= 1 THEN p ELSE q[i - 1]
  <2>1. <<p>> \in Seq(S) /\ Len(<<p>>) = 1 /\ <<p>>[1] = p
    OBVIOUS
  <2>2. /\ r \in Seq(S) /\ Len(r) = 1 + Len(q) /\ Len(q) \in Nat
        /\ \A i \in 1..Len(r) : r[i] = IF i <= 1 THEN <<p>>[i] ELSE q[i - 1]
    BY <2>1, ConcatProperties, LenProperties
  <2> QED
    BY <2>1, <2>2, LenProperties
<1> HIDE DEF r
<1>2. \A i \in 1..(Len(q) + 1) : i = 1 \/ i - 1 \in 1..Len(q)
  BY <1>1
<1>3. \A i \in 1..Len(q) : i + 1 \in 1..(Len(q) + 1) /\ ~(i + 1 <= 1) /\ (i + 1) - 1 = i
  BY <1>1
<1>4. 1 \in 1..(Len(q) + 1) /\ r[1] = p
  BY <1>1
<1>5. \A i \in 1..Len(q) : r[i + 1] = q[i]
  BY <1>1, <1>3
<1>6. \A i \in 1..(Len(q) + 1) : i # 1 => r[i] = q[i - 1]
  BY <1>1
<1>7. Elements(r) = Elements(q) \cup {p}
  <2>1. ASSUME NEW x \in Elements(r) PROVE x \in Elements(q) \cup {p}
    <3>1. PICK i \in 1..(Len(q) + 1) : x = r[i]
      BY <1>1 DEF Elements
    <3>2. CASE i = 1
      BY <1>4, <3>1, <3>2
    <3>3. CASE i # 1
      <4>1. i - 1 \in DOMAIN q /\ x = q[i - 1]
        BY <1>1, <1>2, <1>6, <3>1, <3>3
      <4> QED
        BY <4>1 DEF Elements
    <3> QED
      BY <3>2, <3>3
  <2>2. p \in Elements(r)
    BY <1>1, <1>4 DEF Elements
  <2>3. ASSUME NEW x \in Elements(q) PROVE x \in Elements(r)
    <3>1. PICK i \in 1..Len(q) : x = q[i]
      BY <1>1 DEF Elements
    <3>2. i + 1 \in DOMAIN r /\ x = r[i + 1]
      BY <1>1, <1>3, <1>5, <3>1
    <3> QED
      BY <3>2 DEF Elements
  <2> QED
    BY <2>1, <2>2, <2>3
<1>8. NoTwice(r)
  <2> SUFFICES ASSUME NEW i \in 1..(Len(q) + 1), NEW j \in 1..(Len(q) + 1), i # j
               PROVE  r[i] # r[j]
    BY <1>1 DEF NoTwice
  <2>1. ASSUME NEW k \in 1..(Len(q) + 1), k # 1 PROVE r[k] # p
    <3>1. k - 1 \in DOMAIN q /\ r[k] = q[k - 1]
      BY <1>1, <1>2, <1>6, <2>1
    <3> QED
      BY <3>1 DEF Elements
  <2>2. CASE i # 1 /\ j # 1
    <3>1. /\ i - 1 \in DOMAIN q /\ r[i] = q[i - 1]
          /\ j - 1 \in DOMAIN q /\ r[j] = q[j - 1] /\ i - 1 # j - 1
      BY <1>1, <1>2, <1>6, <2>2
    <3> QED
      BY <3>1 DEF NoTwice
  <2> QED
    BY <1>4, <2>1, <2>2
<1> QED
  BY <1>1, <1>7, <1>8 DEF r

\* One element less, wherever it was.
LEMMA ElementsOfLeft ==
  ASSUME NEW S, NEW q \in Seq(S), NEW k \in DOMAIN q, NoTwice(q)
  PROVE  LET r == SubSeq(q, 1, k - 1) \o SubSeq(q, k + 1, Len(q))
         IN  r \in Seq(S) /\ Elements(r) = Elements(q) \ {q[k]} /\ NoTwice(r)
<1> DEFINE n == Len(q)
           a == SubSeq(q, 1, k - 1)
           b == SubSeq(q, k + 1, n)
           r == a \o b
<1>1. n \in Nat /\ DOMAIN q = 1..n /\ k \in 1..n
  BY LenProperties
<1>2. \A i \in 1..n : q[i] \in S
  BY ElementOfSeq
<1>3. a \in Seq(S) /\ Len(a) = k - 1 /\ \A i \in 1..(k - 1) : a[i] = q[i]
  <2>1. 1 \in Int /\ k - 1 \in Int /\ \A i \in 1..(k - 1) : i \in 1..n
    BY <1>1
  <2>2. \A i \in 1..(k - 1) : q[i] \in S
    BY <1>2, <2>1
  <2>3. k - 1 \in Nat /\ 1 \in 1..(Len(q) + 1) /\ k - 1 \in (1 - 1)..Len(q)
    BY <1>1
  <2> QED
    BY <2>2, <2>3, SubSeqProperties
<1>4. b \in Seq(S) /\ Len(b) = n - k /\ \A i \in 1..(n - k) : b[i] = q[k + i]
  <2>1. k + 1 \in 1..(Len(q) + 1) /\ n \in ((k + 1) - 1)..Len(q)
    BY <1>1
  <2>2. /\ b \in Seq(S)
        /\ Len(b) = IF k + 1 <= n THEN n - (k + 1) + 1 ELSE 0
        /\ \A i \in 1..(n - (k + 1) + 1) : b[i] = q[(k + 1) + i - 1]
    BY <2>1, SubSeqProperties
  <2>3. (n - (k + 1)) + 1 = n - k /\ \A i \in 1..(n - k) : (k + 1) + i - 1 = k + i
    BY <1>1
  <2> QED
    BY <1>1, <2>2, <2>3
<1> HIDE DEF a, b
<1>5. /\ r \in Seq(S) /\ DOMAIN r = 1..(n - 1)
      /\ \A i \in 1..(n - 1) : r[i] = IF i <= k - 1 THEN a[i] ELSE b[i - (k - 1)]
  <2>1. r \in Seq(S) /\ Len(r) = (k - 1) + (n - k)
        /\ \A i \in 1..Len(r) : r[i] = IF i <= k - 1 THEN a[i] ELSE b[i - (k - 1)]
    <3>1. r \in Seq(S) /\ Len(r) = Len(a) + Len(b)
          /\ \A i \in 1..Len(r) : r[i] = IF i <= Len(a) THEN a[i] ELSE b[i - Len(a)]
      <4>1. a \in Seq(S) /\ b \in Seq(S)
        BY <1>3, <1>4
      <4> QED
        BY ONLY <4>1, ConcatProperties
    <3>2. Len(a) = k - 1 /\ Len(b) = n - k
      BY <1>3, <1>4
    <3> QED
      BY ONLY <3>1, <3>2
  <2>2. (k - 1) + (n - k) = n - 1
    BY <1>1
  <2> QED
    BY <2>1, <2>2, LenProperties
<1> HIDE DEF r
<1>6. \A i \in 1..(n - 1) : /\ i <= k - 1 => r[i] = q[i]
                            /\ i > k - 1 => r[i] = q[i + 1]
  <2> SUFFICES ASSUME NEW i \in 1..(n - 1)
               PROVE  (i <= k - 1 => r[i] = q[i]) /\ (i > k - 1 => r[i] = q[i + 1])
    OBVIOUS
  <2>1. CASE i <= k - 1
    <3>1. i \in 1..(k - 1) /\ ~(i > k - 1)
      BY <1>1, <2>1
    <3> QED
      BY <1>3, <1>5, <2>1, <3>1
  <2>2. CASE i > k - 1
    <3>1. i - (k - 1) \in 1..(n - k) /\ k + (i - (k - 1)) = i + 1 /\ ~(i <= k - 1)
      BY <1>1, <2>2
    <3>2. r[i] = b[i - (k - 1)]
      BY <1>5, <3>1
    <3>3. b[i - (k - 1)] = q[k + (i - (k - 1))]
      BY <1>4, <3>1
    <3> QED
      BY <3>1, <3>2, <3>3
  <2> QED
    BY <1>1, <2>1, <2>2
<1>7. ASSUME NEW x \in Elements(r) PROVE x \in Elements(q) \ {q[k]}
  <2>1. PICK i \in 1..(n - 1) : x = r[i]
    BY <1>5 DEF Elements
  <2>2. CASE i <= k - 1
    <3>1. i \in 1..n /\ i # k
      BY <1>1, <2>2
    <3> QED
      BY <1>1, <1>6, <2>1, <2>2, <3>1 DEF Elements, NoTwice
  <2>3. CASE i > k - 1
    <3>1. i + 1 \in 1..n /\ i + 1 # k
      BY <1>1, <2>3
    <3> QED
      BY <1>1, <1>6, <2>1, <2>3, <3>1 DEF Elements, NoTwice
  <2> QED
    BY <1>1, <2>2, <2>3
<1>8. ASSUME NEW x \in Elements(q) \ {q[k]} PROVE x \in Elements(r)
  <2>1. PICK i \in 1..n : x = q[i] /\ i # k
    BY <1>1 DEF Elements
  <2>2. CASE i < k
    <3>1. i \in 1..(n - 1) /\ i <= k - 1
      BY <1>1, <2>2
    <3> QED
      BY <1>5, <1>6, <2>1, <3>1 DEF Elements
  <2>3. CASE i > k
    <3>1. i - 1 \in 1..(n - 1) /\ i - 1 > k - 1 /\ (i - 1) + 1 = i
      BY <1>1, <2>3
    <3>2. r[i - 1] = q[(i - 1) + 1]
      BY <1>6, <3>1
    <3>3. i - 1 \in DOMAIN r /\ r[i - 1] = x
      BY <1>5, <2>1, <3>1, <3>2
    <3> QED
      BY <3>3 DEF Elements
  <2> QED
    BY <1>1, <2>1, <2>2, <2>3
<1>9. NoTwice(r)
  <2> SUFFICES ASSUME NEW i \in 1..(n - 1), NEW j \in 1..(n - 1), i < j PROVE r[i] # r[j]
    BY <1>1, <1>5 DEF NoTwice
  <2>1. i \in 1..n /\ j \in 1..n /\ i + 1 \in 1..n /\ j + 1 \in 1..n
        /\ i # j /\ i # j + 1 /\ i + 1 # j + 1
    BY <1>1
  <2>2. i <= k - 1 \/ i > k - 1
    BY <1>1
  <2>3. j <= k - 1 \/ (j > k - 1)
    BY <1>1
  <2>4. j <= k - 1 => i <= k - 1
    BY <1>1
  <2> QED
    BY <1>1, <1>6, <2>1, <2>2, <2>3, <2>4 DEF NoTwice
<1> QED
  BY <1>5, <1>7, <1>8, <1>9 DEF r, a, b

-----------------------------------------------------------------------------
\* The receive queues.
Queues == [msgs : Seq(Members), error : BOOLEAN, congested : BOOLEAN]

\* What Offer leaves of a queue: one message more, or an error.
LEMMA Offered ==
  ASSUME NEW q \in Queues, NEW m \in Members, Len(q.msgs) <= QueueMax
  PROVE  /\ Offer(q, m) \in Queues /\ Len(Offer(q, m).msgs) <= QueueMax
         /\ Accepts(q) => /\ Offer(q, m).msgs = Append(q.msgs, m)
                          /\ Offer(q, m).error = q.error
                          /\ Offer(q, m).congested = q.congested
         /\ ~Accepts(q) => /\ Offer(q, m).msgs = q.msgs
                           /\ Offer(q, m).congested
                           /\ Offer(q, m).error \/ q.congested
                           /\ q.error => Offer(q, m).error
<1>1. q.msgs \in Seq(Members) /\ Len(q.msgs) \in Nat /\ QueueMax \in Nat
      /\ Append(q.msgs, m) \in Seq(Members) /\ Len(Append(q.msgs, m)) = Len(q.msgs) + 1
  BY AppendProperties, LenProperties, QueueMaxAssumption DEF Queues
<1>2. CASE Accepts(q)
  <2>1. Offer(q, m) = [q EXCEPT !.msgs = Append(@, m)]
    BY <1>2 DEF Offer
  <2>2. Len(q.msgs) + 1 <= QueueMax
    BY <1>1, <1>2 DEF Accepts
  <2>3. /\ Offer(q, m) \in Queues
        /\ Offer(q, m).msgs = Append(q.msgs, m)
        /\ Offer(q, m).error = q.error /\ Offer(q, m).congested = q.congested
    BY <1>1, <2>1 DEF Queues
  <2> QED
    BY <1>1, <1>2, <2>2, <2>3
<1>3. CASE ~Accepts(q)
  <2>1. Offer(q, m) = [q EXCEPT !.error = @ \/ ~q.congested, !.congested = TRUE]
    BY <1>3 DEF Offer
  <2>2. /\ Offer(q, m) \in Queues
        /\ Offer(q, m).msgs = q.msgs /\ Offer(q, m).congested
        /\ Offer(q, m).error <=> q.error \/ ~q.congested
    BY <2>1 DEF Queues
  <2> QED
    BY <1>3, <2>2
<1> QED
  BY <1>2, <1>3

\* What is left of a queue when its error has been read.
LEMMA ErrorRead ==
  ASSUME NEW q \in Queues
  PROVE  /\ ErrorTaken(q) \in Queues /\ ErrorTaken(q).msgs = q.msgs
         /\ ~ErrorTaken(q).error
         /\ ErrorTaken(q).congested => q.congested
  BY DEF ErrorTaken, Relaxed, Queues

\* What is left of a queue when its oldest message has been read.
LEMMA HeadRead ==
  ASSUME NEW q \in Queues, q.msgs # <<>>
  PROVE  /\ HeadTaken(q) \in Queues /\ HeadTaken(q).msgs = Tail(q.msgs)
         /\ Len(Tail(q.msgs)) <= Len(q.msgs)
         /\ HeadTaken(q).error = q.error
         /\ HeadTaken(q).congested => q.congested
<1>1. q.msgs \in Seq(Members) /\ Tail(q.msgs) \in Seq(Members) /\ Len(q.msgs) \in Nat
      /\ Len(Tail(q.msgs)) = Len(q.msgs) - 1
  BY HeadTailProperties, LenProperties DEF Queues
<1> DEFINE r == [q EXCEPT !.msgs = Tail(@)]
<1>2. r \in Queues /\ r.msgs = Tail(q.msgs) /\ r.error = q.error /\ r.congested = q.congested
  BY <1>1 DEF Queues
<1>3. HeadTaken(q) = Relaxed(r)
  BY DEF HeadTaken
<1> HIDE DEF r
<1>4. /\ Relaxed(r) \in Queues /\ Relaxed(r).msgs = r.msgs
      /\ Relaxed(r).error = r.error
      /\ Relaxed(r).congested => r.congested
  BY <1>2 DEF Relaxed, Queues
<1> QED
  BY <1>1, <1>2, <1>3, <1>4

\* Nobody has joined at first.
LEMMA McStart == McInit => McInv
<1> SUFFICES ASSUME McInit PROVE McInv
  OBVIOUS
<1>1. \A p \in Members : /\ mcQueue[p] = EmptyQueue /\ targets[p] = <<>> /\ mcAt[p] = "start"
  BY DEF McInit
<1>2. EmptyQueue \in Queues /\ EmptyQueue.msgs = <<>> /\ ~EmptyQueue.congested
  BY DEF EmptyQueue, Queues
<1>3. mcUsed \in BOOLEAN
  BY Zenon DEF McInit
<1>4. McTypeInv
  <2>1. mcQueue \in [Members -> Queues]
    BY <1>2 DEF McInit
  <2>2. \A p \in Members : Len(mcQueue[p].msgs) <= QueueMax
    BY <1>1, <1>2, QueueMaxAssumption
  <2> QED
    BY <1>3, <2>1, <2>2 DEF McInit, McTypeInv, Queues
<1>5. GroupInv /\ TargetInv
  BY <1>1, ElementsOfEmpty DEF McInit, GroupInv, TargetInv
<1>6. \A l \in Listeners : l \in Members /\ KnownOf(l) = <<>> /\ mcPrinted[l] = <<>>
  BY <1>1, <1>2 DEF McInit, KnownOf, Members
<1>7. OnceInv
  BY <1>1, <1>6, ElementsOfEmpty DEF OnceInv
<1>8. OwedInv
  BY <1>1, <1>2, <1>6, ElementsOfEmpty DEF OwedInv, McInit
<1> QED
  BY <1>4, <1>5, <1>7, <1>8 DEF McInv

\* What is known to a listener are messages named by members.
LEMMA McKnown ==
  ASSUME McInv, NEW l \in Listeners
  PROVE  /\ l \in Members
         /\ KnownOf(l) \in Seq(Members) /\ Elements(KnownOf(l)) \subseteq Members
         /\ mcPrinted[l] \in Seq(Members) /\ mcQueue[l] \in Queues
         /\ mcQueue[l].msgs \in Seq(Members)
<1>1. l \in Members /\ mcPrinted[l] \in Seq(Members) /\ mcQueue[l] \in Queues
  BY DEF McInv, McTypeInv, Members, Queues
<1>2. mcQueue[l].msgs \in Seq(Members)
  BY <1>1 DEF Queues
<1>3. KnownOf(l) \in Seq(Members)
  BY <1>1, <1>2, ConcatProperties DEF KnownOf
<1>4. \A i \in DOMAIN KnownOf(l) : KnownOf(l)[i] \in Members
  BY <1>3, ElementOfSeq, LenProperties
<1> QED
  BY <1>1, <1>2, <1>3, <1>4 DEF Elements

\* The driver's side leaves the members and their queues alone.
LEMMA McDriverSteps ==
  ASSUME McInv, McCreate \/ McStore \/ McRmmod
  PROVE  McInv'
<1>1. UNCHANGED <<mcAt, group, mcQueue, multicast, reading, mcFault>>
  BY DEF McCreate, McStore, McRmmod
<1>2. mcSock' \in {"none", "created", "stored"}
  BY DEF McCreate, McStore, McRmmod
<1>3. mcUsed' \in BOOLEAN
  BY DEF McCreate, McStore, McRmmod, McInv, McTypeInv
<1>4. McTypeInv'
  BY <1>1, <1>2, <1>3 DEF McInv, McTypeInv, multicast, reading
<1>5. GroupInv' /\ TargetInv'
  BY <1>1 DEF McInv, GroupInv, TargetInv, multicast
<1>6. OnceInv' /\ OwedInv'
  BY <1>1 DEF McInv, OnceInv, OwedInv, KnownOf, multicast, reading
<1> QED
  BY <1>4, <1>5, <1>6 DEF McInv

\* Who joins is in the group, and nothing is owed to it yet.
LEMMA JoinSteps ==
  ASSUME McInv, NEW p \in Members, JoinGroup(p)
  PROVE  McInv'
<1>1. /\ mcAt[p] = "start" /\ mcAt' = [mcAt EXCEPT ![p] = "joined"]
      /\ group' = <<p>> \o group
      /\ UNCHANGED <<mcSock, mcUsed, mcQueue, multicast, reading, mcFault>>
  BY DEF JoinGroup, Pass
<1>2. /\ \A q \in Members \ {p} : mcAt'[q] = mcAt[q]
      /\ mcAt'[p] = "joined"
      /\ mcAt' \in [Members -> {"start", "joined", "callback", "multicast", "sent", "read", "end"}]
  BY <1>1 DEF McInv, McTypeInv
<1>3. group \in Seq(Members) /\ NoTwice(group) /\ p \notin Elements(group)
  BY <1>1 DEF McInv, McTypeInv, GroupInv
<1>4. /\ group' \in Seq(Members) /\ NoTwice(group')
      /\ Elements(group') = Elements(group) \cup {p}
  BY <1>1, <1>3, ElementsOfJoined
<1>5. McTypeInv'
  BY <1>1, <1>2, <1>4 DEF McInv, McTypeInv, multicast, reading
<1>6. GroupInv'
  BY <1>2, <1>4 DEF McInv, GroupInv
<1>7. TargetInv'
  BY <1>1, <1>2 DEF McInv, TargetInv, multicast
<1>8. \A l \in Listeners : KnownOf(l)' = KnownOf(l) /\ l \in Members
  BY <1>1 DEF KnownOf, reading, Members
<1>9. OnceInv'
  <2> SUFFICES ASSUME NEW l \in Listeners
               PROVE  /\ NoTwice(KnownOf(l)')
                      /\ \A s \in Elements(KnownOf(l)') :
                            /\ mcAt'[s] \notin {"start", "joined", "callback"}
                            /\ l \notin Elements(targets'[s])
                      /\ mcAt'[l] # "read" => mcPrinted'[l] = <<>>
    BY DEF OnceInv
  <2>1. Elements(KnownOf(l)) \subseteq Members
    BY McKnown
  <2> QED
    BY <1>1, <1>2, <1>8, <2>1 DEF McInv, OnceInv, multicast, reading
<1>10. OwedInv'
  BY <1>1, <1>2, <1>4, <1>8 DEF McInv, OwedInv, multicast, reading
<1> QED
  BY <1>5, <1>6, <1>7, <1>9, <1>10 DEF McInv

\* A process goes from one place to another and changes nothing else.
LEMMA PassSteps ==
  ASSUME McInv, NEW p \in Members, NEW to \in {"callback", "multicast", "sent", "read"},
         mcAt[p] \notin {"start", "end", "read"}, mcAt' = [mcAt EXCEPT ![p] = to],
         to = "callback" => mcAt[p] = "joined", targets[p] = <<>>,
         UNCHANGED <<mcSock, mcUsed, group, mcQueue, multicast, reading>>,
         mcFault' \in {"none", "null", "unloaded"}
  PROVE  McInv'
<1>2. /\ \A q \in Members \ {p} : mcAt'[q] = mcAt[q]
      /\ mcAt'[p] = to
      /\ mcAt' \in [Members -> {"start", "joined", "callback", "multicast", "sent", "read", "end"}]
  BY DEF McInv, McTypeInv
<1>5. McTypeInv'
  BY <1>2 DEF McInv, McTypeInv, multicast, reading
<1>6. GroupInv'
  BY <1>2 DEF McInv, GroupInv
<1>7. TargetInv'
  BY <1>2 DEF McInv, TargetInv, multicast
<1>8. \A l \in Listeners : KnownOf(l)' = KnownOf(l) /\ l \in Members
  BY DEF KnownOf, reading, Members
<1>9. OnceInv'
  <2> SUFFICES ASSUME NEW l \in Listeners
               PROVE  /\ NoTwice(KnownOf(l)')
                      /\ \A s \in Elements(KnownOf(l)') :
                            /\ mcAt'[s] \notin {"start", "joined", "callback"}
                            /\ l \notin Elements(targets'[s])
                      /\ mcAt'[l] # "read" => mcPrinted'[l] = <<>>
    BY DEF OnceInv
  <2>1. Elements(KnownOf(l)) \subseteq Members
    BY McKnown
  <2> QED
    BY <1>2, <1>8, <2>1 DEF McInv, OnceInv, multicast, reading
<1>10. OwedInv'
  BY <1>2, <1>8 DEF McInv, OwedInv, multicast, reading
<1> QED
  BY <1>5, <1>6, <1>7, <1>9, <1>10 DEF McInv

\* A process ends: it has printed nothing, and nothing is left in its queue.
LEMMA EndSteps ==
  ASSUME McInv, NEW p \in Members, mcAt[p] \in {"joined", "sent"},
         mcAt' = [mcAt EXCEPT ![p] = "end"], LeaveGroup(p),
         UNCHANGED <<mcSock, mcUsed, multicast, reading, mcFault>>
  PROVE  McInv'
<1>2. /\ \A q \in Members \ {p} : mcAt'[q] = mcAt[q]
      /\ mcAt'[p] = "end"
      /\ mcAt' \in [Members -> {"start", "joined", "callback", "multicast", "sent", "read", "end"}]
  BY DEF McInv, McTypeInv
<1>3. group \in Seq(Members) /\ NoTwice(group)
  BY DEF McInv, McTypeInv, GroupInv
<1>4. /\ group' \in Seq(Members) /\ NoTwice(group')
      /\ Elements(group') = Elements(group) \ {p}
  BY <1>3, ElementsOfLeft DEF LeaveGroup
<1>5. /\ mcQueue' \in [Members -> Queues]
      /\ mcQueue'[p] = EmptyQueue
      /\ \A q \in Members \ {p} : mcQueue'[q] = mcQueue[q]
  <2>1. EmptyQueue \in Queues
    BY DEF EmptyQueue, Queues
  <2>2. mcQueue \in [Members -> Queues]
    BY DEF McInv, McTypeInv, Queues
  <2> QED
    BY <2>1, <2>2 DEF LeaveGroup
<1>6. EmptyQueue.msgs = <<>> /\ Len(<<>>) <= QueueMax /\ ~EmptyQueue.congested
  BY QueueMaxAssumption DEF EmptyQueue
<1>7. McTypeInv'
  <2>1. \A q \in Members : Len(mcQueue'[q].msgs) <= QueueMax
    BY <1>5, <1>6 DEF McInv, McTypeInv
  <2> QED
    BY <1>2, <1>4, <1>5, <2>1 DEF McInv, McTypeInv, Queues, multicast, reading
<1>8. GroupInv'
  BY <1>2, <1>4 DEF McInv, GroupInv
<1>9. TargetInv'
  BY <1>2 DEF McInv, TargetInv, multicast
<1>10. \A l \in Listeners : /\ l # p => KnownOf(l)' = KnownOf(l)
                            /\ l = p => KnownOf(l)' = <<>>
                            /\ l \in Members
  <2> TAKE l \in Listeners
  <2>1. l \in Members
    BY DEF Members
  <2>2. CASE l # p
    BY <1>5, <2>1, <2>2 DEF KnownOf, reading
  <2>3. CASE l = p
    <3>1. mcPrinted'[l] = <<>>
      BY <2>3 DEF McInv, OnceInv, reading
    <3> QED
      BY <1>5, <1>6, <2>1, <2>3, <3>1 DEF KnownOf
  <2> QED
    BY <2>1, <2>2, <2>3
<1>11. OnceInv'
  <2> SUFFICES ASSUME NEW l \in Listeners
               PROVE  /\ NoTwice(KnownOf(l)')
                      /\ \A s \in Elements(KnownOf(l)') :
                            /\ mcAt'[s] \notin {"start", "joined", "callback"}
                            /\ l \notin Elements(targets'[s])
                      /\ mcAt'[l] # "read" => mcPrinted'[l] = <<>>
    BY DEF OnceInv
  <2>1. Elements(KnownOf(l)) \subseteq Members
    BY McKnown
  <2> QED
    BY <1>2, <1>10, <2>1, ElementsOfEmpty DEF McInv, OnceInv, multicast, reading
<1>12. OwedInv'
  BY <1>2, <1>4, <1>5, <1>10 DEF McInv, OwedInv, multicast, reading
<1> QED
  BY <1>7, <1>8, <1>9, <1>11, <1>12 DEF McInv

\* The callback has a message for the whole group.
LEMMA MulticastSteps ==
  ASSUME McInv, NEW p \in Members, Pass(p, "callback", "multicast"),
         targets' = [targets EXCEPT ![p] = group],
         owed' = [l \in Listeners |-> owed[l] \cup {m \in {p} : l \in Elements(group)}],
         UNCHANGED <<mcSock, mcUsed, group, mcQueue, dropped, reading, mcFault>>
  PROVE  McInv'
<1>1. mcAt[p] = "callback" /\ targets[p] = <<>>
  BY DEF McInv, TargetInv, Pass
<1>2. /\ \A q \in Members \ {p} : mcAt'[q] = mcAt[q]
      /\ mcAt'[p] = "multicast"
      /\ mcAt' \in [Members -> {"start", "joined", "callback", "multicast", "sent", "read", "end"}]
  BY DEF McInv, McTypeInv, Pass
<1>3. /\ targets' \in [Members -> Seq(Members)]
      /\ targets'[p] = group
      /\ \A q \in Members \ {p} : targets'[q] = targets[q]
  BY DEF McInv, McTypeInv
<1>4. /\ owed' \in [Listeners -> SUBSET Members]
      /\ \A l \in Listeners : /\ l \in Elements(group) => owed'[l] = owed[l] \cup {p}
                              /\ l \notin Elements(group) => owed'[l] = owed[l]
  BY DEF McInv, McTypeInv
<1>5. McTypeInv'
  BY <1>2, <1>3, <1>4 DEF McInv, McTypeInv, reading
<1>6. GroupInv'
  BY <1>1, <1>2 DEF McInv, GroupInv
<1>7. TargetInv'
  BY <1>2, <1>3 DEF McInv, TargetInv, GroupInv
<1>8. \A l \in Listeners : KnownOf(l)' = KnownOf(l) /\ l \in Members
  BY DEF KnownOf, reading, Members
<1>9. OnceInv'
  <2> SUFFICES ASSUME NEW l \in Listeners
               PROVE  /\ NoTwice(KnownOf(l)')
                      /\ \A s \in Elements(KnownOf(l)') :
                            /\ mcAt'[s] \notin {"start", "joined", "callback"}
                            /\ l \notin Elements(targets'[s])
                      /\ mcAt'[l] # "read" => mcPrinted'[l] = <<>>
    BY DEF OnceInv
  <2>1. Elements(KnownOf(l)) \subseteq Members /\ p \notin Elements(KnownOf(l))
    BY <1>1, McKnown DEF McInv, OnceInv
  <2> QED
    BY <1>1, <1>2, <1>3, <1>8, <2>1 DEF McInv, OnceInv, reading
<1>10. OwedInv'
  <2> SUFFICES ASSUME NEW l \in Listeners
      PROVE /\ mcAt'[l] = "start" => owed'[l] = {} /\ dropped'[l] = {} /\ ~mcQueue'[l].congested
            /\ l \in Elements(group') =>
                 /\ \A s \in owed'[l] : \/ s \in Elements(KnownOf(l)') \cup dropped'[l]
                                        \/ l \in Elements(targets'[s])
                 /\ dropped'[l] # {} \/ mcQueue'[l].congested
                      => mcQueue'[l].error \/ swallowed'[l] > 0
    BY DEF OwedInv
  <2>1. l \in Elements(group) => mcAt[l] # "start"
    BY <1>8 DEF McInv, GroupInv
  <2>2. mcAt'[l] = "start" => mcAt[l] = "start"
    BY <1>2, <1>8
  <2>3. ASSUME l \in Elements(group), NEW s \in owed'[l]
        PROVE  \/ s \in Elements(KnownOf(l)) \cup dropped[l]
               \/ l \in Elements(targets'[s])
    <3>1. CASE s = p
      BY <1>3, <2>3, <3>1
    <3>2. CASE s # p
      <4>1. s \in owed[l] /\ s \in Members
        BY <1>4, <2>3, <3>2 DEF McInv, McTypeInv
      <4>2. targets'[s] = targets[s]
        BY <1>3, <3>2, <4>1
      <4> QED
        BY <2>3, <4>1, <4>2 DEF McInv, OwedInv
    <3> QED
      BY <3>1, <3>2
  <2> QED
    BY <1>4, <1>8, <2>1, <2>2, <2>3 DEF McInv, OwedInv, reading
<1> QED
  BY <1>5, <1>6, <1>7, <1>9, <1>10 DEF McInv

\* The kernel delivers to the next member: to its queue, if it has room.
LEMMA DeliverSteps ==
  ASSUME McInv, NEW p \in Members, Deliver(p)
  PROVE  McInv'
<1>0. PICK t : t = Head(targets[p])
  OBVIOUS
<1>1. /\ mcAt[p] = "multicast" /\ targets[p] # <<>>
      /\ targets' = [targets EXCEPT ![p] = Tail(@)]
      /\ IF t \notin Elements(group) THEN UNCHANGED <<mcQueue, dropped>>
         ELSE /\ mcQueue' = [mcQueue EXCEPT ![t] = Offer(@, p)]
              /\ dropped' = IF Accepts(mcQueue[t]) \/ t \notin Listeners THEN dropped
                            ELSE [dropped EXCEPT ![t] = @ \cup {p}]
      /\ UNCHANGED <<mcSock, mcUsed, mcAt, group, owed, reading, mcFault>>
  BY <1>0 DEF Deliver
<1>2. targets[p] \in Seq(Members) /\ NoTwice(targets[p])
  BY DEF McInv, McTypeInv, TargetInv
<1>3. /\ Tail(targets[p]) \in Seq(Members) /\ t \in Members
      /\ NoTwice(Tail(targets[p]))
      /\ Elements(Tail(targets[p])) = Elements(targets[p]) \ {t}
      /\ t \in Elements(targets[p])
  BY <1>0, <1>1, <1>2, ElementsOfTail
<1>4. /\ targets' \in [Members -> Seq(Members)]
      /\ targets'[p] = Tail(targets[p])
      /\ \A q \in Members \ {p} : targets'[q] = targets[q]
  BY <1>1, <1>3 DEF McInv, McTypeInv
<1>5. \A l : \A s \in Members : /\ s # p \/ l # t => (l \in Elements(targets'[s]) <=> l \in Elements(targets[s]))
                                /\ t \notin Elements(targets'[p])
  BY <1>3, <1>4
<1>6. /\ mcQueue \in [Members -> Queues] /\ mcQueue[t] \in Queues
      /\ Len(mcQueue[t].msgs) <= QueueMax
  BY <1>3 DEF McInv, McTypeInv, Queues
<1>7. /\ mcQueue' \in [Members -> Queues]
      /\ \A q \in Members \ {t} : mcQueue'[q] = mcQueue[q]
      /\ t \in Elements(group) => mcQueue'[t] = Offer(mcQueue[t], p)
      /\ t \notin Elements(group) => mcQueue'[t] = mcQueue[t]
      /\ \A q \in Members : Len(mcQueue'[q].msgs) <= QueueMax
  <2>1. Offer(mcQueue[t], p) \in Queues /\ Len(Offer(mcQueue[t], p).msgs) <= QueueMax
    BY <1>6, Offered
  <2>2. \A q \in Members : Len(mcQueue[q].msgs) <= QueueMax
    BY DEF McInv, McTypeInv
  <2> QED
    BY <1>1, <1>3, <1>6, <2>1, <2>2
<1>8. /\ dropped' \in [Listeners -> SUBSET Members]
      /\ \A l \in Listeners : dropped[l] \subseteq dropped'[l]
      /\ \A l \in Listeners \ {t} : dropped'[l] = dropped[l]
      /\ t \in Listeners /\ t \in Elements(group) /\ ~Accepts(mcQueue[t]) => p \in dropped'[t]
      /\ t \in Listeners /\ (t \notin Elements(group) \/ Accepts(mcQueue[t])) => dropped'[t] = dropped[t]
  <2>1. dropped \in [Listeners -> SUBSET Members]
    BY DEF McInv, McTypeInv
  <2>2. CASE dropped' = dropped /\ (t \in Listeners => t \notin Elements(group) \/ Accepts(mcQueue[t]))
    BY <2>1, <2>2
  <2>3. CASE /\ t \in Listeners /\ t \in Elements(group) /\ ~Accepts(mcQueue[t])
             /\ dropped' = [dropped EXCEPT ![t] = @ \cup {p}]
    <3>1. dropped' \in [Listeners -> SUBSET Members]
      BY <2>1, <2>3
    <3> QED
      BY <2>1, <2>3, <3>1
  <2> QED
    BY <1>1, <2>2, <2>3
<1>9. McTypeInv' /\ GroupInv'
  BY <1>1, <1>4, <1>7, <1>8 DEF McInv, McTypeInv, GroupInv, reading, Queues
<1>10. TargetInv'
  BY <1>1, <1>3, <1>4 DEF McInv, TargetInv
<1>11. \A l \in Listeners : l \in Members /\ l # t => KnownOf(l)' = KnownOf(l)
  BY <1>1, <1>7 DEF KnownOf, reading
<1>12. ASSUME t \in Listeners
       PROVE  /\ t \in Elements(group) /\ Accepts(mcQueue[t])
                   => KnownOf(t)' = Append(KnownOf(t), p)
              /\ t \notin Elements(group) \/ ~Accepts(mcQueue[t]) => KnownOf(t)' = KnownOf(t)
  <2>1. mcPrinted[t] \in Seq(Members) /\ mcQueue[t].msgs \in Seq(Members)
    BY <1>12, McKnown
  <2>2. mcPrinted'[t] = mcPrinted[t]
    BY <1>1 DEF reading
  <2>3. CASE t \in Elements(group) /\ Accepts(mcQueue[t])
    <3>1. mcQueue'[t].msgs = Append(mcQueue[t].msgs, p)
      BY <1>6, <1>7, <2>3, Offered
    <3>2. mcPrinted[t] \o Append(mcQueue[t].msgs, p) = Append(mcPrinted[t] \o mcQueue[t].msgs, p)
      <4>1. \A x, y \in Seq(Members) : x \o Append(y, p) = Append(x \o y, p)
        BY Added
      <4> QED
        BY <2>1, <4>1
    <3> QED
      BY <2>2, <2>3, <3>1, <3>2 DEF KnownOf
  <2>4. CASE t \notin Elements(group) \/ ~Accepts(mcQueue[t])
    <3>1. mcQueue'[t].msgs = mcQueue[t].msgs
      BY <1>6, <1>7, <2>4, Offered
    <3> QED
      BY <2>2, <2>4, <3>1 DEF KnownOf
  <2> QED
    BY <2>3, <2>4
<1>13. OnceInv'
  <2> SUFFICES ASSUME NEW l \in Listeners
               PROVE  /\ NoTwice(KnownOf(l)')
                      /\ \A s \in Elements(KnownOf(l)') :
                            /\ mcAt'[s] \notin {"start", "joined", "callback"}
                            /\ l \notin Elements(targets'[s])
                      /\ mcAt'[l] # "read" => mcPrinted'[l] = <<>>
    BY DEF OnceInv
  <2>0. /\ l \in Members /\ KnownOf(l) \in Seq(Members) /\ Elements(KnownOf(l)) \subseteq Members
    BY McKnown
  <2>1. /\ NoTwice(KnownOf(l))
        /\ \A s \in Elements(KnownOf(l)) : /\ mcAt[s] \notin {"start", "joined", "callback"}
                                           /\ l \notin Elements(targets[s])
        /\ mcAt[l] # "read" => mcPrinted[l] = <<>>
    BY DEF McInv, OnceInv
  <2>2. \A s \in Elements(KnownOf(l)) : l \notin Elements(targets'[s])
    BY <1>5, <2>0, <2>1
  <2>3. CASE KnownOf(l)' = KnownOf(l)
    BY <1>1, <2>1, <2>2, <2>3 DEF reading
  <2>4. CASE l = t /\ KnownOf(l)' = Append(KnownOf(l), p)
    <3>1. p \notin Elements(KnownOf(l))
      BY <1>3, <2>1, <2>4
    <3>2. NoTwice(KnownOf(l)') /\ Elements(KnownOf(l)') = Elements(KnownOf(l)) \cup {p}
      BY <2>0, <2>1, <2>4, <3>1, ElementsOfAppend
    <3>3. l \notin Elements(targets'[p])
      BY <1>5, <2>4
    <3> QED
      BY <1>1, <2>1, <2>2, <3>2, <3>3 DEF reading
  <2> QED
    BY <1>11, <1>12, <2>0, <2>3, <2>4
<1>14. OwedInv'
  <2> SUFFICES ASSUME NEW l \in Listeners
      PROVE /\ mcAt'[l] = "start" => owed'[l] = {} /\ dropped'[l] = {} /\ ~mcQueue'[l].congested
            /\ l \in Elements(group') =>
                 /\ \A s \in owed'[l] : \/ s \in Elements(KnownOf(l)') \cup dropped'[l]
                                        \/ l \in Elements(targets'[s])
                 /\ dropped'[l] # {} \/ mcQueue'[l].congested
                      => mcQueue'[l].error \/ swallowed'[l] > 0
    BY DEF OwedInv
  <2>0. l \in Members /\ KnownOf(l) \in Seq(Members)
    BY McKnown
  <2>1. /\ mcAt[l] = "start" => owed[l] = {} /\ dropped[l] = {} /\ ~mcQueue[l].congested
        /\ l \in Elements(group) =>
             /\ \A s \in owed[l] : \/ s \in Elements(KnownOf(l)) \cup dropped[l]
                                   \/ l \in Elements(targets[s])
             /\ dropped[l] # {} \/ mcQueue[l].congested => mcQueue[l].error \/ swallowed[l] > 0
        /\ mcAt[l] = "start" => l \notin Elements(group)
        /\ owed[l] \subseteq Members
    BY <2>0 DEF McInv, OwedInv, GroupInv, McTypeInv
  <2>2. CASE l # t
    <3>1. KnownOf(l)' = KnownOf(l) /\ mcQueue'[l] = mcQueue[l] /\ dropped'[l] = dropped[l]
      BY <1>7, <1>8, <1>11, <2>0, <2>2
    <3>2. \A s \in Members : l \in Elements(targets'[s]) <=> l \in Elements(targets[s])
      BY <1>5, <2>2
    <3> QED
      BY <1>1, <2>1, <3>1, <3>2 DEF reading
  <2>3. CASE l = t /\ t \notin Elements(group)
    <3>1. mcQueue'[l] = mcQueue[l] /\ dropped'[l] = dropped[l]
      BY <1>7, <1>8, <2>0, <2>3
    <3> QED
      BY <1>1, <2>1, <2>3, <3>1 DEF reading
  <2>4. CASE l = t /\ t \in Elements(group)
    <3>1. \A s \in Members : l \in Elements(targets[s]) => l \in Elements(targets'[s]) \/ s = p
      BY <1>5, <2>4
    <3>2. p \in Elements(KnownOf(l)') \cup dropped'[l]
          /\ Elements(KnownOf(l)) \subseteq Elements(KnownOf(l)')
      <4>1. CASE Accepts(mcQueue[t])
        <5>1. KnownOf(l)' = Append(KnownOf(l), p)
          BY <1>12, <2>4, <4>1
        <5>2. Elements(Append(KnownOf(l), p)) = Elements(KnownOf(l)) \cup {p}
          BY <2>0, ElementsOfAppend
        <5> QED
          BY <5>1, <5>2
      <4>2. CASE ~Accepts(mcQueue[t])
        <5>1. KnownOf(l)' = KnownOf(l) /\ p \in dropped'[l]
          BY <1>8, <1>12, <2>4, <4>2
        <5> QED
          BY <5>1
      <4> QED
        BY <4>1, <4>2
    <3>3. dropped'[l] # {} \/ mcQueue'[l].congested => mcQueue'[l].error \/ swallowed[l] > 0
      <4>1. CASE Accepts(mcQueue[t])
        <5>1. /\ mcQueue'[l].error = mcQueue[l].error
              /\ mcQueue'[l].congested = mcQueue[l].congested
              /\ dropped'[l] = dropped[l]
          BY <1>6, <1>7, <1>8, <2>4, <4>1, Offered
        <5> QED
          BY <2>1, <2>4, <5>1
      <4>2. CASE ~Accepts(mcQueue[t])
        <5>1. /\ mcQueue'[l].error \/ mcQueue[l].congested
              /\ mcQueue[l].error => mcQueue'[l].error
          BY <1>6, <1>7, <2>4, <4>2, Offered
        <5> QED
          BY <2>1, <2>4, <5>1
      <4> QED
        BY <4>1, <4>2
    <3>4. \A s \in owed[l] : \/ s \in Elements(KnownOf(l)') \cup dropped'[l]
                             \/ l \in Elements(targets'[s])
      BY <1>8, <2>1, <2>4, <3>1, <3>2
    <3> QED
      BY <1>1, <2>1, <2>4, <3>3, <3>4 DEF reading
  <2> QED
    BY <2>2, <2>3, <2>4
<1> QED
  BY <1>9, <1>10, <1>13, <1>14 DEF McInv

\* A listener reads an error, or the oldest message in its queue.
LEMMA ReadSteps ==
  ASSUME McInv, NEW r \in Listeners, ReadEvent(r)
  PROVE  McInv'
<1>1. /\ mcAt[r] = "read"
      /\ \/ /\ mcQueue[r].error
            /\ mcQueue' = [mcQueue EXCEPT ![r] = ErrorTaken(@)]
            /\ swallowed' = [swallowed EXCEPT ![r] = @ + 1]
            /\ UNCHANGED mcPrinted
         \/ /\ ~mcQueue[r].error /\ mcQueue[r].msgs # <<>>
            /\ mcQueue' = [mcQueue EXCEPT ![r] = HeadTaken(@)]
            /\ mcPrinted' = [mcPrinted EXCEPT ![r] = Append(@, Head(mcQueue[r].msgs))]
            /\ UNCHANGED swallowed
      /\ UNCHANGED <<mcSock, mcUsed, mcAt, group, multicast, mcFault>>
  BY DEF ReadEvent
<1>2. /\ r \in Members /\ mcQueue[r] \in Queues /\ mcQueue[r].msgs \in Seq(Members)
      /\ mcPrinted[r] \in Seq(Members) /\ KnownOf(r) \in Seq(Members)
      /\ mcQueue \in [Members -> Queues] /\ Len(mcQueue[r].msgs) <= QueueMax
  BY McKnown DEF McInv, McTypeInv, Queues
<1>3. /\ mcQueue' \in [Members -> Queues] /\ mcPrinted' \in [Listeners -> Seq(Members)]
      /\ swallowed' \in [Listeners -> Nat]
      /\ \A q \in Members \ {r} : mcQueue'[q] = mcQueue[q]
      /\ \A l \in Listeners \ {r} : mcPrinted'[l] = mcPrinted[l] /\ swallowed'[l] = swallowed[l]
      /\ Len(mcQueue'[r].msgs) <= QueueMax
      /\ KnownOf(r)' = KnownOf(r)
      /\ mcQueue'[r].congested => mcQueue[r].congested
      /\ mcQueue[r].error \/ swallowed[r] > 0 => mcQueue'[r].error \/ swallowed'[r] > 0
  <2>1. CASE /\ mcQueue[r].error
             /\ mcQueue' = [mcQueue EXCEPT ![r] = ErrorTaken(@)]
             /\ swallowed' = [swallowed EXCEPT ![r] = @ + 1]
             /\ UNCHANGED mcPrinted
    <3>1. /\ ErrorTaken(mcQueue[r]) \in Queues /\ ErrorTaken(mcQueue[r]).msgs = mcQueue[r].msgs
          /\ ErrorTaken(mcQueue[r]).congested => mcQueue[r].congested
      BY <1>2, ErrorRead
    <3>2. /\ mcQueue' \in [Members -> Queues] /\ mcQueue'[r] = ErrorTaken(mcQueue[r])
          /\ \A q \in Members \ {r} : mcQueue'[q] = mcQueue[q]
      BY <1>2, <2>1, <3>1
    <3>3. /\ swallowed' \in [Listeners -> Nat] /\ swallowed'[r] > 0
          /\ \A l \in Listeners \ {r} : swallowed'[l] = swallowed[l]
      BY <2>1 DEF McInv, McTypeInv
    <3>4. KnownOf(r)' = KnownOf(r)
      BY <2>1, <3>1, <3>2 DEF KnownOf
    <3>5. mcPrinted' \in [Listeners -> Seq(Members)] /\ mcPrinted' = mcPrinted
      BY <2>1 DEF McInv, McTypeInv
    <3> QED
      BY <1>2, <3>1, <3>2, <3>3, <3>4, <3>5
  <2>2. CASE /\ ~mcQueue[r].error /\ mcQueue[r].msgs # <<>>
             /\ mcQueue' = [mcQueue EXCEPT ![r] = HeadTaken(@)]
             /\ mcPrinted' = [mcPrinted EXCEPT ![r] = Append(@, Head(mcQueue[r].msgs))]
             /\ UNCHANGED swallowed
    <3>1. /\ HeadTaken(mcQueue[r]) \in Queues /\ HeadTaken(mcQueue[r]).msgs = Tail(mcQueue[r].msgs)
          /\ Len(Tail(mcQueue[r].msgs)) <= Len(mcQueue[r].msgs)
          /\ HeadTaken(mcQueue[r]).congested => mcQueue[r].congested
      BY <1>2, <2>2, HeadRead
    <3>2. /\ mcQueue' \in [Members -> Queues] /\ mcQueue'[r] = HeadTaken(mcQueue[r])
          /\ \A q \in Members \ {r} : mcQueue'[q] = mcQueue[q]
      BY <1>2, <2>2, <3>1
    <3>3. /\ Append(mcPrinted[r], Head(mcQueue[r].msgs)) \o Tail(mcQueue[r].msgs) = KnownOf(r)
          /\ Append(mcPrinted[r], Head(mcQueue[r].msgs)) \in Seq(Members)
      BY <1>2, <2>2, Moved DEF KnownOf
    <3>4. /\ mcPrinted' \in [Listeners -> Seq(Members)]
          /\ mcPrinted'[r] = Append(mcPrinted[r], Head(mcQueue[r].msgs))
          /\ \A l \in Listeners \ {r} : mcPrinted'[l] = mcPrinted[l]
      BY <2>2, <3>3 DEF McInv, McTypeInv
    <3>5. KnownOf(r)' = KnownOf(r)
      BY <3>1, <3>2, <3>3, <3>4 DEF KnownOf
    <3>6. Len(mcQueue'[r].msgs) <= QueueMax
      <4>1. Len(mcQueue[r].msgs) \in Nat /\ Len(Tail(mcQueue[r].msgs)) \in Nat /\ QueueMax \in Nat
        BY <1>2, <2>2, Moved, LenProperties, QueueMaxAssumption
      <4>2. mcQueue'[r].msgs = Tail(mcQueue[r].msgs)
        BY <3>1, <3>2
      <4> QED
        BY <1>2, <3>1, <4>1, <4>2
    <3>7. swallowed' = swallowed /\ swallowed' \in [Listeners -> Nat]
      BY <2>2 DEF McInv, McTypeInv
    <3> QED
      BY <2>2, <3>1, <3>2, <3>4, <3>5, <3>6, <3>7
  <2> QED
    BY <1>1, <2>1, <2>2
<1>4. \A l \in Listeners : l \in Members /\ KnownOf(l)' = KnownOf(l)
  BY <1>3 DEF KnownOf, Members
<1>5. McTypeInv' /\ GroupInv' /\ TargetInv'
  <2>1. \A q \in Members : Len(mcQueue'[q].msgs) <= QueueMax
    BY <1>3 DEF McInv, McTypeInv
  <2> QED
    BY <1>1, <1>3, <2>1 DEF McInv, McTypeInv, GroupInv, TargetInv, multicast, Queues
<1>6. OnceInv'
  BY <1>1, <1>3, <1>4 DEF McInv, OnceInv, multicast
<1>7. OwedInv'
  BY <1>1, <1>3, <1>4 DEF McInv, OwedInv, multicast
<1> QED
  BY <1>5, <1>6, <1>7 DEF McInv

\* McInv holds in every reachable state of the multicast programs.
LEMMA McInvariance == McSpec => []McInv
<1>1. McInv /\ [McNext]_mcVars => McInv'
  <2> SUFFICES ASSUME McInv, [McNext]_mcVars PROVE McInv'
    OBVIOUS
  <2>1. CASE UNCHANGED mcVars
    BY <2>1 DEF McInv, McTypeInv, GroupInv, TargetInv, OnceInv, OwedInv, KnownOf, mcVars, multicast, reading
  <2>2. CASE McCreate \/ McStore \/ McRmmod
    BY <2>2, McDriverSteps
  <2>3. ASSUME NEW p \in Members, JoinGroup(p) PROVE McInv'
    BY <2>3, JoinSteps
  <2>4. ASSUME NEW p \in Members, SendMessage(p) PROVE McInv'
    <3>1. mcAt[p] = "joined" /\ targets[p] = <<>> /\ mcFault \in {"none", "null", "unloaded"}
      BY <2>4 DEF SendMessage, Pass, McInv, TargetInv, McTypeInv
    <3>2. CASE mcAt' = [mcAt EXCEPT ![p] = "callback"] /\ UNCHANGED <<group, mcQueue>>
      BY <2>4, <3>1, <3>2, PassSteps DEF SendMessage
    <3>3. CASE mcAt' = [mcAt EXCEPT ![p] = "end"] /\ LeaveGroup(p)
      BY <2>4, <3>1, <3>3, EndSteps DEF SendMessage
    <3> QED
      BY <2>4, <3>2, <3>3 DEF SendMessage, Pass
  <2>5. ASSUME NEW p \in Members, Sent(p) PROVE McInv'
    <3>1. mcAt[p] = "sent" /\ targets[p] = <<>> /\ mcFault \in {"none", "null", "unloaded"}
      BY <2>5 DEF Sent, Pass, McInv, TargetInv, McTypeInv
    <3>2. CASE mcAt' = [mcAt EXCEPT ![p] = "read"] /\ UNCHANGED <<group, mcQueue>>
      BY <2>5, <3>1, <3>2, PassSteps DEF Sent
    <3>3. CASE mcAt' = [mcAt EXCEPT ![p] = "end"] /\ LeaveGroup(p)
      BY <2>5, <3>1, <3>3, EndSteps DEF Sent
    <3> QED
      BY <2>5, <3>2, <3>3 DEF Sent, Pass
  <2>6. ASSUME NEW p \in Members, RecvMsgBegins(p) PROVE McInv'
    <3>1. mcAt[p] = "callback" /\ targets[p] = <<>> /\ mcFault \in {"none", "null", "unloaded"}
          /\ UNCHANGED <<mcSock, mcUsed, group, mcQueue, reading>>
      BY <2>6 DEF RecvMsgBegins, Pass, McInv, TargetInv, McTypeInv
    <3>2. CASE /\ Pass(p, "callback", "multicast")
               /\ targets' = [targets EXCEPT ![p] = group]
               /\ owed' = [l \in Listeners |-> owed[l] \cup {m \in {p} : l \in Elements(group)}]
               /\ UNCHANGED <<dropped, mcFault>>
      BY <3>1, <3>2, MulticastSteps
    <3>3. CASE /\ mcAt' = [mcAt EXCEPT ![p] = "multicast"]
               /\ mcFault' \in {"null", "unloaded"}
               /\ UNCHANGED multicast
      BY <3>1, <3>3, PassSteps
    <3>4. CASE mcAt' = [mcAt EXCEPT ![p] = "sent"] /\ UNCHANGED <<multicast, mcFault>>
      BY <3>1, <3>4, PassSteps
    <3> QED
      BY <2>6, <3>2, <3>3, <3>4 DEF RecvMsgBegins, Pass
  <2>7. ASSUME NEW p \in Members, Deliver(p) PROVE McInv'
    BY <2>7, DeliverSteps
  <2>8. ASSUME NEW p \in Members, RecvMsgReturns(p) PROVE McInv'
    <3>1. /\ mcAt[p] = "multicast" /\ targets[p] = <<>> /\ mcAt' = [mcAt EXCEPT ![p] = "sent"]
          /\ mcFault' \in {"none", "null", "unloaded"}
          /\ UNCHANGED <<mcSock, mcUsed, group, mcQueue, multicast, reading>>
      BY <2>8 DEF RecvMsgReturns, Pass, McInv, McTypeInv
    <3> QED
      BY <3>1, PassSteps
  <2>9. ASSUME NEW r \in Listeners, ReadEvent(r) PROVE McInv'
    BY <2>9, ReadSteps
  <2> QED
    BY <2>1, <2>2, <2>3, <2>4, <2>5, <2>6, <2>7, <2>8, <2>9 DEF McNext
<1> QED
  BY <1>1, McStart, PTL DEF McSpec

\* The type invariant that the run checks follows from it.
LEMMA McTypes == McInv => McTypeOK
<1> SUFFICES ASSUME McInv PROVE McTypeOK
  OBVIOUS
<1>1. \A p \in Members : /\ mcQueue[p].msgs \in Seq(Members) /\ Len(mcQueue[p].msgs) <= QueueMax
                         /\ mcQueue[p].error \in BOOLEAN /\ mcQueue[p].congested \in BOOLEAN
                         /\ targets[p] \in Seq(Members)
  BY DEF McInv, McTypeInv
<1>2. \A p \in Members : {mcQueue[p].error, mcQueue[p].congested} \subseteq BOOLEAN
  BY <1>1
<1>3. {owed, dropped} \subseteq [Listeners -> SUBSET Members]
  BY DEF McInv, McTypeInv
<1> QED
  BY <1>1, <1>2, <1>3 DEF McInv, McTypeInv, McTypeOK

\* So does the property that the run checks.
LEMMA McTold == McInv => ListenersTold
<1> SUFFICES ASSUME McInv, NEW l \in Listeners
             PROVE  LET known == mcPrinted[l] \o mcQueue[l].msgs
                    IN  /\ \A i, j \in DOMAIN known : i # j => known[i] # known[j]
                        /\ l \in Elements(group) =>
                             \A s \in owed[l] : \/ s \in Elements(known) \cup dropped[l]
                                                \/ l \in Elements(targets[s])
                        /\ l \in Elements(group) /\ dropped[l] # {}
                             => mcQueue[l].error \/ swallowed[l] > 0
  BY DEF ListenersTold
<1>1. NoTwice(KnownOf(l))
  BY DEF McInv, OnceInv
<1>2. /\ l \in Elements(group) =>
           \A s \in owed[l] : \/ s \in Elements(KnownOf(l)) \cup dropped[l]
                              \/ l \in Elements(targets[s])
      /\ l \in Elements(group) /\ dropped[l] # {} => mcQueue[l].error \/ swallowed[l] > 0
  BY DEF McInv, OwedInv
<1> QED
  BY <1>1, <1>2 DEF KnownOf, NoTwice
=============================================================================
