---------------------------- MODULE NetlinkEcho -----------------------------
(***************************************************************************)
(* The netlink drivers that answer a request, one of them loaded, and      *)
(* their programs: the example ("hello"), the unicast driver ("unicast")   *)
(* and the one with a socket in every network namespace ("namespace").     *)
(* A client sends one message; the callback runs in the client's system    *)
(* call and sends the answer to the process id in the message.  Then the   *)
(* client waits for it in recvmsg.                                         *)
(*                                                                         *)
(* The kernel's part: netlink_kernel_create makes the protocol known, so   *)
(* that a message can arrive before the driver has stored the socket it    *)
(* returns; a client's socket holds a reference to the module; sending     *)
(* where there is no socket of the driver is refused.                      *)
(***************************************************************************)
EXTENDS Naturals, FiniteSets

CONSTANTS EchoClients, \* processes, each with one request
          Nets,        \* network namespaces
          InitNet,     \* init_net
          NetOf        \* the namespace of each client

ASSUME NetsAssumption == InitNet \in Nets /\ NetOf \in [EchoClients -> Nets]
ASSUME EchoClientsAssumption == IsFiniteSet(EchoClients)

EchoDrivers == {"hello", "unicast", "namespace"}

VARIABLES echoDriver,  \* the driver that is or was loaded, or "none"
          echoPhase,   \* "absent", "loading", "loaded", "unloaded"
          kernelSock,  \* of each namespace: "none", "created", "stored"
          netsGone,    \* namespaces that have ended
          kept,        \* references to each namespace that nobody gives back
          echoAt,      \* where each client is in main()
          bound,       \* clients bound to their process id
          replies,     \* clients with the answer in their queue
          stuck,       \* history: why a client waits in vain, or "no"
          heard,       \* history: clients whose message reached the callback
          echoFault    \* the callback used the socket before it was stored

echoModule == <<echoDriver, echoPhase>>
clients    == <<echoAt, bound, replies, stuck, heard>>
echoVars   == <<echoModule, kernelSock, netsGone, kept, clients, echoFault>>

EchoInit == /\ echoDriver = "none" /\ echoPhase = "absent"
            /\ kernelSock = [n \in Nets |-> "none"]
            /\ netsGone = {} /\ kept = [n \in Nets |-> 0]
            /\ echoAt = [c \in EchoClients |-> "start"]
            /\ bound = {} /\ replies = {} /\ heard = {}
            /\ stuck = [c \in EchoClients |-> "no"]
            /\ echoFault = FALSE

\* Namespaces in which the driver makes a socket.
Served == IF echoDriver = "namespace" THEN Nets \ netsGone ELSE {InitNet}

-----------------------------------------------------------------------------
(* The init and exit functions.                                            *)

EchoLoad == /\ echoPhase = "absent"
            /\ echoDriver' \in EchoDrivers
            /\ echoPhase' = "loading"
            /\ UNCHANGED <<kernelSock, netsGone, kept, clients, echoFault>>

\* netlink_kernel_create, in one namespace after the other.
CreateSock(n) == /\ echoPhase = "loading" /\ n \in Served
                 /\ kernelSock[n] = "none" /\ \A k \in Nets : kernelSock[k] # "created"
                 /\ kernelSock' = [kernelSock EXCEPT ![n] = "created"]
                 /\ UNCHANGED <<echoModule, netsGone, kept, clients, echoFault>>

\* nl_sock = ..., data->sk = nl_sock
StoreSock(n) == /\ kernelSock[n] = "created"
                /\ kernelSock' = [kernelSock EXCEPT ![n] = "stored"]
                /\ echoPhase' = IF \A k \in Served \ {n} : kernelSock[k] = "stored"
                                THEN "loaded" ELSE "loading"
                /\ UNCHANGED <<echoDriver, netsGone, kept, clients, echoFault>>

\* The namespace driver does not look at the result of
\* register_pernet_subsys, which has taken everything back: it stays loaded.
CreateFails(n) == /\ echoPhase = "loading" /\ n \in Served
                  /\ kernelSock[n] = "none" /\ \A k \in Nets : kernelSock[k] # "created"
                  /\ kernelSock' = [k \in Nets |-> "none"]
                  /\ echoPhase' = IF echoDriver = "namespace" THEN "loaded" ELSE "unloaded"
                  /\ UNCHANGED <<echoDriver, netsGone, kept, clients, echoFault>>

HasSocket(c) == echoAt[c] \in {"bind", "send", "receive"}

EchoRmmod == /\ echoPhase = "loaded" /\ \A c \in EchoClients : ~HasSocket(c)
             /\ echoPhase' = "unloaded"
             /\ kernelSock' = [n \in Nets |-> "none"]
             /\ UNCHANGED <<echoDriver, netsGone, kept, clients, echoFault>>

\* ns_netlink_test_exit, when the last reference to a namespace is gone.
NetEnds(n) == /\ n \notin netsGone \cup {InitNet} /\ echoPhase # "loading"
              /\ kept[n] = 0
              /\ \A c \in EchoClients : NetOf[c] = n => echoAt[c] = "end"
              /\ netsGone' = netsGone \cup {n}
              /\ kernelSock' = [kernelSock EXCEPT ![n] = "none"]
              /\ UNCHANGED <<echoModule, kept, clients, echoFault>>

-----------------------------------------------------------------------------
(* The callback, for a message of client c.                                *)

Answered(c) == replies' = replies \cup ({c} \cap bound)

\* Ends without an answer.
Silent(c, why) == stuck' = [stuck EXCEPT ![c] = why] /\ UNCHANGED <<replies, echoFault>>

\* get_net_ns_by_pid takes a reference to the namespace.
TakeNet(n) == kept' = IF echoDriver = "namespace" THEN [kept EXCEPT ![n] = @ + 1] ELSE kept

\* hello_nl_recv_msg and both netlink_test_recv_msg.
RecvMsg(c) ==
  LET n == NetOf[c]
  IN  /\ TakeNet(n)
      /\ \/ echoDriver = "namespace" /\ kernelSock[n] = "created" /\ Silent(c, "early")
         \/ Silent(c, "nomem")
         \/ /\ echoDriver # "namespace" /\ kernelSock[n] = "created"
            /\ echoFault' = TRUE
            /\ UNCHANGED <<stuck, replies>>
         \/ /\ kernelSock[n] = "stored"
            /\ Answered(c)
            /\ stuck' = [stuck EXCEPT ![c] = IF c \in bound THEN "no" ELSE "unbound"]
            /\ UNCHANGED echoFault

-----------------------------------------------------------------------------
(* The programs.                                                           *)

Go(c, from, to) == echoAt[c] = from /\ echoAt' = [echoAt EXCEPT ![c] = to]

\* socket() fails as long as the protocol is not known.
OpenSocket(c) ==
  /\ echoPhase # "absent"
  /\ Go(c, "start", IF \E n \in Nets : kernelSock[n] # "none" THEN "bind" ELSE "end")
  /\ UNCHANGED <<echoModule, kernelSock, netsGone, kept, bound, replies, stuck, heard, echoFault>>

\* Nobody looks at the result: the id may be another socket's.
Bind(c) == /\ Go(c, "bind", "send")
           /\ bound' \in {bound, bound \cup {c}}
           /\ UNCHANGED <<echoModule, kernelSock, netsGone, kept, replies, stuck, heard, echoFault>>

SendRequest(c) == /\ kernelSock[NetOf[c]] # "none"
                  /\ Go(c, "send", "receive")
                  /\ heard' = heard \cup {c}
                  /\ RecvMsg(c)
                  /\ UNCHANGED <<echoModule, kernelSock, netsGone, bound>>

\* The first program waits for the answer all the same.
SendRefused(c) == /\ kernelSock[NetOf[c]] = "none"
                  /\ \/ /\ echoDriver = "hello"
                        /\ Go(c, "send", "receive")
                        /\ stuck' = [stuck EXCEPT ![c] = "refused"]
                     \/ /\ echoDriver # "hello"
                        /\ Go(c, "send", "end")
                        /\ UNCHANGED stuck
                  /\ UNCHANGED <<echoModule, kernelSock, netsGone, kept, bound, replies, heard, echoFault>>

ReceiveReply(c) == /\ c \in replies
                   /\ Go(c, "receive", "end")
                   /\ replies' = replies \ {c}
                   /\ UNCHANGED <<echoModule, kernelSock, netsGone, kept, bound, stuck, heard, echoFault>>

KillClient(c) == /\ c \notin replies
                 /\ Go(c, "receive", "end")
                 /\ UNCHANGED <<echoModule, kernelSock, netsGone, kept, bound, replies, stuck, heard, echoFault>>

ClientStep(c) == OpenSocket(c) \/ Bind(c) \/ SendRequest(c) \/ SendRefused(c) \/ ReceiveReply(c)

-----------------------------------------------------------------------------
EchoNext == /\ ~echoFault
            /\ \/ EchoLoad \/ EchoRmmod
               \/ \E n \in Nets : CreateSock(n) \/ StoreSock(n) \/ CreateFails(n) \/ NetEnds(n)
               \/ \E c \in EchoClients : ClientStep(c) \/ KillClient(c)

EchoSpec == EchoInit /\ [][EchoNext]_echoVars

\* A client that has opened its socket goes on.
EchoFairness ==
  \A c \in EchoClients : WF_echoVars(~echoFault /\ HasSocket(c) /\ ClientStep(c))

-----------------------------------------------------------------------------
\* Every variable stays in its range.
EchoTypeOK ==
  /\ echoDriver \in EchoDrivers \cup {"none"}
  /\ echoPhase \in {"absent", "loading", "loaded", "unloaded"}
  /\ kernelSock \in [Nets -> {"none", "created", "stored"}]
  /\ netsGone \subseteq Nets
  /\ kept \in [Nets -> 0..Cardinality(EchoClients)]
  /\ echoAt \in [EchoClients -> {"start", "bind", "send", "receive", "end"}]
  /\ {bound, replies, heard} \subseteq SUBSET EchoClients
  /\ stuck \in [EchoClients -> {"no", "refused", "early", "nomem", "unbound"}]
  /\ echoFault \in BOOLEAN

\* A client waits in vain only because of a result nobody looked at, a lack of
\* memory, or, with the namespace driver, because it was too early.  Its socket
\* keeps the driver's for as long as it waits.  Only the drivers with one
\* socket use it before it is there, and while they load.  A namespace from
\* which the namespace driver heard a client never ends, unloading included.
EchoFaultsKnown ==
  /\ \A c \in EchoClients :
       /\ echoAt[c] = "receive" /\ c \notin replies /\ ~echoFault => stuck[c] # "no"
       /\ stuck[c] = "refused" => echoDriver = "hello" /\ c \notin heard
       /\ stuck[c] = "early" => echoDriver = "namespace"
       /\ c \in replies => echoPhase \in {"loading", "loaded"}
       /\ echoDriver = "namespace" /\ c \in heard => NetOf[c] \notin netsGone
  /\ echoFault => echoDriver \in {"hello", "unicast"} /\ echoPhase = "loading"
  /\ \A n \in netsGone : kernelSock[n] = "none"

\* Again and again no client is on its way through the driver, that is, each
\* one has its answer in the end, unless one of these stopped it.
EchoIdle == \A c \in EchoClients : HasSocket(c) => stuck[c] # "no" \/ echoFault

EchoEnds == []<>EchoIdle
=============================================================================
