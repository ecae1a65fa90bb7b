-------------------------- MODULE NetlinkMulticast --------------------------
(***************************************************************************)
(* The multicast driver and its programs.  nl_recv and nl_recv1 join the   *)
(* group, send a message and then read for ever; nl_send joins, sends and  *)
(* ends.  A message goes to the driver, whose callback runs in the         *)
(* sender's system call and multicasts the text to the group.              *)
(*                                                                         *)
(* The kernel delivers to one member after the other, the last that joined *)
(* first; who joins meanwhile is left out.  The protocol,                  *)
(* NETLINK_USERSOCK, is there without the driver: the programs' sockets do *)
(* not keep the module.                                                    *)
(***************************************************************************)
EXTENDS NetlinkQueue

CONSTANTS Listeners,   \* processes that run nl_recv or nl_recv1
          Senders      \* processes that run nl_send

Members == Listeners \cup Senders

VARIABLES mcSock,    \* nl_sock of the driver: "none", "created", "stored"
          mcUsed,    \* the module has been loaded
          mcAt,      \* where each process is, in its program or in the callback
          group,     \* members of the group, the last that joined first
          mcQueue,   \* the receive queue of each process
          targets,   \* to whom the callback of each sender still has to deliver
          mcPrinted, \* the messages each listener printed, named by sender
          swallowed, \* errors that each listener did not mention
          owed,      \* history: messages delivered, or to be, to each listener
          dropped,   \* history: messages that did not fit into its queue
          mcFault    \* "none", "null" (nl_sock is used too early), "unloaded"
                     \* (the callback runs in a module that has gone)

multicast == <<targets, owed, dropped>>
reading   == <<mcPrinted, swallowed>>
mcVars    == <<mcSock, mcUsed, mcAt, group, mcQueue, multicast, reading, mcFault>>

McInit == /\ mcSock = "none" /\ mcUsed = FALSE /\ mcFault = "none"
          /\ mcAt = [p \in Members |-> "start"]
          /\ group = <<>>
          /\ mcQueue = [p \in Members |-> EmptyQueue]
          /\ targets = [p \in Members |-> <<>>]
          /\ mcPrinted = [l \in Listeners |-> <<>>]
          /\ swallowed = [l \in Listeners |-> 0]
          /\ owed = [l \in Listeners |-> {}]
          /\ dropped = [l \in Listeners |-> {}]

Elements(s) == {s[i] : i \in DOMAIN s}

Pass(p, from, to) == mcAt[p] = from /\ mcAt' = [mcAt EXCEPT ![p] = to]

\* The process ends and its socket is closed.
LeaveGroup(p) ==
  /\ \E k \in DOMAIN group :
       /\ group[k] = p
       /\ group' = SubSeq(group, 1, k - 1) \o SubSeq(group, k + 1, Len(group))
  /\ mcQueue' = [mcQueue EXCEPT ![p] = EmptyQueue]

-----------------------------------------------------------------------------
(* netlink_test_init and netlink_test_exit.                                *)

McCreate == /\ ~mcUsed
            /\ mcUsed' = TRUE
            /\ mcSock' \in {"none", "created"}
            /\ UNCHANGED <<mcAt, group, mcQueue, multicast, reading, mcFault>>

McStore == /\ mcSock = "created"
           /\ mcSock' = "stored"
           /\ UNCHANGED <<mcUsed, mcAt, group, mcQueue, multicast, reading, mcFault>>

McRmmod == /\ mcSock = "stored"
           /\ mcSock' = "none"
           /\ UNCHANGED <<mcUsed, mcAt, group, mcQueue, multicast, reading, mcFault>>

-----------------------------------------------------------------------------
(* netlink_test_recv_msg, in the context of sender s.                      *)

\* nlmsg_new, and the start of nlmsg_multicast.
RecvMsgBegins(s) ==
  /\ \/ /\ Pass(s, "callback", "multicast")
        /\ mcSock = "stored"
        /\ targets' = [targets EXCEPT ![s] = group]
        /\ owed' = [l \in Listeners |-> owed[l] \cup {m \in {s} : l \in Elements(group)}]
        /\ UNCHANGED <<dropped, mcFault>>
     \/ /\ Pass(s, "callback", "multicast")
        /\ mcSock # "stored"
        /\ mcFault' = IF mcSock = "created" THEN "null" ELSE "unloaded"
        /\ UNCHANGED multicast
     \/ /\ Pass(s, "callback", "sent")   \* no memory
        /\ mcSock # "none"
        /\ UNCHANGED <<multicast, mcFault>>
  /\ UNCHANGED <<mcSock, mcUsed, group, mcQueue, reading>>

Deliver(s) ==
  /\ mcAt[s] = "multicast" /\ targets[s] # <<>>
  /\ targets' = [targets EXCEPT ![s] = Tail(@)]
  /\ LET p == Head(targets[s])
     IN  IF p \notin Elements(group) THEN UNCHANGED <<mcQueue, dropped>>
         ELSE /\ mcQueue' = [mcQueue EXCEPT ![p] = Offer(@, s)]
              /\ dropped' = IF Accepts(mcQueue[p]) \/ p \notin Listeners THEN dropped
                            ELSE [dropped EXCEPT ![p] = @ \cup {s}]
  /\ UNCHANGED <<mcSock, mcUsed, mcAt, group, owed, reading, mcFault>>

RecvMsgReturns(s) ==
  /\ targets[s] = <<>>
  /\ Pass(s, "multicast", "sent")
  /\ mcFault' = IF mcSock = "none" THEN "unloaded" ELSE mcFault
  /\ UNCHANGED <<mcSock, mcUsed, group, mcQueue, multicast, reading>>

-----------------------------------------------------------------------------
(* The programs.                                                           *)

\* NETLINK_ADD_MEMBERSHIP
JoinGroup(p) == /\ Pass(p, "start", "joined")
                /\ group' = <<p>> \o group
                /\ UNCHANGED <<mcSock, mcUsed, mcQueue, multicast, reading, mcFault>>

\* sendmsg; without the driver it fails and the program ends.
SendMessage(p) ==
  /\ \/ /\ mcSock # "none"
        /\ Pass(p, "joined", "callback")
        /\ UNCHANGED <<group, mcQueue>>
     \/ /\ mcSock = "none"
        /\ Pass(p, "joined", "end")
        /\ LeaveGroup(p)
  /\ UNCHANGED <<mcSock, mcUsed, multicast, reading, mcFault>>

\* nl_recv goes on to read, nl_send closes its socket.
Sent(p) == /\ \/ p \in Listeners /\ Pass(p, "sent", "read") /\ UNCHANGED <<group, mcQueue>>
              \/ p \in Senders /\ Pass(p, "sent", "end") /\ LeaveGroup(p)
           /\ UNCHANGED <<mcSock, mcUsed, multicast, reading, mcFault>>

\* Mutant: the error is taken for a message.
ReadEventUnchecked(l) ==
  /\ mcAt[l] = "read"
  /\ mcQueue[l].msgs # <<>>
  /\ mcQueue' = [mcQueue EXCEPT ![l] = HeadTaken([@ EXCEPT !.error = FALSE])]
  /\ mcPrinted' = [mcPrinted EXCEPT ![l] = Append(@, Head(mcQueue[l].msgs))]
  /\ UNCHANGED <<mcSock, mcUsed, mcAt, group, multicast, swallowed, mcFault>>

\* read_event says nothing of an error.
ReadEvent(l) ==
  /\ mcAt[l] = "read"
  /\ \/ /\ mcQueue[l].error
        /\ mcQueue' = [mcQueue EXCEPT ![l] = ErrorTaken(@)]
        /\ swallowed' = [swallowed EXCEPT ![l] = @ + 1]
        /\ UNCHANGED mcPrinted
     \/ /\ ~mcQueue[l].error /\ mcQueue[l].msgs # <<>>
        /\ mcQueue' = [mcQueue EXCEPT ![l] = HeadTaken(@)]
        /\ mcPrinted' = [mcPrinted EXCEPT ![l] = Append(@, Head(mcQueue[l].msgs))]
        /\ UNCHANGED swallowed
  /\ UNCHANGED <<mcSock, mcUsed, mcAt, group, multicast, mcFault>>

-----------------------------------------------------------------------------
McNext == /\ mcFault = "none"
          /\ \/ McCreate \/ McStore \/ McRmmod
             \/ \E p \in Members : \/ JoinGroup(p) \/ SendMessage(p) \/ Sent(p)
                                   \/ RecvMsgBegins(p) \/ Deliver(p) \/ RecvMsgReturns(p)
             \/ \E l \in Listeners : ReadEvent(l)

McSpec == McInit /\ [][McNext]_mcVars

-----------------------------------------------------------------------------
\* Every variable stays in its range.
McTypeOK ==
  /\ mcSock \in {"none", "created", "stored"}
  /\ mcUsed \in BOOLEAN
  /\ mcAt \in [Members -> {"start", "joined", "callback", "multicast", "sent", "read", "end"}]
  /\ group \in Seq(Members)
  /\ \A p \in Members :
       /\ mcQueue[p].msgs \in Seq(Members) /\ Len(mcQueue[p].msgs) <= QueueMax
       /\ {mcQueue[p].error, mcQueue[p].congested} \subseteq BOOLEAN
       /\ targets[p] \in Seq(Members)
  /\ mcPrinted \in [Listeners -> Seq(Members)]
  /\ swallowed \in [Listeners -> Nat]
  /\ {owed, dropped} \subseteq [Listeners -> SUBSET Members]
  /\ mcFault \in {"none", "null", "unloaded"}

\* A listener prints each message that was sent since it joined, its own
\* included, exactly once, or has it in its queue, or will have it; unless the
\* queue was full, and then an error waits for it or read_event met one and
\* kept silent.
ListenersTold ==
  \A l \in Listeners :
    LET known == mcPrinted[l] \o mcQueue[l].msgs
    IN  /\ \A i, j \in DOMAIN known : i # j => known[i] # known[j]
        /\ l \in Elements(group) => \A s \in owed[l] : \/ s \in Elements(known) \cup dropped[l]
                                                       \/ l \in Elements(targets[s])
        /\ l \in Elements(group) /\ dropped[l] # {} => mcQueue[l].error \/ swallowed[l] > 0
=============================================================================
