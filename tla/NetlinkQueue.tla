---------------------------- MODULE NetlinkQueue ----------------------------
(***************************************************************************)
(* The receive queue of a netlink socket that is a member of a group, the  *)
(* kernel's part of the multicast programs.  A message that does not fit   *)
(* is dropped and the socket gets an error, which the next recvmsg returns *)
(* in place of a message.  From then on everything is dropped, without a   *)
(* further error, until the queue has been read empty.                     *)
(***************************************************************************)
EXTENDS Naturals, Sequences

CONSTANT QueueMax  \* messages that fit into a queue

ASSUME QueueMaxAssumption == QueueMax \in Nat \ {0}

EmptyQueue == [msgs |-> <<>>, error |-> FALSE, congested |-> FALSE]

Accepts(q) == ~q.congested /\ Len(q.msgs) < QueueMax

Offer(q, m) == IF Accepts(q) THEN [q EXCEPT !.msgs = Append(@, m)]
               ELSE [q EXCEPT !.error = @ \/ ~q.congested, !.congested = TRUE]

\* recvmsg, when there is an error and when there is none.
Relaxed(q)    == [q EXCEPT !.congested = @ /\ q.msgs # <<>>]
ErrorTaken(q) == Relaxed([q EXCEPT !.error = FALSE])
HeadTaken(q)  == Relaxed([q EXCEPT !.msgs = Tail(@)])
=============================================================================
