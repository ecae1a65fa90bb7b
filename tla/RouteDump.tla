------------------------------ MODULE RouteDump ------------------------------
(***************************************************************************)
(* The program that shows the routing table.  It asks the kernel for a     *)
(* dump and works on one datagram: looks how long it is, allocates a       *)
(* buffer, receives, goes through the messages, frees the buffer.          *)
(*                                                                         *)
(* The kernel answers with datagrams of routes and one that holds the end  *)
(* of the dump, or with an error.  Another process may send a datagram to  *)
(* the program's socket at any time.                                       *)
(***************************************************************************)
EXTENDS Naturals, Sequences, FiniteSets

CONSTANTS MaxRoutes,   \* bound on the routing table
          PerDatagram  \* routes that fit into a datagram

ASSUME RoutesAssumption == MaxRoutes \in Nat /\ PerDatagram \in Nat \ {0}

VARIABLES dumpAt,    \* where the program is
          table,     \* the kernel's table: each route is "shown" or, because of
                     \* the length of its prefix, "hidden"
          inbox,     \* the datagrams that have come
          buf,       \* the datagram in buf; from is "nobody" while buf is unset
          pos,       \* the message h points to
          printed,   \* routes that were printed
          frees,     \* how often buf was freed
          foreign,   \* a foreign datagram was sent
          dumpFault  \* "none", "wild_free", "used_freed", "double_free"

incoming  == <<table, inbox, foreign>>
traversal == <<buf, pos, printed, frees>>
dumpVars  == <<dumpAt, incoming, traversal, dumpFault>>

Datagram(from, type, messages, intr) ==
  [from |-> from, type |-> type, msgs |-> messages, intr |-> intr]

Unset == Datagram("nobody", "routes", <<>>, FALSE)

DumpInit == /\ dumpAt = "open"
            /\ table = <<>> /\ inbox = <<>> /\ foreign = FALSE
            /\ buf = Unset /\ pos = 1 /\ printed = 0 /\ frees = 0
            /\ dumpFault = "none"

From(from, to) == dumpAt = from /\ dumpAt' = to

-----------------------------------------------------------------------------
\* open_netlink; without a socket main says so and ends.
OpenNetlink == /\ dumpAt = "open"
               /\ dumpAt' \in {"request", "end"}
               /\ UNCHANGED <<incoming, traversal, dumpFault>>

\* The first datagram of the answer to the request.
FirstDatagram(t) == IF t = <<>> THEN Datagram("kernel", "done", <<"end">>, FALSE)
                    ELSE Datagram("kernel", "routes",
                                  SubSeq(t, 1, IF Len(t) < PerDatagram THEN Len(t) ELSE PerDatagram),
                                  FALSE)

\* do_route_dump_requst
Request ==
  /\ dumpAt = "request"
  /\ \/ dumpAt' = "end" /\ UNCHANGED incoming
     \/ /\ dumpAt' = "peek"
        /\ table' \in UNION {[1..n -> {"shown", "hidden"}] : n \in 0..MaxRoutes}
        /\ inbox' \in {Append(inbox, d) : d \in {FirstDatagram(table'),
                                                 Datagram("kernel", "error", <<"error">>, FALSE)}}
        /\ UNCHANGED foreign
  /\ UNCHANGED <<traversal, dumpFault>>

ForeignSends == /\ dumpAt \in {"request", "peek", "malloc", "receive"} /\ ~foreign
                /\ foreign' = TRUE
                /\ \E intr \in BOOLEAN :
                     inbox' = Append(inbox, Datagram("other", "routes", <<"shown">>, intr))
                /\ UNCHANGED <<dumpAt, table, traversal, dumpFault>>

\* rtnl_recvmsg returns without having set buf.
ReceiveFails == /\ dumpAt \in {"peek", "malloc", "receive"}
                /\ dumpAt' = "next"
                /\ UNCHANGED <<incoming, traversal, dumpFault>>

PeekLength == /\ inbox # <<>>
              /\ From("peek", "malloc")
              /\ UNCHANGED <<incoming, traversal, dumpFault>>

AllocBuf == /\ From("malloc", "receive")
            /\ UNCHANGED <<incoming, traversal, dumpFault>>

ReceiveDatagram == /\ From("receive", "next")
                   /\ buf' = Head(inbox) /\ inbox' = Tail(inbox)
                   /\ UNCHANGED <<table, foreign, pos, printed, frees, dumpFault>>

-----------------------------------------------------------------------------
(* The loop of get_route_dump_response.                                    *)

\* Mutant: an interrupted dump only leaves the loop, the function frees again.
ExamineBreaks ==
  /\ dumpAt = "next"
  /\ IF pos > Len(buf.msgs) THEN dumpAt' = "free" /\ UNCHANGED frees
     ELSE IF buf.intr       THEN dumpAt' = "free" /\ frees' = frees + 1
     ELSE IF buf.from # "kernel" THEN dumpAt' = "continue" /\ UNCHANGED frees
     ELSE /\ dumpAt' = "print"
          /\ frees' = IF buf.type = "error" THEN frees + 1 ELSE frees
  /\ UNCHANGED <<incoming, buf, pos, printed, dumpFault>>

\* NLMSG_OK and the three tests of a message, in their order.
Examine ==
  /\ dumpAt = "next"
  /\ IF pos > Len(buf.msgs) THEN dumpAt' = "free" /\ UNCHANGED frees
     ELSE IF buf.intr       THEN dumpAt' = "end" /\ frees' = frees + 1
     ELSE IF buf.from # "kernel" THEN dumpAt' = "continue" /\ UNCHANGED frees
     ELSE /\ dumpAt' = "print"
          /\ frees' = IF buf.type = "error" THEN frees + 1 ELSE frees
  /\ UNCHANGED <<incoming, buf, pos, printed, dumpFault>>

\* The same message once more.
Continue == /\ From("continue", "next")
            /\ UNCHANGED <<incoming, traversal, dumpFault>>

\* Mutant: the loop does not move on to the next message.
PrintRouteForEver ==
  /\ dumpAt = "print"
  /\ printed' = IF buf.msgs[pos] = "shown" /\ printed < MaxRoutes THEN printed + 1 ELSE printed
  /\ \/ dumpAt' = "next" /\ UNCHANGED dumpFault
     \/ frees > 0 /\ dumpAt' = "end" /\ dumpFault' = "used_freed"
  /\ UNCHANGED <<incoming, buf, pos, frees>>

\* print_route and NLMSG_NEXT; after the free they read what is left of the
\* message, and may crash.
PrintRoute ==
  /\ dumpAt = "print"
  /\ printed' = IF buf.msgs[pos] = "shown" THEN printed + 1 ELSE printed
  /\ pos' = pos + 1
  /\ \/ dumpAt' = "next" /\ UNCHANGED dumpFault
     \/ frees > 0 /\ dumpAt' = "end" /\ dumpFault' = "used_freed"
  /\ UNCHANGED <<incoming, buf, frees>>

\* Mutant: the loop for further datagrams is entered again with the freed one.
FreeBufAgain ==
  /\ From("free", "next")
  /\ frees' = frees + 1
  /\ UNCHANGED <<incoming, buf, pos, printed, dumpFault>>

\* free(buf), of whatever the variable holds; an unset one may hold NULL.
FreeBuf ==
  /\ From("free", "end")
  /\ frees' = frees + 1
  /\ dumpFault' \in IF buf.from = "nobody" THEN {"none", "wild_free"}
                    ELSE IF frees > 0 THEN {"double_free"} ELSE {"none"}
  /\ UNCHANGED <<incoming, buf, pos, printed>>

-----------------------------------------------------------------------------
DumpStep == \/ OpenNetlink \/ Request \/ ReceiveFails \/ PeekLength \/ AllocBuf
            \/ ReceiveDatagram \/ Examine \/ Continue \/ PrintRoute \/ FreeBuf

DumpNext == DumpStep \/ ForeignSends

DumpSpec == DumpInit /\ [][DumpNext]_dumpVars

\* The program runs once it has sent its request.
DumpFairness == WF_dumpVars(dumpAt \notin {"open", "request"} /\ DumpStep)

-----------------------------------------------------------------------------
\* Every variable stays in its range.
DumpTypeOK ==
  /\ dumpAt \in {"open", "request", "peek", "malloc", "receive", "next", "continue",
                 "print", "free", "end"}
  /\ table \in Seq({"shown", "hidden"}) /\ Len(table) <= MaxRoutes
  /\ Len(inbox) <= 2
  /\ buf.from \in {"nobody", "kernel", "other"}
  /\ pos \in 1..(Len(buf.msgs) + 1)
  /\ printed \in 0..MaxRoutes
  /\ frees \in 0..2
  /\ foreign \in BOOLEAN
  /\ dumpFault \in {"none", "wild_free", "used_freed", "double_free"}

ShownOf(t) == {i \in DOMAIN t : t[i] = "shown"}

\* Whatever comes in whatever order, buf is freed exactly once, unless
\* receiving failed or the kernel reported an error.  A program that ended well
\* with the kernel's answer has printed each route to be shown of the first
\* datagram, and that is the whole table only if it fits into one.
DumpFaultsKnown ==
  /\ dumpFault = "wild_free" => buf = Unset
  /\ dumpFault \in {"used_freed", "double_free"} => buf.type = "error"
  /\ dumpAt = "end" /\ buf # Unset => (frees = 1) = (dumpFault # "double_free")
  /\ dumpAt = "end" /\ buf.from = "kernel" /\ buf.type = "routes" =>
       /\ printed = Cardinality(ShownOf(buf.msgs))
       /\ (buf.msgs = table) = (Len(table) <= PerDatagram)

\* Once it has sent its request the program ends, unless another process got
\* its datagram in first: then the loop never leaves it.
DumpIdle == dumpAt \in {"open", "request", "end"} \/ (buf.from = "other" /\ ~buf.intr)

DumpEnds == []<>DumpIdle
=============================================================================
