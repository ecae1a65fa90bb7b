----------------------------- MODULE NetMonitor -----------------------------
(***************************************************************************)
(* The network monitor.  The kernel announces each change of a link, an    *)
(* address or a route to the members of the groups, one message in each    *)
(* datagram, in the order of the changes.  The program joins in bind,      *)
(* then reads without blocking, and sleeps for a quarter of a second when  *)
(* there is nothing, and after each message.                               *)
(***************************************************************************)
EXTENDS NetlinkQueue, FiniteSets

CONSTANT MaxChanges  \* bound on the changes

ASSUME MaxChangesAssumption == MaxChanges \in Nat

VARIABLES monitorAt,   \* "start", "read", "asleep", "end"
          changes,     \* number of changes so far
          monitorSock, \* its receive queue
          shown,       \* the changes it printed
          failures     \* how often it printed "Failed to read netlink"

monitorVars == <<monitorAt, changes, monitorSock, shown, failures>>

MonitorInit == /\ monitorAt = "start"
               /\ changes = 0 /\ monitorSock = EmptyQueue
               /\ shown = <<>> /\ failures = 0

\* The kernel.
Change == /\ changes < MaxChanges
          /\ changes' = changes + 1
          /\ IF monitorAt \in {"read", "asleep"}
             THEN monitorSock' = Offer(monitorSock, changes + 1)
             ELSE UNCHANGED monitorSock
          /\ UNCHANGED <<monitorAt, shown, failures>>

\* socket, bind
BindMonitor == /\ monitorAt = "start"
               /\ monitorAt' \in {"read", "end"}
               /\ UNCHANGED <<changes, monitorSock, shown, failures>>

\* EAGAIN
ReadNothing == /\ monitorAt = "read"
               /\ ~monitorSock.error /\ monitorSock.msgs = <<>>
               /\ monitorAt' = "asleep"
               /\ UNCHANGED <<changes, monitorSock, shown, failures>>

\* ENOBUFS
ReadError == /\ monitorAt = "read" /\ monitorSock.error
             /\ monitorSock' = ErrorTaken(monitorSock)
             /\ failures' = failures + 1
             /\ UNCHANGED <<monitorAt, changes, shown>>

ReadChange == /\ monitorAt = "read"
              /\ ~monitorSock.error /\ monitorSock.msgs # <<>>
              /\ shown' = Append(shown, Head(monitorSock.msgs))
              /\ monitorSock' = HeadTaken(monitorSock)
              /\ monitorAt' = "asleep"
              /\ UNCHANGED <<changes, failures>>

WakeMonitor == /\ monitorAt = "asleep"
               /\ monitorAt' = "read"
               /\ UNCHANGED <<changes, monitorSock, shown, failures>>

MonitorNext == \/ Change \/ BindMonitor \/ ReadNothing \/ ReadError \/ ReadChange
               \/ WakeMonitor

MonitorSpec == MonitorInit /\ [][MonitorNext]_monitorVars

-----------------------------------------------------------------------------
\* Every variable stays in its range.
MonitorTypeOK ==
  /\ monitorAt \in {"start", "read", "asleep", "end"}
  /\ changes \in 0..MaxChanges
  /\ monitorSock.msgs \in Seq(1..changes) /\ Len(monitorSock.msgs) <= QueueMax
  /\ {monitorSock.error, monitorSock.congested} \subseteq BOOLEAN
  /\ shown \in Seq(1..changes)
  /\ failures \in 0..MaxChanges

Increasing(s) == \A i, j \in DOMAIN s : i < j => s[i] < s[j]

\* After which of the changes in s, of changes up to n, some are missing.
Gaps(s, n) == {i \in DOMAIN s : s[i] + 1 < IF i = Len(s) THEN n + 1 ELSE s[i + 1]}

\* The monitor shows the changes in their order and none twice, and for every
\* gap among those it has shown or has in its queue it prints, or is about to
\* print, that reading failed.
MonitorTold ==
  LET known == shown \o monitorSock.msgs
  IN  /\ Increasing(known)
      /\ Cardinality(Gaps(known, changes)) <= failures + (IF monitorSock.error THEN 1 ELSE 0)
=============================================================================
