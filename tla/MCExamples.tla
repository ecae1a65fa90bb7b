----------------------------- MODULE MCExamples -----------------------------
(***************************************************************************)
(* The drivers with programs of their own and the netlink programs.  They  *)
(* share nothing, so in each behaviour one of them runs, the one that      *)
(* example names, and the others stay as they are before they are loaded.  *)
(***************************************************************************)
EXTENDS PollDriver, SignalDriver, SharedState, NetlinkEcho, RouteDump,
        NetMonitor, NetlinkMulticast

CONSTANTS c1, c2, n1, n2

\* One client in each of two namespaces.
MCNetOf == [c \in {c1, c2} |-> IF c = c1 THEN n1 ELSE n2]

VARIABLE example

drivers == <<pollVars, sigVars, sharedVars>>
netlink == <<echoVars, dumpVars, monitorVars, mcVars>>

Init == /\ example \in {"poll", "signal", "shared", "echo", "dump", "monitor", "multicast"}
        /\ PollInit /\ SignalInit /\ SharedInit
        /\ EchoInit /\ DumpInit /\ MonitorInit /\ McInit

Next ==
  /\ UNCHANGED example
  /\ \/ example = "poll"      /\ PollNext    /\ UNCHANGED <<sigVars, sharedVars, netlink>>
     \/ example = "signal"    /\ SignalNext  /\ UNCHANGED <<pollVars, sharedVars, netlink>>
     \/ example = "shared"    /\ SharedNext  /\ UNCHANGED <<pollVars, sigVars, netlink>>
     \/ example = "echo"      /\ EchoNext    /\ UNCHANGED <<drivers, dumpVars, monitorVars, mcVars>>
     \/ example = "dump"      /\ DumpNext    /\ UNCHANGED <<drivers, echoVars, monitorVars, mcVars>>
     \/ example = "monitor"   /\ MonitorNext /\ UNCHANGED <<drivers, echoVars, dumpVars, mcVars>>
     \/ example = "multicast" /\ McNext      /\ UNCHANGED <<drivers, echoVars, dumpVars, monitorVars>>

Spec == Init /\ [][Next]_<<example, drivers, netlink>>

FairSpec == Spec /\ PollFairness /\ EchoFairness /\ DumpFairness

-----------------------------------------------------------------------------
\* Every variable of every module stays in its range.
ExamplesTypeOK == /\ PollTypeOK /\ SignalTypeOK /\ SharedTypeOK
                  /\ EchoTypeOK /\ DumpTypeOK /\ MonitorTypeOK /\ McTypeOK

\* What can go wrong when a program asks the kernel over netlink, and that
\* nothing else does: EchoFaultsKnown of the drivers that answer a request,
\* DumpFaultsKnown of the routing table program.
RequestFaultsKnown == EchoFaultsKnown /\ DumpFaultsKnown

\* Who has asked the kernel over netlink comes to an end, but for the causes
\* that EchoIdle and DumpIdle name: EchoEnds and DumpEnds in one, since the
\* programs of the examples that do not run are idle.
RequestEnds == []<>(EchoIdle /\ DumpIdle)

\* Members of a netlink group hear of each message once, and a full queue is
\* not passed over: ListenersTold of the multicast programs, MonitorTold of
\* the network monitor.
GroupTold == ListenersTold /\ MonitorTold
=============================================================================
