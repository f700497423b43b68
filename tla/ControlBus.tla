----------------------------- MODULE ControlBus -----------------------------
(***************************************************************************)
(* The control plane between the arbiter and the board nodes               *)
(* (sim-cluster/src/control.rs, sim-cluster/src/ipc/control_bus.rs).       *)
(*                                                                         *)
(* a2n: the arbiter broadcasts; every node has its own subscriber queue.   *)
(* n2a: every node publishes; the arbiter's subscriber holds one queue per *)
(* publisher, so messages of one board stay in order and messages of two   *)
(* boards have no order.  Both services are created with safe overflow: a  *)
(* full queue drops its oldest message and the publisher never learns.     *)
(***************************************************************************)
EXTENDS Sequences, TimeCeiling

CONSTANTS A2nCap,   \* messages a node's a2n subscriber holds (32)
          N2aCap,   \* messages the arbiter holds per board
          StepSpan  \* most time a GDB step takes when the ceiling does not bound it

ASSUME BusAssumption ==
    A2nCap \in Nat \ {0} /\ N2aCap \in Nat \ {0} /\ StepSpan \in Nat

VARIABLES a2n,      \* a2n[b]: messages node b has not read yet
          n2a       \* n2a[b]: messages of node b the arbiter has not read yet

busVars == <<a2n, n2a>>

(* HostStopReason; the last two are only ever produced by the arbiter. *)
GuestStop == {"Breakpoint", "Unmapped"}
StopReason == GuestStop \cup {"Step", "ExternalStop", "Until"}
NoReason == "None"

(* ControlToNode.  ProbeWatch only replaces a probe filter and is left out. *)
StartupRecord == [type |-> "StartupRecord"]
Start(ns) == [type |-> "Start", allowed |-> ns]
Allowed(ns) == [type |-> "Allowed", allowed |-> ns]
ClusterStop(reason) == [type |-> "ClusterStop", reason |-> reason]
Reset == [type |-> "Reset"]
GdbStep(b) == [type |-> "GdbStep", board |-> b]

ControlToNode ==
    [type : {"StartupRecord", "Reset"}]
    \cup [type : {"Start", "Allowed"}, allowed : Nat]
    \cup [type : {"ClusterStop"}, reason : StopReason]
    \cup [type : {"GdbStep"}, board : Boards]

(* ControlToArbiter; the sender is the board whose queue holds the message. *)
Ready == [type |-> "Ready"]
TimeReport(ns) == [type |-> "TimeReport", at |-> ns]
HostStop(reason) == [type |-> "HostStop", reason |-> reason]

ControlToArbiter ==
    [type : {"Ready"}]
    \cup [type : {"TimeReport"}, at : Nat]
    \cup [type : {"HostStop"}, reason : StopReason]

BusTypeOK ==
    /\ a2n \in [Boards -> Seq(ControlToNode)]
    /\ n2a \in [Boards -> Seq(ControlToArbiter)]

\* What a subscriber that holds at most cap messages keeps of queue s.
KeepLast(s, cap) ==
    IF Len(s) <= cap THEN s ELSE SubSeq(s, Len(s) - cap + 1, Len(s))

\* The arbiter publishes msgs, in order, to every node.
Broadcast(msgs) ==
    a2n' = [b \in Boards |-> KeepLast(a2n[b] \o msgs, A2nCap)]

\* Node b publishes msgs, in order, to the arbiter.
Send(b, msgs) ==
    n2a' = [n2a EXCEPT ![b] = KeepLast(@ \o msgs, N2aCap)]
=============================================================================
