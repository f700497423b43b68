--------------------------- MODULE ClusterProofs ---------------------------
(***************************************************************************)
(* Cluster, for every set of boards, margin, threshold, queue capacity and *)
(* bound: type correctness with the facts about queues and ceilings it     *)
(* rests on, then virtual-time synchronisation, the Ready barrier and the  *)
(* phases of a GDB step (ClusterInv is inductive), the refinement of       *)
(* ConservativeSync, the agreement of the arbiter and its nodes while      *)
(* queues keep up, and the order of the times shown without Resets.  Then  *)
(* the cluster with its data planes: it is the cluster, so all this holds  *)
(* for it, and what clocks and ceilings promise a guest that talks to      *)
(* another board is kept.                                                  *)
(***************************************************************************)
EXTENDS WiredCluster, SequenceTheorems, WellFoundedInduction, TLAPS

\* A nonempty set of naturals has a least element: the minimum of the reports is
\* one of them (`virtual_time_ns`).
LEMMA NatHasMin ==
    ASSUME NEW S \in SUBSET Nat, S # {}
    PROVE  \E x \in S : \A y \in S : x <= y
<1>1. IsWellFoundedOn(OpToRel(<, Nat), Nat)
  BY NatLessThanWellFounded
<1>2. PICK x \in S : \A y \in S : ~ (<<y, x>> \in OpToRel(<, Nat))
  BY <1>1, WFMin
<1>3. \A y \in S : ~ (y < x)
  BY <1>2 DEF OpToRel
<1> QED BY <1>3

\* `virtual_time_ns` is a lower bound of the reports and is one of them.
LEMMA VirtualTimeIsMin ==
    ASSUME NEW times \in Reports
    PROVE  /\ VirtualTime(times) \in Nat
           /\ \A b \in Boards : VirtualTime(times) <= times[b]
           /\ \E b \in Boards : VirtualTime(times) = times[b]
<1> DEFINE S == {times[b] : b \in Boards}
<1>1. S \in SUBSET Nat /\ S # {}
  BY BoardsAssumption DEF Reports
<1>2. \E x \in S : \A y \in S : x <= y
  BY <1>1, NatHasMin
<1>3. VirtualTime(times) \in S /\ \A y \in S : VirtualTime(times) <= y
  BY <1>2 DEF VirtualTime, Min
<1> QED BY <1>1, <1>3

-----------------------------------------------------------------------------
(* Queues. *)

\* The last of some positions of a queue is one of them: reading a drained
\* queue for its last report or stop finds a message that is there.
LEMMA MaxOfPositions ==
    ASSUME NEW n \in Nat, NEW S \in SUBSET (1..n), S # {}
    PROVE  Max(S) \in S
<1> DEFINE T == {n - i : i \in S}
<1>1. T \in SUBSET Nat /\ T # {}
  <2>1. \A i \in S : n - i \in Nat
    OBVIOUS
  <2>2. T \in SUBSET Nat
    BY <2>1
  <2>3. PICK i \in S : TRUE
    OBVIOUS
  <2>4. n - i \in T
    OBVIOUS
  <2> QED BY <2>2, <2>4
<1>2. PICK x \in T : \A y \in T : x <= y
  BY <1>1, NatHasMin
<1>3. PICK i \in S : x = n - i
  BY <1>2
<1>4. \A j \in S : i >= j
  <2>1. SUFFICES ASSUME NEW j \in S PROVE i >= j
    OBVIOUS
  <2>2. n - j \in T
    OBVIOUS
  <2> QED BY <1>2, <1>3, <2>2
<1> QED BY <1>4 DEF Max

\* A queue that overflows holds nothing that was not sent (safe overflow).
LEMMA KeepLastInSeq ==
    ASSUME NEW M, NEW s \in Seq(M), NEW cap \in Nat
    PROVE  KeepLast(s, cap) \in Seq(M)
<1>1. CASE Len(s) <= cap
  BY <1>1 DEF KeepLast
<1>2. CASE ~ Len(s) <= cap
  <2>1. \A i \in (Len(s) - cap + 1)..Len(s) : s[i] \in M
    BY <1>2
  <2>2. SubSeq(s, Len(s) - cap + 1, Len(s)) \in Seq(M)
    BY <2>1, SubSeqProperties
  <2> QED BY <1>2, <2>2 DEF KeepLast
<1> QED BY <1>1, <1>2

\* What every queue holds after a broadcast.
LEMMA BroadcastKeeps ==
    ASSUME NEW M, NEW msgs \in Seq(M), Broadcast(msgs),
           \A b \in Boards : a2n[b] \in Seq(M)
    PROVE  a2n' \in [Boards -> Seq(M)]
<1>1. \A b \in Boards : KeepLast(a2n[b] \o msgs, A2nCap) \in Seq(M)
  BY KeepLastInSeq, ConcatProperties, BusAssumption DEF BusAssumption
<1> QED BY <1>1 DEF Broadcast

\* What the queues hold after board b has published.
LEMMA SendKeeps ==
    ASSUME NEW M, NEW b \in Boards, NEW msgs \in Seq(M), Send(b, msgs),
           n2a \in [Boards -> Seq(ControlToArbiter)], n2a[b] \in Seq(M)
    PROVE  /\ n2a' = [n2a EXCEPT ![b] = n2a'[b]]
           /\ n2a'[b] \in Seq(M)
<1>1. KeepLast(n2a[b] \o msgs, N2aCap) \in Seq(M)
  BY KeepLastInSeq, ConcatProperties, BusAssumption DEF BusAssumption
<1> QED BY <1>1 DEF Send

\* The report a pass keeps of a queue is a TimeReport of that queue.
LEMMA LastTimeRead ==
    ASSUME NEW q \in Seq(ControlToArbiter), TimesIn(q) # {}
    PROVE  LET i == Max(TimesIn(q))
           IN  i \in 1..Len(q) /\ q[i].type = "TimeReport" /\ q[i].at \in Nat
<1>1. TimesIn(q) \in SUBSET (1..Len(q)) /\ Len(q) \in Nat
  BY DEF TimesIn
<1>2. PICK i \in TimesIn(q) : i = Max(TimesIn(q))
  BY <1>1, MaxOfPositions
<1>3. i \in 1..Len(q) /\ q[i].type = "TimeReport" /\ q[i] \in ControlToArbiter
  BY <1>1 DEF TimesIn
<1>4. q[i].at \in Nat
  BY <1>3 DEF ControlToArbiter
<1> QED BY <1>2, <1>3, <1>4

\* The stop reason a pass keeps of a queue is one a board may send.
LEMMA LastStopRead ==
    ASSUME NEW q \in Seq(ControlToArbiter), StopsIn(q) # {}
    PROVE  LastStop(q) \in StopReason
<1>1. StopsIn(q) \in SUBSET (1..Len(q)) /\ Len(q) \in Nat
  BY DEF StopsIn
<1>2. PICK i \in StopsIn(q) : i = Max(StopsIn(q))
  BY <1>1, MaxOfPositions
<1>3. q[i].type = "HostStop" /\ q[i] \in ControlToArbiter
  BY <1>1 DEF StopsIn
<1>4. q[i].reason \in StopReason
  BY <1>3 DEF ControlToArbiter
<1> QED BY <1>2, <1>4 DEF LastStop

-----------------------------------------------------------------------------
(* The ceiling. *)

\* `allowed_ns` and `allowed_ns_until` never exceed any report by more than the
\* margin.
LEMMA AllowedWithinMargin ==
    ASSUME NEW r \in Reports, NEW until \in Nat \cup {NoLimit}
    PROVE  /\ AllowedNs(r) \in Nat /\ AllowedNsUntil(r, until) \in Nat
           /\ \A b \in Boards : /\ AllowedNs(r) <= r[b] + Margin
                                /\ AllowedNsUntil(r, until) <= r[b] + Margin
<1>1. /\ VirtualTime(r) \in Nat
      /\ \A b \in Boards : VirtualTime(r) <= r[b] /\ r[b] \in Nat
  BY VirtualTimeIsMin DEF Reports
<1>2. AllowedNs(r) \in Nat /\ \A b \in Boards : AllowedNs(r) <= r[b] + Margin
  BY <1>1, MarginAssumption DEF AllowedNs, MarginAssumption
<1>3. /\ AllowedNsUntil(r, until) \in Nat
      /\ AllowedNsUntil(r, until) <= AllowedNs(r)
  BY <1>2 DEF AllowedNsUntil, NoLimit
<1> QED
  <2>1. SUFFICES ASSUME NEW b \in Boards PROVE AllowedNsUntil(r, until) <= r[b] + Margin
    BY <1>2, <1>3
  <2> QED BY <2>1, <1>1, <1>2, <1>3, MarginAssumption DEF MarginAssumption

\* What a pass makes of the queues are reports again.
LEMMA ReportsAfterType ==
    ASSUME BusTypeOK, reports \in Reports
    PROVE  ReportsAfter \in Reports
<1>1. \A b \in Boards : n2a[b] \in Seq(ControlToArbiter)
  BY DEF BusTypeOK
<1>2. \A b \in Boards : TimesIn(n2a[b]) # {} => n2a[b][Max(TimesIn(n2a[b]))].at \in Nat
  BY <1>1, LastTimeRead
<1> QED BY <1>2 DEF ReportsAfter, Reports

\* The reports after a Reset are reports.
LEMMA ResetReportsType ==
    ASSUME reports \in Reports, allowed \in Nat
    PROVE  ResetReports \in Reports
<1>1. VirtualTime(reports) \in Nat
  BY VirtualTimeIsMin
<1> QED BY <1>1 DEF ResetReports, AdvanceTo, Reports

-----------------------------------------------------------------------------
(* Type correctness. *)

\* Every message the code publishes is a control message.
LEMMA MessageTypes ==
    /\ StartupRecord \in ControlToNode /\ Reset \in ControlToNode
    /\ \A ns \in Nat : Start(ns) \in ControlToNode /\ Allowed(ns) \in ControlToNode
    /\ \A r \in StopReason : ClusterStop(r) \in ControlToNode
    /\ \A b \in Boards : GdbStep(b) \in ControlToNode
    /\ Ready \in ControlToArbiter
    /\ \A ns \in Nat : TimeReport(ns) \in ControlToArbiter
    /\ \A r \in StopReason : HostStop(r) \in ControlToArbiter
BY DEF ControlToNode, ControlToArbiter, StartupRecord, Start, Allowed, ClusterStop,
       Reset, GdbStep, Ready, TimeReport, HostStop

\* The reasons the arbiter and a GDB step give are stop reasons.
LEMMA ReasonTypes ==
    "ExternalStop" \in StopReason /\ "Until" \in StopReason /\ "Step" \in StopReason
    /\ GuestStop \subseteq StopReason
BY DEF StopReason, GuestStop

\* What on_start_broadcast and broadcast_cluster_stop make of the peers.
LEMMA PeerTypes ==
    /\ StoppedPeers \in [Boards -> PeerState]
    /\ peers \in [Boards -> PeerState] => StartedPeers \in [Boards -> PeerState]
BY DEF StoppedPeers, StartedPeers, PeerState

\* The arbiter sends control messages only, so every queue stays one of them.
LEMMA BroadcastTyped ==
    ASSUME TypeOK, NEW msgs \in Seq(ControlToNode), Broadcast(msgs), UNCHANGED n2a
    PROVE  BusTypeOK'
<1>1. a2n' \in [Boards -> Seq(ControlToNode)]
  BY BroadcastKeeps DEF TypeOK, BusTypeOK
<1> QED BY <1>1 DEF TypeOK, BusTypeOK

\* apply_start, Stop, Reset and apply_gdb_step keep the types.
LEMMA HostCommandTypes ==
    ASSUME TypeOK, HostCommand, UNCHANGED nodeVars
    PROVE  TypeOK'
<1>1. NodeTypeOK'
  BY DEF TypeOK, NodeTypeOK, nodeVars
<1>2. ASSUME NEW until \in UntilTimes \cup {NoLimit}, HostStartBehind(until)
      PROVE  BusTypeOK' /\ ArbiterTypeOK'
  <2>1. BusTypeOK'
    <3>1. CASE running
      <4>1. <<ClusterStop("Until")>> \in Seq(ControlToNode)
        BY MessageTypes, ReasonTypes
      <4> QED BY <1>2, <3>1, <4>1, BroadcastTyped DEF HostStartBehind, TakeCommand
    <3>2. CASE ~ running
      BY <1>2, <3>2 DEF HostStartBehind, TakeCommand, TypeOK, BusTypeOK
    <3> QED BY <3>1, <3>2
  <2>2. ArbiterTypeOK'
    <3>1. peers' \in [Boards -> PeerState]
      BY <1>2, PeerTypes DEF HostStartBehind, TypeOK, ArbiterTypeOK
    <3>2. stopReason' \in StopReason \cup {NoReason}
      BY <1>2, ReasonTypes DEF HostStartBehind, TypeOK, ArbiterTypeOK
    <3>3. gdb' \in GdbStepPhase
      BY <1>2 DEF HostStartBehind, GdbStepPhase
    <3>4. running' \in BOOLEAN /\ untilCap' \in Nat \cup {NoLimit}
      BY <1>2 DEF HostStartBehind, TypeOK, ArbiterTypeOK
    <3>5. commands' \in Nat
      BY <1>2 DEF HostStartBehind, TakeCommand, TypeOK, ArbiterTypeOK
    <3>6. UNCHANGED <<stage, reports, allowed, status, startups, resetSlack>>
      BY <1>2 DEF HostStartBehind, TakeCommand
    <3> QED BY <3>1, <3>2, <3>3, <3>4, <3>5, <3>6 DEF TypeOK, ArbiterTypeOK
  <2> QED BY <2>1, <2>2
<1>3. ASSUME NEW until \in UntilTimes \cup {NoLimit}, HostStart(until)
      PROVE  BusTypeOK' /\ ArbiterTypeOK'
  <2>1. until \in Nat \cup {NoLimit}
    BY ArbiterAssumption DEF ArbiterAssumption
  <2>2. AllowedNsUntil(reports, until) \in Nat
    BY <2>1, AllowedWithinMargin DEF TypeOK, ArbiterTypeOK
  <2>3. allowed' \in Nat /\ Broadcast(<<Start(allowed')>>) /\ UNCHANGED n2a
    BY <1>3, <2>2 DEF HostStart, TakeCommand
  <2>4. <<Start(allowed')>> \in Seq(ControlToNode)
    BY <2>3, MessageTypes
  <2>5. BusTypeOK'
    BY <2>3, <2>4, BroadcastTyped
  <2>6. ArbiterTypeOK'
    BY <1>3, <2>1, <2>3, PeerTypes DEF HostStart, TakeCommand, TypeOK, ArbiterTypeOK,
       GdbStepPhase
  <2> QED BY <2>5, <2>6
<1>4. ASSUME HostStopCluster
      PROVE  BusTypeOK' /\ ArbiterTypeOK'
  <2>1. <<ClusterStop("ExternalStop")>> \in Seq(ControlToNode)
    BY MessageTypes, ReasonTypes
  <2>2. BusTypeOK'
    BY <1>4, <2>1, BroadcastTyped DEF HostStopCluster, TakeCommand
  <2>3. ArbiterTypeOK'
    <3>1. peers' \in [Boards -> PeerState]
      BY <1>4, PeerTypes DEF HostStopCluster
    <3>2. stopReason' \in StopReason \cup {NoReason}
      BY <1>4, ReasonTypes DEF HostStopCluster
    <3>3. gdb' \in GdbStepPhase
      BY <1>4 DEF HostStopCluster, GdbStepPhase
    <3>4. running' \in BOOLEAN /\ untilCap' \in Nat \cup {NoLimit}
      BY <1>4 DEF HostStopCluster, TypeOK, ArbiterTypeOK
    <3>5. commands' \in Nat
      BY <1>4 DEF HostStopCluster, TakeCommand, TypeOK, ArbiterTypeOK
    <3>6. UNCHANGED <<stage, reports, allowed, status, startups, resetSlack>>
      BY <1>4 DEF HostStopCluster, TakeCommand
    <3> QED BY <3>1, <3>2, <3>3, <3>4, <3>5, <3>6 DEF TypeOK, ArbiterTypeOK
  <2> QED BY <2>2, <2>3
<1>5. ASSUME HostReset
      PROVE  BusTypeOK' /\ ArbiterTypeOK'
  <2>1. reports' \in Reports
    BY <1>5, ResetReportsType DEF HostReset, TypeOK, ArbiterTypeOK
  <2>2. allowed' \in Nat
    <3>1. allowed' = AllowedNs(reports')
      BY <1>5 DEF HostReset
    <3>2. NoLimit \in Nat \cup {NoLimit}
      OBVIOUS
    <3> QED BY <2>1, <3>1, <3>2, AllowedWithinMargin
  <2>3. <<ClusterStop("ExternalStop"), Reset, Start(allowed')>> \in Seq(ControlToNode)
    BY <2>2, MessageTypes, ReasonTypes
  <2>4. BusTypeOK'
    BY <1>5, <2>3, BroadcastTyped DEF HostReset, TakeCommand
  <2>5. ArbiterTypeOK'
    BY <1>5, <2>1, <2>2, MarginAssumption
       DEF HostReset, TakeCommand, TypeOK, ArbiterTypeOK, PeerState, GdbStepPhase,
           MarginAssumption
  <2> QED BY <2>4, <2>5
<1>6. ASSUME NEW b \in Boards, HostStep(b)
      PROVE  BusTypeOK' /\ ArbiterTypeOK'
  <2>1. /\ <<ClusterStop("ExternalStop"), GdbStep(b)>> \in Seq(ControlToNode)
        /\ <<GdbStep(b)>> \in Seq(ControlToNode)
    BY MessageTypes, ReasonTypes
  <2>2. BusTypeOK'
    BY <1>6, <2>1, BroadcastTyped DEF HostStep, TakeCommand
  <2>3. ArbiterTypeOK'
    <3>1. peers' \in [Boards -> PeerState]
      BY <1>6, PeerTypes DEF HostStep, TypeOK, ArbiterTypeOK
    <3>2. stopReason' \in StopReason \cup {NoReason}
      BY <1>6, ReasonTypes DEF HostStep, TypeOK, ArbiterTypeOK
    <3>3. gdb' \in GdbStepPhase
      BY <1>6 DEF HostStep, GdbStepPhase
    <3>4. running' \in BOOLEAN /\ untilCap' \in Nat \cup {NoLimit}
      BY <1>6 DEF HostStep, TypeOK, ArbiterTypeOK
    <3>5. commands' \in Nat
      BY <1>6 DEF HostStep, TakeCommand, TypeOK, ArbiterTypeOK
    <3>6. UNCHANGED <<stage, reports, allowed, status, startups, resetSlack>>
      BY <1>6 DEF HostStep, TakeCommand
    <3> QED BY <3>1, <3>2, <3>3, <3>4, <3>5, <3>6 DEF TypeOK, ArbiterTypeOK
  <2> QED BY <2>2, <2>3
<1> QED BY <1>1, <1>2, <1>3, <1>4, <1>5, <1>6 DEF HostCommand, TypeOK

\* The Ready barrier keeps the types.
LEMMA BarrierTypes ==
    ASSUME TypeOK, RepublishStartup \/ AwaitReady, UNCHANGED nodeVars
    PROVE  TypeOK'
<1>1. NodeTypeOK'
  BY DEF TypeOK, NodeTypeOK, nodeVars
<1>2. CASE RepublishStartup
  <2>1. <<StartupRecord>> \in Seq(ControlToNode)
    BY MessageTypes
  <2>2. BusTypeOK'
    BY <1>2, <2>1, BroadcastTyped DEF RepublishStartup
  <2>3. ArbiterTypeOK'
    BY <1>2 DEF RepublishStartup, TypeOK, ArbiterTypeOK
  <2> QED BY <1>1, <2>2, <2>3 DEF TypeOK
<1>3. CASE AwaitReady
  <2>1. BusTypeOK'
    BY <1>3 DEF AwaitReady, Drained, TypeOK, BusTypeOK
  <2>2. peers' \in [Boards -> PeerState]
    BY <1>3 DEF AwaitReady, TypeOK, ArbiterTypeOK, PeerState
  <2>3. stage' \in {"await", "session", "failed", "exited"}
    BY <1>3 DEF AwaitReady, TypeOK, ArbiterTypeOK
  <2>4. ArbiterTypeOK'
    BY <1>3, <2>2, <2>3 DEF AwaitReady, TypeOK, ArbiterTypeOK
  <2> QED BY <1>1, <2>1, <2>4 DEF TypeOK
<1> QED BY <1>2, <1>3

\* write_status publishes a status.
LEMMA StatusType ==
    ASSUME reports' \in Reports, running' \in BOOLEAN,
           stopReason' \in StopReason \cup {NoReason}, WriteStatus
    PROVE  status' \in Status
<1>1. VirtualTime(reports') \in Nat
  BY VirtualTimeIsMin
<1>2. (IF running' THEN NoReason ELSE stopReason') \in StopReason \cup {NoReason}
  OBVIOUS
<1> QED BY <1>1, <1>2 DEF WriteStatus, Status

\* Stopping the cluster for a stop reason keeps the arbiter's types.
LEMMA StopClusterTypes ==
    ASSUME NEW reason \in StopReason, StopCluster(reason)
    PROVE  /\ peers' \in [Boards -> PeerState] /\ untilCap' \in Nat \cup {NoLimit}
           /\ running' \in BOOLEAN /\ gdb' \in GdbStepPhase
           /\ stopReason' \in StopReason \cup {NoReason}
<1>1. peers' \in [Boards -> PeerState]
  BY PeerTypes DEF StopCluster
<1>2. gdb' \in GdbStepPhase
  BY DEF StopCluster, GdbStepPhase
<1>3. running' \in BOOLEAN /\ untilCap' \in Nat \cup {NoLimit}
  BY DEF StopCluster
<1>4. stopReason' \in StopReason \cup {NoReason}
  BY DEF StopCluster
<1> QED BY <1>1, <1>2, <1>3, <1>4

\* The ceiling a pass computes, and the message it publishes it in.
LEMMA NewAllowedType ==
    ASSUME TypeOK
    PROVE  NewAllowed \in Nat /\ AllowedMsg \in Seq(ControlToNode)
<1>1. ReportsAfter \in Reports
  BY ReportsAfterType DEF TypeOK, ArbiterTypeOK
<1>2. AllowedNsUntil(ReportsAfter, untilCap) \in Nat
  BY <1>1, AllowedWithinMargin DEF TypeOK, ArbiterTypeOK
<1>3. NewAllowed \in Nat
  BY <1>2 DEF NewAllowed, TypeOK, ArbiterTypeOK
<1>4. Allowed(NewAllowed) \in ControlToNode
  BY <1>3, MessageTypes
<1> QED BY <1>3, <1>4 DEF AllowedMsg

\* The reason of a run that reaches its cap: that of the GDB step being caught up
\* with, or Until.
LEMMA EndReasonType ==
    ASSUME TypeOK
    PROVE  (IF gdb.phase = "CatchUp" THEN gdb.reason ELSE "Until") \in StopReason
<1>1. ASSUME gdb.phase = "CatchUp" PROVE gdb.reason \in StopReason
  <2>1. \E r \in StopReason : gdb = CatchUp(r)
    BY <1>1 DEF TypeOK, ArbiterTypeOK, GdbStepPhase, NoStep, WaitInsn
  <2> QED BY <2>1 DEF CatchUp
<1> QED BY <1>1, ReasonTypes

\* step_time_sync keeps the types.
LEMMA StepTimeSyncTypes ==
    ASSUME TypeOK, StepTimeSync, UNCHANGED nodeVars
    PROVE  TypeOK'
<1>1. NodeTypeOK'
  BY DEF TypeOK, NodeTypeOK, nodeVars
<1>2. /\ reports' = ReportsAfter /\ reports' \in Reports
      /\ n2a' \in [Boards -> Seq(ControlToArbiter)]
      /\ UNCHANGED <<stage, startups, commands, resetSlack>>
  <2>1. Sync
    BY DEF StepTimeSync, SyncHostStop, SyncInsnDone, SyncTime, SyncUntil
  <2>2. ReportsAfter \in Reports
    BY ReportsAfterType DEF TypeOK, ArbiterTypeOK
  <2> QED BY <2>1, <2>2 DEF Sync, Drained
<1>3. WriteStatus
  BY DEF StepTimeSync, SyncHostStop, SyncInsnDone, SyncTime, SyncUntil
<1>4. SUFFICES /\ a2n' \in [Boards -> Seq(ControlToNode)]
               /\ peers' \in [Boards -> PeerState] /\ untilCap' \in Nat \cup {NoLimit}
               /\ running' \in BOOLEAN /\ gdb' \in GdbStepPhase /\ allowed' \in Nat
               /\ stopReason' \in StopReason \cup {NoReason}
  <2>1. status' \in Status
    BY <1>2, <1>3, <1>4, StatusType
  <2>2. BusTypeOK' /\ ArbiterTypeOK'
    BY <1>2, <1>4, <2>1 DEF TypeOK, BusTypeOK, ArbiterTypeOK
  <2> QED BY <1>1, <2>2 DEF TypeOK
<1>5. \A b \in Boards : n2a[b] \in Seq(ControlToArbiter) /\ a2n[b] \in Seq(ControlToNode)
  BY DEF TypeOK, BusTypeOK
<1>6. CASE SyncHostStop
  <2>1. PICK b \in Stoppers : /\ StopCluster(LastStop(n2a[b]))
                              /\ Broadcast(<<ClusterStop(LastStop(n2a[b]))>>)
    BY <1>6 DEF SyncHostStop
  <2>2. LastStop(n2a[b]) \in StopReason
    BY <1>5, LastStopRead DEF Stoppers
  <2>3. <<ClusterStop(LastStop(n2a[b]))>> \in Seq(ControlToNode)
    BY <2>2, MessageTypes
  <2>4. a2n' \in [Boards -> Seq(ControlToNode)]
    BY <1>5, <2>1, <2>3, BroadcastKeeps
  <2>5. allowed' \in Nat
    BY <1>6 DEF SyncHostStop, TypeOK, ArbiterTypeOK
  <2> QED BY <2>1, <2>2, <2>4, <2>5, StopClusterTypes
<1>7. CASE SyncInsnDone
  <2>1. PICK b \in Boards :
          /\ InsnDone(b) /\ untilCap' = ReportsAfter[b]
          /\ allowed' = AllowedNsUntil(ReportsAfter, ReportsAfter[b])
          /\ Broadcast(<<Start(allowed')>>)
          /\ gdb' = CatchUp(LastStop(n2a[b]))
    BY <1>7 DEF SyncInsnDone
  <2>2. ReportsAfter[b] \in Nat
    BY <1>2 DEF Reports
  <2>3. allowed' \in Nat
    BY <1>2, <2>1, <2>2, AllowedWithinMargin
  <2>4. <<Start(allowed')>> \in Seq(ControlToNode)
    BY <2>3, MessageTypes
  <2>5. a2n' \in [Boards -> Seq(ControlToNode)]
    BY <1>5, <2>1, <2>4, BroadcastKeeps
  <2>6. gdb' \in GdbStepPhase
    BY <1>5, <2>1, LastStopRead DEF InsnDone, GdbStepPhase
  <2>7. peers' \in [Boards -> PeerState]
    BY <1>7, PeerTypes DEF SyncInsnDone, TypeOK, ArbiterTypeOK
  <2>8. running' \in BOOLEAN /\ stopReason' \in StopReason \cup {NoReason}
    BY <1>7 DEF SyncInsnDone
  <2> QED BY <2>1, <2>2, <2>3, <2>5, <2>6, <2>7, <2>8
<1>8. CASE SyncTime
  <2>1. a2n' \in [Boards -> Seq(ControlToNode)] /\ allowed' \in Nat
    BY <1>5, <1>8, NewAllowedType, BroadcastKeeps DEF SyncTime
  <2>2. UNCHANGED <<peers, running, untilCap, gdb, stopReason>>
    BY <1>8 DEF SyncTime
  <2> QED BY <2>1, <2>2 DEF TypeOK, ArbiterTypeOK
<1>9. CASE SyncUntil
  <2> DEFINE reason == IF gdb.phase = "CatchUp" THEN gdb.reason ELSE "Until"
  <2>1. StopCluster(reason) /\ Broadcast(AllowedMsg \o <<ClusterStop(reason)>>)
    BY <1>9 DEF SyncUntil
  <2>2. reason \in StopReason
    BY EndReasonType
  <2>3. AllowedMsg \o <<ClusterStop(reason)>> \in Seq(ControlToNode)
    <3>1. <<ClusterStop(reason)>> \in Seq(ControlToNode)
      BY <2>2, MessageTypes
    <3> QED BY <3>1, NewAllowedType, ConcatProperties
  <2>4. a2n' \in [Boards -> Seq(ControlToNode)]
    BY <1>5, <2>1, <2>3, BroadcastKeeps
  <2>5. allowed' \in Nat
    BY <1>9, NewAllowedType DEF SyncUntil
  <2> QED BY <2>1, <2>2, <2>4, <2>5, StopClusterTypes
<1> QED BY <1>6, <1>7, <1>8, <1>9 DEF StepTimeSync

\* A node publishes control messages only.
LEMMA SendTyped ==
    ASSUME TypeOK, NEW b \in Boards, NEW msgs \in Seq(ControlToArbiter), Send(b, msgs)
    PROVE  n2a' \in [Boards -> Seq(ControlToArbiter)]
<1>1. n2a \in [Boards -> Seq(ControlToArbiter)] /\ n2a[b] \in Seq(ControlToArbiter)
  BY DEF TypeOK, BusTypeOK
<1>2. n2a' = [n2a EXCEPT ![b] = n2a'[b]] /\ n2a'[b] \in Seq(ControlToArbiter)
  BY <1>1, SendKeeps
<1> QED BY <1>1, <1>2

\* Reading a control message leaves a queue of control messages, and the message
\* is one.
LEMMA ReceiveTyped ==
    ASSUME TypeOK, NEW b \in Boards, NEW type, Receive(b, type)
    PROVE  /\ a2n' \in [Boards -> Seq(ControlToNode)]
           /\ Head(a2n[b]) \in ControlToNode /\ Head(a2n[b]).type = type
           /\ alive' \in [Boards -> BOOLEAN]
<1>1. a2n \in [Boards -> Seq(ControlToNode)] /\ a2n[b] # <<>> /\ a2n' = [a2n EXCEPT ![b] = Tail(@)]
  BY DEF TypeOK, BusTypeOK, Receive
<1>2. Tail(a2n[b]) \in Seq(ControlToNode) /\ Head(a2n[b]) \in ControlToNode
  BY <1>1
<1> QED BY <1>1, <1>2 DEF TypeOK, NodeTypeOK, Receive

\* NodeState::on_message and its effects keep the types.
LEMMA ReceiveMessageTypes ==
    ASSUME TypeOK, NEW b \in Boards, ReceiveMessage(b), UNCHANGED arbiterVars
    PROVE  TypeOK'
<1>1. ArbiterTypeOK'
  BY DEF TypeOK, ArbiterTypeOK, arbiterVars
<1>2. /\ a2n' \in [Boards -> Seq(ControlToNode)] /\ Head(a2n[b]) \in ControlToNode
      /\ alive' \in [Boards -> BOOLEAN]
  <2>1. \E type : Receive(b, type)
    BY DEF ReceiveMessage, ReceiveStartup, ReceiveStart, ReceiveAllowed, ReceiveClusterStop,
       ReceiveReset, IgnoreGdbStep, PerformStep, FailStep, TakesGdbStep
  <2> QED BY <2>1, ReceiveTyped
<1>3. SUFFICES /\ n2a' \in [Boards -> Seq(ControlToArbiter)]
               /\ nodeState' \in [Boards -> NodeState]
               /\ sim' \in [Boards -> {"Stopped", "Running"}]
               /\ now' \in [Boards -> Nat]
               /\ ceiling' \in [Boards -> Nat \cup {NoLimit}]
               /\ lastReport' \in [Boards -> Nat \cup {NoLimit}]
               /\ stepSlack' \in Nat /\ faults' \in Nat
  BY <1>1, <1>2, <1>3 DEF TypeOK, BusTypeOK, NodeTypeOK
<1>4. /\ n2a \in [Boards -> Seq(ControlToArbiter)]
      /\ nodeState \in [Boards -> NodeState]
      /\ sim \in [Boards -> {"Stopped", "Running"}]
      /\ now \in [Boards -> Nat]
      /\ ceiling \in [Boards -> Nat \cup {NoLimit}]
      /\ lastReport \in [Boards -> Nat \cup {NoLimit}]
      /\ stepSlack \in Nat /\ faults \in Nat
  BY DEF TypeOK, BusTypeOK, NodeTypeOK
<1>5. \A s \in NodeState : EnterState(b, s) => nodeState' \in [Boards -> NodeState]
  BY <1>4 DEF EnterState
<1>6. "Stopped" \in NodeState /\ "Running" \in NodeState
  BY DEF NodeState
<1>7. CASE ReceiveStartup(b)
  <2>1. n2a' \in [Boards -> Seq(ControlToArbiter)]
    <3>1. <<Ready>> \in Seq(ControlToArbiter)
      BY MessageTypes
    <3> QED BY <1>4, <1>7, <3>1, SendTyped DEF ReceiveStartup
  <2>2. nodeState' \in [Boards -> NodeState]
    BY <1>4, <1>5, <1>6, <1>7 DEF ReceiveStartup
  <2> QED BY <1>4, <1>7, <2>1, <2>2 DEF ReceiveStartup
<1>8. CASE ReceiveStart(b)
  <2>1. Head(a2n[b]).allowed \in Nat
    BY <1>2, <1>8, ReceiveTyped DEF ReceiveStart, ControlToNode
  <2>2. nodeState' \in [Boards -> NodeState]
    BY <1>4, <1>5, <1>6, <1>8 DEF ReceiveStart
  <2>3. ceiling' \in [Boards -> Nat \cup {NoLimit}]
    BY <1>4, <1>8, <2>1 DEF ReceiveStart
  <2>4. sim' \in [Boards -> {"Stopped", "Running"}]
    BY <1>4, <1>8 DEF ReceiveStart
  <2> QED BY <1>4, <1>8, <2>2, <2>3, <2>4 DEF ReceiveStart
<1>9. CASE ReceiveAllowed(b)
  <2>1. Head(a2n[b]).allowed \in Nat
    BY <1>2, <1>9, ReceiveTyped DEF ReceiveAllowed, ControlToNode
  <2>2. ceiling' \in [Boards -> Nat \cup {NoLimit}]
    BY <1>4, <1>9, <2>1 DEF ReceiveAllowed
  <2> QED BY <1>4, <1>9, <2>2 DEF ReceiveAllowed
<1>10. CASE ReceiveClusterStop(b)
  <2>1. nodeState' \in [Boards -> NodeState]
    BY <1>5, <1>6, <1>10 DEF ReceiveClusterStop
  <2>2. sim' \in [Boards -> {"Stopped", "Running"}]
    BY <1>4, <1>10 DEF ReceiveClusterStop
  <2> QED BY <1>4, <1>10, <2>1, <2>2 DEF ReceiveClusterStop
<1>11. CASE ReceiveReset(b)
  <2>1. lastReport' \in [Boards -> Nat \cup {NoLimit}]
    BY <1>4, <1>11 DEF ReceiveReset
  <2> QED BY <1>4, <1>11, <2>1 DEF ReceiveReset
<1>12. CASE IgnoreGdbStep(b)
  <2>1. nodeState' \in [Boards -> NodeState]
    BY <1>4, <1>5, <1>6, <1>12 DEF IgnoreGdbStep
  <2>2. sim' \in [Boards -> {"Stopped", "Running"}]
    BY <1>4, <1>12 DEF IgnoreGdbStep
  <2> QED BY <1>4, <1>12, <2>1, <2>2 DEF IgnoreGdbStep
<1>13. CASE PerformStep(b)
  <2>1. PICK t \in StepTargets(b), reason \in GuestStop \cup {"Step"} :
          /\ now' = [now EXCEPT ![b] = t]
          /\ lastReport' = [lastReport EXCEPT ![b] = t]
          /\ Send(b, <<TimeReport(t), HostStop(reason)>>)
          /\ stepSlack' = IF t <= ceiling[b] THEN stepSlack ELSE stepSlack + StepSpan
    BY <1>13 DEF PerformStep
  <2>2. t \in Nat
    BY <1>4, NodeAssumption DEF StepTargets, NodeAssumption
  <2>3. <<TimeReport(t), HostStop(reason)>> \in Seq(ControlToArbiter)
    BY <2>2, MessageTypes, ReasonTypes
  <2>4. n2a' \in [Boards -> Seq(ControlToArbiter)]
    BY <2>1, <2>3, SendTyped
  <2>5. nodeState' \in [Boards -> NodeState]
    BY <1>5, <1>6, <1>13 DEF PerformStep, TakesGdbStep
  <2>6. now' \in [Boards -> Nat] /\ lastReport' \in [Boards -> Nat \cup {NoLimit}]
    BY <1>4, <2>1, <2>2
  <2>7. stepSlack' \in Nat
    BY <1>4, <2>1, BusAssumption DEF BusAssumption
  <2>8. sim' \in [Boards -> {"Stopped", "Running"}]
    BY <1>4, <1>13 DEF PerformStep
  <2> QED BY <1>4, <1>13, <2>4, <2>5, <2>6, <2>7, <2>8 DEF PerformStep, TakesGdbStep
<1>14. CASE FailStep(b)
  <2>1. nodeState' \in [Boards -> NodeState]
    BY <1>5, <1>6, <1>14 DEF FailStep, TakesGdbStep
  <2>2. sim' \in [Boards -> {"Stopped", "Running"}]
    BY <1>4, <1>14 DEF FailStep
  <2>3. faults' \in Nat
    BY <1>4, <1>14 DEF FailStep
  <2> QED BY <1>4, <1>14, <2>1, <2>2, <2>3 DEF FailStep, TakesGdbStep
<1> QED BY <1>7, <1>8, <1>9, <1>10, <1>11, <1>12, <1>13, <1>14 DEF ReceiveMessage

\* maybe_time_report sends at most one report, of the time it is given.
LEMMA ReportMsgType ==
    ASSUME NEW b \in Boards, NEW t \in Nat
    PROVE  ReportMsg(b, t) \in {<<>>, <<TimeReport(t)>>}
BY DEF ReportMsg

\* A poll and the report that follows it keep the types.
LEMMA ReportAtTypes ==
    ASSUME TypeOK, NEW b \in Boards, NEW t \in Nat,
           NEW msgs \in Seq(ControlToArbiter), ReportAt(b, t, msgs)
    PROVE  /\ BusTypeOK' /\ now' \in [Boards -> Nat]
           /\ lastReport' \in [Boards -> Nat \cup {NoLimit}]
<1>1. ReportMsg(b, t) \in Seq(ControlToArbiter)
  <2>1. <<TimeReport(t)>> \in Seq(ControlToArbiter) /\ <<>> \in Seq(ControlToArbiter)
    BY MessageTypes
  <2> QED BY <2>1, ReportMsgType
<1>2. ReportMsg(b, t) \o msgs \in Seq(ControlToArbiter)
  BY <1>1, ConcatProperties
<1>3. n2a' \in [Boards -> Seq(ControlToArbiter)]
  BY <1>2, SendTyped DEF ReportAt
<1>4. BusTypeOK'
  BY <1>3 DEF ReportAt, TypeOK, BusTypeOK
<1>5. now' \in [Boards -> Nat] /\ lastReport' \in [Boards -> Nat \cup {NoLimit}]
  BY DEF ReportAt, TypeOK, NodeTypeOK
<1> QED BY <1>4, <1>5

\* Every step of a node keeps the types.
LEMMA NodeStepTypes ==
    ASSUME TypeOK, NEW b \in Boards, NodeStep(b), UNCHANGED arbiterVars
    PROVE  TypeOK'
<1>1. ArbiterTypeOK'
  BY DEF TypeOK, ArbiterTypeOK, arbiterVars
<1>2. CASE ReceiveMessage(b)
  BY <1>2, ReceiveMessageTypes
<1>3. \A t \in now[b]..Horizon : t \in Nat
  BY NodeAssumption DEF TypeOK, NodeTypeOK, NodeAssumption
<1>4. CASE Poll(b)
  <2>1. PICK t \in Nat : ReportAt(b, t, <<>>)
    BY <1>3, <1>4 DEF Poll
  <2>2. BusTypeOK' /\ now' \in [Boards -> Nat] /\ lastReport' \in [Boards -> Nat \cup {NoLimit}]
    BY <2>1, EmptySeq, ReportAtTypes
  <2> QED BY <1>1, <1>4, <2>1, <2>2 DEF Poll, ReportAt, TypeOK, NodeTypeOK
<1>5. CASE PollStop(b)
  <2>1. PICK t \in Nat, reason \in GuestStop : ReportAt(b, t, <<HostStop(reason)>>)
    BY <1>3, <1>5 DEF PollStop
  <2>2. <<HostStop(reason)>> \in Seq(ControlToArbiter)
    BY MessageTypes, ReasonTypes
  <2>3. BusTypeOK' /\ now' \in [Boards -> Nat] /\ lastReport' \in [Boards -> Nat \cup {NoLimit}]
    BY <2>1, <2>2, ReportAtTypes
  <2>4. sim' \in [Boards -> {"Stopped", "Running"}]
    BY <1>5 DEF PollStop, TypeOK, NodeTypeOK
  <2> QED BY <1>1, <2>1, <2>3, <2>4 DEF ReportAt, TypeOK, NodeTypeOK
<1>6. CASE PollError(b)
  <2>1. BusTypeOK'
    BY <1>6 DEF PollError, busVars, TypeOK, BusTypeOK
  <2>2. NodeTypeOK'
    BY <1>6 DEF PollError, TypeOK, NodeTypeOK
  <2> QED BY <1>1, <2>1, <2>2 DEF TypeOK
<1>7. CASE Die(b)
  <2>1. BusTypeOK'
    BY <1>7 DEF Die, busVars, TypeOK, BusTypeOK
  <2>2. alive' \in [Boards -> BOOLEAN]
    BY <1>7 DEF Die, TypeOK, NodeTypeOK
  <2>3. faults' \in Nat
    BY <1>7 DEF Die, TypeOK, NodeTypeOK
  <2>4. NodeTypeOK'
    BY <1>7, <2>2, <2>3 DEF Die, TypeOK, NodeTypeOK
  <2> QED BY <1>1, <2>1, <2>4 DEF TypeOK
<1> QED BY <1>2, <1>4, <1>5, <1>6, <1>7 DEF NodeStep

\* stop_children keeps the types.
LEMMA StopChildrenTypes ==
    ASSUME TypeOK, ReadyTimeout \/ HostShutdown
    PROVE  TypeOK'
<1>1. /\ stage' \in {"await", "session", "failed", "exited"}
      /\ alive' \in [Boards -> BOOLEAN]
      /\ UNCHANGED <<busVars, peers, reports, allowed, untilCap, running, gdb,
                     stopReason, status, startups, resetSlack, nodeState, sim, now,
                     ceiling, lastReport, stepSlack, faults>>
  BY DEF ReadyTimeout, HostShutdown, StopChildren
<1>2. commands' \in Nat
  BY DEF ReadyTimeout, HostShutdown, TypeOK, ArbiterTypeOK
<1>3. BusTypeOK'
  BY <1>1 DEF busVars, TypeOK, BusTypeOK
<1> QED BY <1>1, <1>2, <1>3 DEF TypeOK, ArbiterTypeOK, NodeTypeOK

\* The initial state is typed.
LEMMA InitTypes == Init => TypeOK
<1> SUFFICES ASSUME Init PROVE TypeOK
  OBVIOUS
<1>1. BusTypeOK
  <2>1. <<StartupRecord>> \in Seq(ControlToNode) /\ <<>> \in Seq(ControlToArbiter)
    BY MessageTypes
  <2> QED BY <2>1 DEF Init, BusTypeOK
<1>2. ArbiterTypeOK
  BY MarginAssumption DEF Init, ArbiterInit, ArbiterTypeOK, MarginAssumption, PeerState,
     Reports, GdbStepPhase, Status
<1>3. NodeTypeOK
  BY DEF Init, NodeInit, NodeTypeOK, NodeState
<1> QED BY <1>1, <1>2, <1>3 DEF TypeOK

\* Every step of every process, or of none, keeps the types.
LEMMA NextTypes == TypeOK /\ [Next]_vars => TypeOK'
<1> SUFFICES ASSUME TypeOK, [Next]_vars PROVE TypeOK'
  OBVIOUS
<1>1. CASE ArbiterStep
  BY <1>1, BarrierTypes, HostCommandTypes, StepTimeSyncTypes DEF ArbiterStep
<1>2. CASE ReadyTimeout \/ HostShutdown
  BY <1>2, StopChildrenTypes
<1>3. CASE \E b \in Boards : NodeStep(b) /\ UNCHANGED arbiterVars
  BY <1>3, NodeStepTypes
<1>4. CASE UNCHANGED vars
  BY <1>4 DEF vars, busVars, arbiterVars, nodeVars, TypeOK, BusTypeOK, ArbiterTypeOK,
     NodeTypeOK
<1> QED BY <1>1, <1>2, <1>3, <1>4 DEF Next

\* In every reachable state the queues hold control messages and every variable of
\* the arbiter and of the nodes has its Rust type; in particular no ceiling or
\* report is ever negative.
THEOREM TypeCorrect == Spec => []TypeOK
<1>1. Init => TypeOK
  BY InitTypes
<1>2. TypeOK /\ [Next]_vars => TypeOK'
  BY NextTypes
<1> QED BY <1>1, <1>2, PTL DEF Spec

-----------------------------------------------------------------------------
(* Clocks and slack only grow, so what was safe to send stays safe.        *)

\* No step of any process turns a clock back (Reset keeps it) or takes slack away.
LEMMA ClocksGrow ==
    ASSUME TypeOK, [Next]_vars
    PROVE  /\ \A b \in Boards : now[b] <= now'[b]
           /\ resetSlack <= resetSlack' /\ stepSlack <= stepSlack'
<1>0. /\ now \in [Boards -> Nat] /\ ceiling \in [Boards -> Nat \cup {NoLimit}]
      /\ resetSlack \in Nat /\ stepSlack \in Nat
  BY DEF TypeOK, ArbiterTypeOK, NodeTypeOK
<1>1. CASE ArbiterStep
  <2>1. UNCHANGED <<now, stepSlack>>
    BY <1>1 DEF ArbiterStep, nodeVars
  <2>2. resetSlack' = resetSlack \/ resetSlack' = resetSlack + Margin
    BY <1>1 DEF ArbiterStep, RepublishStartup, AwaitReady, HostCommand, HostStartBehind,
       HostStart, HostStopCluster, HostReset, HostStep, StepTimeSync, SyncHostStop,
       SyncInsnDone, SyncTime, SyncUntil, Sync
  <2> QED BY <1>0, <2>1, <2>2, MarginAssumption DEF MarginAssumption
<1>2. CASE ReadyTimeout \/ HostShutdown
  BY <1>0, <1>2 DEF ReadyTimeout, HostShutdown, StopChildren
<1>3. ASSUME NEW b \in Boards, NodeStep(b), UNCHANGED arbiterVars
      PROVE  /\ \A c \in Boards : now[c] <= now'[c]
             /\ resetSlack <= resetSlack' /\ stepSlack <= stepSlack'
  <2>1. resetSlack' = resetSlack
    BY <1>3 DEF arbiterVars
  <2>2. UNCHANGED <<now, stepSlack>>
        \/ /\ \E t \in now[b]..Horizon : now' = [now EXCEPT ![b] = t]
           /\ stepSlack' = stepSlack \/ stepSlack' = stepSlack + StepSpan
    BY <1>3 DEF NodeStep, ReceiveMessage, ReceiveStartup, ReceiveStart, ReceiveAllowed,
       ReceiveClusterStop, ReceiveReset, IgnoreGdbStep, PerformStep, FailStep, StepTargets,
       Poll, PollStop, PollError, Die, ReportAt
  <2> QED BY <1>0, <2>1, <2>2, BusAssumption, NodeAssumption DEF BusAssumption, NodeAssumption
<1>4. CASE UNCHANGED vars
  BY <1>0, <1>4 DEF vars, arbiterVars, nodeVars
<1> QED BY <1>1, <1>2, <1>3, <1>4 DEF Next

\* Messages in flight stay honest and safe as clocks and slack grow.
LEMMA StillSafe ==
    ASSUME TypeOK, TypeOK', [Next]_vars, ReportsHonest, CeilingsSafe
    PROVE  /\ \A b \in Boards : reports[b] <= now'[b] + resetSlack'
           /\ \A b \in Boards : n2a[b] \in Seq(HonestReports(b)')
           /\ \A b \in Boards : a2n[b] \in Seq(SafeLimits')
           /\ \A b \in Boards : allowed <= Reach(b)'
           /\ \A b, c \in Boards : ceiling[c] <= Reach(b)'
<1>1. /\ now \in [Boards -> Nat] /\ resetSlack \in Nat
      /\ now' \in [Boards -> Nat] /\ resetSlack' \in Nat
      /\ reports \in [Boards -> Nat] /\ allowed \in Nat
      /\ ceiling \in [Boards -> Nat \cup {NoLimit}]
  BY DEF TypeOK, ArbiterTypeOK, NodeTypeOK, Reports
<1>2. (\A b \in Boards : now[b] <= now'[b]) /\ resetSlack <= resetSlack'
  BY ClocksGrow
<1>3. \A b \in Boards : Reach(b) \in Nat /\ Reach(b)' \in Nat /\ Reach(b) <= Reach(b)'
  BY <1>1, <1>2, MarginAssumption DEF Reach, MarginAssumption
<1>4. \A b \in Boards : HonestReports(b) \subseteq HonestReports(b)'
  <2>1. SUFFICES ASSUME NEW b \in Boards, NEW m \in HonestReports(b)
                 PROVE  m \in HonestReports(b)'
    OBVIOUS
  <2>2. m \in ControlToArbiter /\ (m.type = "TimeReport" => m.at <= now[b] + resetSlack)
    BY DEF HonestReports
  <2>3. m.type = "TimeReport" => m.at \in Nat
    BY <2>2 DEF ControlToArbiter
  <2>4. m.type = "TimeReport" => m.at <= now'[b] + resetSlack'
    BY <1>1, <1>2, <2>2, <2>3
  <2> QED BY <2>2, <2>4 DEF HonestReports
<1>5. SafeLimits \subseteq SafeLimits'
  <2>1. SUFFICES ASSUME NEW m \in SafeLimits PROVE m \in SafeLimits'
    OBVIOUS
  <2>2. m \in ControlToNode
        /\ (m.type \in {"Start", "Allowed"} => \A b \in Boards : m.allowed <= Reach(b))
    BY DEF SafeLimits
  <2>3. m.type \in {"Start", "Allowed"} => m.allowed \in Nat
    BY <2>2 DEF ControlToNode
  <2>4. m.type \in {"Start", "Allowed"} => \A b \in Boards : m.allowed <= Reach(b)'
    BY <1>3, <2>2, <2>3
  <2> QED BY <2>2, <2>4 DEF SafeLimits
<1>6. \A b \in Boards : reports[b] <= now'[b] + resetSlack'
  BY <1>1, <1>2 DEF ReportsHonest
<1>7. \A b \in Boards : n2a[b] \in Seq(HonestReports(b)')
  BY <1>4, SeqMonotonic DEF ReportsHonest
<1>8. \A b \in Boards : a2n[b] \in Seq(SafeLimits')
  BY <1>5, SeqMonotonic DEF CeilingsSafe
<1>9. \A b \in Boards : allowed <= Reach(b)'
  BY <1>1, <1>3 DEF CeilingsSafe
<1>10. \A b, c \in Boards : ceiling[c] <= Reach(b)'
  <2>1. SUFFICES ASSUME NEW b \in Boards, NEW c \in Boards PROVE ceiling[c] <= Reach(b)'
    OBVIOUS
  <2>2. ceiling[c] <= Reach(b)
    BY DEF CeilingsSafe
  <2>3. ceiling[c] \in Int
    BY <1>1 DEF NoLimit
  <2>4. Reach(b) \in Nat /\ Reach(b)' \in Nat /\ Reach(b) <= Reach(b)'
    BY <1>3
  <2> QED BY <2>2, <2>3, <2>4
<1> QED BY <1>6, <1>7, <1>8, <1>9, <1>10

\* The control messages that are safe to send: all those without a ceiling, and a
\* Start or Allowed whose ceiling is within reach of every board.
LEMMA SafeMessages ==
    /\ StartupRecord \in SafeLimits' /\ Reset \in SafeLimits'
    /\ \A r \in StopReason : ClusterStop(r) \in SafeLimits'
    /\ \A b \in Boards : GdbStep(b) \in SafeLimits'
    /\ \A ns \in Nat : (\A b \in Boards : ns <= Reach(b)')
                         => Start(ns) \in SafeLimits' /\ Allowed(ns) \in SafeLimits'
BY MessageTypes DEF SafeLimits, StartupRecord, Reset, ClusterStop, GdbStep, Start, Allowed

-----------------------------------------------------------------------------
(* ReportsHonest and CeilingsSafe, action by action.                       *)

\* The ceilings after an arbiter step are safe if the one it computes is and it
\* publishes safe messages only.
LEMMA ArbiterCeilings ==
    ASSUME TypeOK, TypeOK', [Next]_vars, ReportsHonest, CeilingsSafe, UNCHANGED nodeVars,
           \A b \in Boards : allowed' <= Reach(b)',
           NEW msgs \in Seq(SafeLimits'), Broadcast(msgs)
    PROVE  CeilingsSafe'
<1>1. /\ \A b \in Boards : a2n[b] \in Seq(SafeLimits')
      /\ \A b, c \in Boards : ceiling[c] <= Reach(b)'
  BY StillSafe
<1>2. a2n' \in [Boards -> Seq(SafeLimits')]
  BY <1>1, BroadcastKeeps
<1>3. ceiling' = ceiling
  BY DEF nodeVars
<1>4. \A b \in Boards : allowed' <= Reach(b)' /\ a2n'[b] \in Seq(SafeLimits')
  BY <1>2
<1>5. \A b, c \in Boards : ceiling'[c] <= Reach(b)'
  BY <1>1, <1>3
<1> QED BY <1>4, <1>5 DEF CeilingsSafe

\* An arbiter step that leaves the reports and n2a alone keeps them honest.
LEMMA SameReports ==
    ASSUME TypeOK, TypeOK', [Next]_vars, ReportsHonest, CeilingsSafe,
           UNCHANGED <<reports, n2a>>
    PROVE  ReportsHonest'
<1>1. \A b \in Boards : reports[b] <= now'[b] + resetSlack' /\ n2a[b] \in Seq(HonestReports(b)')
  BY StillSafe
<1> QED BY <1>1 DEF ReportsHonest

\* A ceiling computed from honest reports is within reach of every board.
LEMMA HonestCeiling ==
    ASSUME TypeOK', NEW r \in Reports, \A b \in Boards : r[b] <= now'[b] + resetSlack',
           NEW until \in Nat \cup {NoLimit}
    PROVE  \A b \in Boards : AllowedNs(r) <= Reach(b)' /\ AllowedNsUntil(r, until) <= Reach(b)'
<1>1. SUFFICES ASSUME NEW b \in Boards
               PROVE  AllowedNs(r) <= Reach(b)' /\ AllowedNsUntil(r, until) <= Reach(b)'
  OBVIOUS
<1>2. /\ AllowedNs(r) \in Nat /\ AllowedNsUntil(r, until) \in Nat
      /\ AllowedNs(r) <= r[b] + Margin /\ AllowedNsUntil(r, until) <= r[b] + Margin
  BY AllowedWithinMargin
<1>3. r[b] \in Nat /\ now'[b] \in Nat /\ resetSlack' \in Nat /\ r[b] <= now'[b] + resetSlack'
  BY DEF Reports, TypeOK, ArbiterTypeOK, NodeTypeOK
<1>4. Reach(b)' = now'[b] + Margin + resetSlack'
  BY DEF Reach
<1> QED BY <1>2, <1>3, <1>4, MarginAssumption DEF MarginAssumption

\* allowed_after_reset overstates a report by at most one margin: exactly the
\* slack a Reset adds.
LEMMA ResetReportsHonest ==
    ASSUME TypeOK, ReportsHonest, CeilingsSafe
    PROVE  \A b \in Boards : ResetReports[b] <= now[b] + resetSlack + Margin
<1>1. SUFFICES ASSUME NEW b \in Boards
               PROVE  ResetReports[b] <= now[b] + resetSlack + Margin
  OBVIOUS
<1>2. /\ reports \in Reports /\ reports[b] \in Nat /\ allowed \in Nat
      /\ now[b] \in Nat /\ resetSlack \in Nat
  BY DEF TypeOK, ArbiterTypeOK, NodeTypeOK, Reports
<1>3. VirtualTime(reports) \in Nat /\ VirtualTime(reports) <= reports[b]
  BY <1>2, VirtualTimeIsMin
<1>4. reports[b] <= now[b] + resetSlack /\ allowed <= now[b] + Margin + resetSlack
  BY DEF ReportsHonest, CeilingsSafe, Reach
<1>5. ResetReports[b] \in {reports[b], allowed, VirtualTime(reports)}
  BY DEF ResetReports, AdvanceTo
<1> QED BY <1>2, <1>3, <1>4, <1>5, MarginAssumption DEF MarginAssumption

\* Host commands.
LEMMA HostCommandSafe ==
    ASSUME TypeOK, TypeOK', [Next]_vars, ReportsHonest, CeilingsSafe,
           HostCommand, UNCHANGED nodeVars
    PROVE  ReportsHonest' /\ CeilingsSafe'
<1>1. \A b \in Boards : allowed <= Reach(b)'
  BY StillSafe
<1>2. UNCHANGED n2a
  BY DEF HostCommand, HostStartBehind, HostStart, HostStopCluster, HostReset, HostStep, TakeCommand
<1>3. ASSUME NEW until \in UntilTimes \cup {NoLimit}, HostStartBehind(until)
      PROVE  ReportsHonest' /\ CeilingsSafe'
  <2>1. ReportsHonest'
    BY <1>2, <1>3, SameReports DEF HostStartBehind
  <2>2. allowed' = allowed
    BY <1>3 DEF HostStartBehind
  <2>3. CASE running
    <3>1. <<ClusterStop("Until")>> \in Seq(SafeLimits') /\ Broadcast(<<ClusterStop("Until")>>)
      BY <1>3, <2>3, SafeMessages, ReasonTypes DEF HostStartBehind
    <3> QED BY <1>1, <2>1, <2>2, <3>1, ArbiterCeilings
  <2>4. CASE ~ running
    <3>1. a2n' = a2n /\ ceiling' = ceiling
      BY <1>3, <2>4 DEF HostStartBehind, nodeVars
    <3> QED BY <2>1, <2>2, <3>1, StillSafe DEF CeilingsSafe
  <2> QED BY <2>3, <2>4
<1>4. ASSUME NEW until \in UntilTimes \cup {NoLimit}, HostStart(until)
      PROVE  ReportsHonest' /\ CeilingsSafe'
  <2>1. ReportsHonest'
    BY <1>2, <1>4, SameReports DEF HostStart
  <2>2. until \in Nat \cup {NoLimit} /\ reports \in Reports
    BY ArbiterAssumption DEF ArbiterAssumption, TypeOK, ArbiterTypeOK
  <2>3. \A b \in Boards : reports[b] <= now'[b] + resetSlack'
    BY StillSafe
  <2>4. allowed' = AllowedNsUntil(reports, until) /\ Broadcast(<<Start(allowed')>>)
    BY <1>4 DEF HostStart
  <2>5. \A b \in Boards : allowed' <= Reach(b)'
    BY <2>2, <2>3, <2>4, HonestCeiling
  <2>6. allowed' \in Nat
    BY DEF TypeOK, ArbiterTypeOK
  <2>7. <<Start(allowed')>> \in Seq(SafeLimits')
    BY <2>5, <2>6, SafeMessages
  <2> QED BY <2>1, <2>4, <2>5, <2>7, ArbiterCeilings
<1>5. CASE HostStopCluster
  <2>1. ReportsHonest'
    BY <1>2, <1>5, SameReports DEF HostStopCluster
  <2>2. <<ClusterStop("ExternalStop")>> \in Seq(SafeLimits')
    BY SafeMessages, ReasonTypes
  <2>3. allowed' = allowed /\ Broadcast(<<ClusterStop("ExternalStop")>>)
    BY <1>5 DEF HostStopCluster
  <2> QED BY <1>1, <2>1, <2>2, <2>3, ArbiterCeilings
<1>6. CASE HostReset
  <2>1. /\ reports' = ResetReports /\ resetSlack' = resetSlack + Margin /\ now' = now
        /\ allowed' = AllowedNs(reports')
        /\ Broadcast(<<ClusterStop("ExternalStop"), Reset, Start(allowed')>>)
    BY <1>6 DEF HostReset, nodeVars
  <2>2. \A b \in Boards : reports'[b] <= now'[b] + resetSlack'
    <3>1. SUFFICES ASSUME NEW b \in Boards PROVE reports'[b] <= now'[b] + resetSlack'
      OBVIOUS
    <3>2. ResetReports[b] <= now[b] + resetSlack + Margin
      BY ResetReportsHonest
    <3>3. now[b] \in Nat /\ resetSlack \in Nat
      BY DEF TypeOK, ArbiterTypeOK, NodeTypeOK
    <3> QED BY <2>1, <3>2, <3>3, MarginAssumption DEF MarginAssumption
  <2>3. ReportsHonest'
    BY <1>2, <2>2, StillSafe DEF ReportsHonest
  <2>4. reports' \in Reports /\ allowed' \in Nat /\ NoLimit \in Nat \cup {NoLimit}
    BY DEF TypeOK, ArbiterTypeOK
  <2>5. \A b \in Boards : allowed' <= Reach(b)'
    BY <2>1, <2>2, <2>4, HonestCeiling
  <2>6. <<ClusterStop("ExternalStop"), Reset, Start(allowed')>> \in Seq(SafeLimits')
    BY <2>4, <2>5, SafeMessages, ReasonTypes
  <2> QED BY <2>1, <2>3, <2>5, <2>6, ArbiterCeilings
<1>7. ASSUME NEW b \in Boards, HostStep(b)
      PROVE  ReportsHonest' /\ CeilingsSafe'
  <2>1. ReportsHonest'
    BY <1>2, <1>7, SameReports DEF HostStep
  <2>2. /\ <<ClusterStop("ExternalStop"), GdbStep(b)>> \in Seq(SafeLimits')
        /\ <<GdbStep(b)>> \in Seq(SafeLimits')
    BY SafeMessages, ReasonTypes
  <2>3. allowed' = allowed
    BY <1>7 DEF HostStep
  <2>4. \E msgs \in Seq(SafeLimits') : Broadcast(msgs)
    BY <1>7, <2>2 DEF HostStep
  <2> QED BY <1>1, <2>1, <2>3, <2>4, ArbiterCeilings
<1> QED BY <1>3, <1>4, <1>5, <1>6, <1>7 DEF HostCommand

\* The Ready barrier.
LEMMA BarrierSafe ==
    ASSUME TypeOK, TypeOK', [Next]_vars, ReportsHonest, CeilingsSafe,
           RepublishStartup \/ AwaitReady, UNCHANGED nodeVars
    PROVE  ReportsHonest' /\ CeilingsSafe'
<1>1. allowed' = allowed /\ reports' = reports
  BY DEF RepublishStartup, AwaitReady
<1>2. \A b \in Boards : allowed <= Reach(b)'
  BY StillSafe
<1>3. CASE RepublishStartup
  <2>1. Broadcast(<<StartupRecord>>) /\ n2a' = n2a
    BY <1>3 DEF RepublishStartup
  <2>2. <<StartupRecord>> \in Seq(SafeLimits')
    BY SafeMessages
  <2> QED BY <1>1, <1>2, <2>1, <2>2, ArbiterCeilings, SameReports
<1>4. CASE AwaitReady
  <2>1. a2n' = a2n /\ ceiling' = ceiling /\ n2a' = Drained
    BY <1>4 DEF AwaitReady, nodeVars
  <2>2. \A b \in Boards : n2a'[b] \in Seq(HonestReports(b)')
    BY <2>1 DEF Drained
  <2>3. ReportsHonest'
    BY <1>1, <2>2, StillSafe DEF ReportsHonest
  <2>4. CeilingsSafe'
    BY <1>1, <2>1, StillSafe DEF CeilingsSafe
  <2> QED BY <2>3, <2>4
<1> QED BY <1>3, <1>4

\* What a pass reads from honest queues are honest reports.
LEMMA ReportsAfterHonest ==
    ASSUME TypeOK, ReportsHonest
    PROVE  \A b \in Boards : ReportsAfter[b] <= now[b] + resetSlack
<1>1. SUFFICES ASSUME NEW b \in Boards
               PROVE  ReportsAfter[b] <= now[b] + resetSlack
  OBVIOUS
<1>2. CASE TimesIn(n2a[b]) = {}
  BY <1>2 DEF ReportsAfter, ReportsHonest
<1>3. CASE TimesIn(n2a[b]) # {}
  <2> DEFINE i == Max(TimesIn(n2a[b]))
  <2>1. n2a[b] \in Seq(ControlToArbiter) /\ n2a[b] \in Seq(HonestReports(b))
    BY DEF TypeOK, BusTypeOK, ReportsHonest
  <2>2. i \in 1..Len(n2a[b]) /\ n2a[b][i].type = "TimeReport"
    BY <1>3, <2>1, LastTimeRead
  <2>3. n2a[b][i] \in HonestReports(b)
    BY <2>1, <2>2, ElementOfSeq
  <2>4. n2a[b][i].at <= now[b] + resetSlack
    BY <2>2, <2>3 DEF HonestReports
  <2> QED BY <1>3, <2>4 DEF ReportsAfter
<1> QED BY <1>2, <1>3

\* One pass of step_time_sync.
LEMMA StepTimeSyncSafe ==
    ASSUME TypeOK, TypeOK', [Next]_vars, ReportsHonest, CeilingsSafe,
           StepTimeSync, UNCHANGED nodeVars
    PROVE  ReportsHonest' /\ CeilingsSafe'
<1>1. reports' = ReportsAfter /\ n2a' = Drained /\ resetSlack' = resetSlack /\ now' = now
  BY DEF StepTimeSync, SyncHostStop, SyncInsnDone, SyncTime, SyncUntil, Sync, nodeVars
<1>2. \A b \in Boards : ReportsAfter[b] <= now'[b] + resetSlack'
  BY <1>1, ReportsAfterHonest
<1>3. ReportsHonest'
  <2>1. \A b \in Boards : n2a'[b] \in Seq(HonestReports(b)')
    BY <1>1 DEF Drained
  <2> QED BY <1>1, <1>2, <2>1 DEF ReportsHonest
<1>4. ReportsAfter \in Reports /\ untilCap \in Nat \cup {NoLimit} /\ allowed' \in Nat
  BY ReportsAfterType DEF TypeOK, ArbiterTypeOK
<1>5. NewAllowed \in Nat /\ \A b \in Boards : NewAllowed <= Reach(b)'
  BY <1>2, <1>4, StillSafe, HonestCeiling, NewAllowedType DEF NewAllowed
<1>6. \A b \in Boards : allowed <= Reach(b)'
  BY StillSafe
<1>7. AllowedMsg \in Seq(SafeLimits')
  <2>1. <<Allowed(NewAllowed)>> \in Seq(SafeLimits') /\ <<>> \in Seq(SafeLimits')
    BY <1>5, SafeMessages
  <2> QED BY <2>1 DEF AllowedMsg
<1>8. \A r \in StopReason : <<ClusterStop(r)>> \in Seq(SafeLimits')
  BY SafeMessages
<1>9. CASE SyncHostStop
  <2>1. PICK b \in Stoppers : Broadcast(<<ClusterStop(LastStop(n2a[b]))>>)
    BY <1>9 DEF SyncHostStop
  <2>2. LastStop(n2a[b]) \in StopReason
    BY LastStopRead DEF Stoppers, TypeOK, BusTypeOK
  <2>3. <<ClusterStop(LastStop(n2a[b]))>> \in Seq(SafeLimits')
    BY <1>8, <2>2
  <2>4. allowed' = allowed
    BY <1>9 DEF SyncHostStop
  <2> QED BY <1>3, <1>6, <2>1, <2>3, <2>4, ArbiterCeilings
<1>10. CASE SyncInsnDone
  <2>1. PICK b \in Boards : /\ allowed' = AllowedNsUntil(ReportsAfter, ReportsAfter[b])
                            /\ Broadcast(<<Start(allowed')>>)
    BY <1>10 DEF SyncInsnDone
  <2>2. ReportsAfter[b] \in Nat \cup {NoLimit}
    BY <1>4 DEF Reports
  <2>3. \A c \in Boards : allowed' <= Reach(c)'
    BY <1>2, <1>4, <2>1, <2>2, HonestCeiling
  <2>4. <<Start(allowed')>> \in Seq(SafeLimits')
    BY <1>4, <2>3, SafeMessages
  <2> QED BY <1>3, <2>1, <2>3, <2>4, ArbiterCeilings
<1>11. CASE SyncTime
  <2>1. allowed' = NewAllowed /\ Broadcast(AllowedMsg)
    BY <1>11 DEF SyncTime
  <2> QED BY <1>3, <1>5, <1>7, <2>1, ArbiterCeilings
<1>12. CASE SyncUntil
  <2> DEFINE reason == IF gdb.phase = "CatchUp" THEN gdb.reason ELSE "Until"
  <2>1. Broadcast(AllowedMsg \o <<ClusterStop(reason)>>)
    BY <1>12 DEF SyncUntil
  <2>2. reason \in StopReason
    BY EndReasonType
  <2>3. AllowedMsg \o <<ClusterStop(reason)>> \in Seq(SafeLimits')
    BY <1>7, <1>8, <2>2, ConcatProperties
  <2>4. allowed' = NewAllowed
    BY <1>12 DEF SyncUntil
  <2> QED BY <1>3, <1>5, <2>1, <2>3, <2>4, ArbiterCeilings
<1> QED BY <1>9, <1>10, <1>11, <1>12 DEF StepTimeSync

\* What a node may still be told after it has read a message, and the ceiling that
\* message may carry.
LEMMA ReadSafe ==
    ASSUME TypeOK, TypeOK', [Next]_vars, ReportsHonest, CeilingsSafe,
           NEW b \in Boards, NEW type, Receive(b, type)
    PROVE  /\ \A c \in Boards : a2n'[c] \in Seq(SafeLimits')
           /\ type \in {"Start", "Allowed"} =>
                \A c \in Boards : Head(a2n[b]).allowed <= Reach(c)'
<1>1. \A c \in Boards : a2n[c] \in Seq(SafeLimits')
  BY StillSafe
<1>2. /\ a2n[b] # <<>> /\ Head(a2n[b]).type = type
      /\ a2n' = [a2n EXCEPT ![b] = Tail(@)] /\ a2n \in [Boards -> Seq(ControlToNode)]
  BY DEF Receive, TypeOK, BusTypeOK
<1>3. Tail(a2n[b]) \in Seq(SafeLimits') /\ Head(a2n[b]) \in SafeLimits'
  BY <1>1, <1>2, HeadTailProperties
<1>4. \A c \in Boards : a2n'[c] \in Seq(SafeLimits')
  BY <1>1, <1>2, <1>3
<1>5. type \in {"Start", "Allowed"} => \A c \in Boards : Head(a2n[b]).allowed <= Reach(c)'
  BY <1>2, <1>3 DEF SafeLimits
<1> QED BY <1>4, <1>5

\* A node that publishes nothing but a report of its own time, if anything, keeps
\* the queues honest.
LEMMA SendHonest ==
    ASSUME TypeOK, TypeOK', [Next]_vars, ReportsHonest, CeilingsSafe, NEW b \in Boards,
           reports' = reports, NEW msgs \in Seq(HonestReports(b)'), Send(b, msgs)
    PROVE  ReportsHonest'
<1>1. \A c \in Boards : reports[c] <= now'[c] + resetSlack' /\ n2a[c] \in Seq(HonestReports(c)')
  BY StillSafe
<1>2. n2a' = [n2a EXCEPT ![b] = n2a'[b]] /\ n2a'[b] \in Seq(HonestReports(b)')
  BY <1>1, SendKeeps DEF TypeOK, BusTypeOK
<1>3. \A c \in Boards : n2a'[c] \in Seq(HonestReports(c)')
  BY <1>1, <1>2 DEF TypeOK, BusTypeOK
<1> QED BY <1>1, <1>3 DEF ReportsHonest

\* The messages a node sends: Ready and HostStop say nothing about time, and a
\* report is honest if the clock is there.
LEMMA HonestMessages ==
    ASSUME TypeOK', NEW b \in Boards
    PROVE  /\ Ready \in HonestReports(b)'
           /\ \A r \in StopReason : HostStop(r) \in HonestReports(b)'
           /\ \A t \in Nat : t <= now'[b] => TimeReport(t) \in HonestReports(b)'
<1>1. now'[b] \in Nat /\ resetSlack' \in Nat
  BY DEF TypeOK, ArbiterTypeOK, NodeTypeOK
<1>2. \A t \in Nat : t <= now'[b] => t <= now'[b] + resetSlack'
  BY <1>1
<1> QED BY <1>2, MessageTypes DEF HonestReports, Ready, HostStop, TimeReport

\* The ceilings after a node step are safe if the queues are and the node's own
\* ceiling is.
LEMMA NodeCeilings ==
    ASSUME TypeOK, TypeOK', [Next]_vars, ReportsHonest, CeilingsSafe, NEW b \in Boards,
           allowed' = allowed, \A c \in Boards : a2n'[c] \in Seq(SafeLimits'),
           ceiling' = [ceiling EXCEPT ![b] = ceiling'[b]],
           \A c \in Boards : ceiling'[b] <= Reach(c)'
    PROVE  CeilingsSafe'
<1>1. \A c, d \in Boards : ceiling'[d] <= Reach(c)'
  BY StillSafe DEF TypeOK, NodeTypeOK
<1>2. \A c \in Boards : allowed' <= Reach(c)'
  BY StillSafe
<1> QED BY <1>1, <1>2 DEF CeilingsSafe

\* A node reads a control message.
LEMMA ReceiveMessageSafe ==
    ASSUME TypeOK, TypeOK', [Next]_vars, ReportsHonest, CeilingsSafe,
           NEW b \in Boards, ReceiveMessage(b), UNCHANGED arbiterVars
    PROVE  ReportsHonest' /\ CeilingsSafe'
<1>1. reports' = reports /\ allowed' = allowed
  BY DEF arbiterVars
<1>2. \A c \in Boards : a2n'[c] \in Seq(SafeLimits')
  <2>1. \E type : Receive(b, type)
    BY DEF ReceiveMessage, ReceiveStartup, ReceiveStart, ReceiveAllowed, ReceiveClusterStop,
       ReceiveReset, IgnoreGdbStep, PerformStep, FailStep, TakesGdbStep
  <2> QED BY <2>1, ReadSafe
<1>3. ceiling \in [Boards -> Nat \cup {NoLimit}]
  BY DEF TypeOK, NodeTypeOK
<1>4. ASSUME UNCHANGED ceiling PROVE CeilingsSafe'
  <2>1. ceiling' = [ceiling EXCEPT ![b] = ceiling'[b]]
    BY <1>3, <1>4
  <2>2. \A c \in Boards : ceiling'[b] <= Reach(c)'
    BY <1>4, StillSafe
  <2> QED BY <1>1, <1>2, <2>1, <2>2, NodeCeilings
<1>5. ASSUME UNCHANGED n2a PROVE ReportsHonest'
  BY <1>1, <1>5, SameReports
<1>6. CASE ReceiveStartup(b)
  <2>1. <<Ready>> \in Seq(HonestReports(b)')
    BY HonestMessages
  <2>2. ReportsHonest'
    BY <1>1, <1>5, <1>6, <2>1, SendHonest DEF ReceiveStartup
  <2> QED BY <1>4, <1>6, <2>2 DEF ReceiveStartup
<1>7. CASE ReceiveStart(b)
  <2>1. \A c \in Boards : Head(a2n[b]).allowed <= Reach(c)'
    BY <1>7, ReadSafe DEF ReceiveStart
  <2>2. UNCHANGED ceiling \/ ceiling' = [ceiling EXCEPT ![b] = Head(a2n[b]).allowed]
    BY <1>7 DEF ReceiveStart
  <2>3. CeilingsSafe'
    BY <1>1, <1>2, <1>3, <1>4, <2>1, <2>2, NodeCeilings
  <2> QED BY <1>5, <1>7, <2>3 DEF ReceiveStart
<1>8. CASE ReceiveAllowed(b)
  <2>1. \A c \in Boards : Head(a2n[b]).allowed <= Reach(c)'
    BY <1>8, ReadSafe DEF ReceiveAllowed
  <2>2. UNCHANGED ceiling \/ ceiling' = [ceiling EXCEPT ![b] = Head(a2n[b]).allowed]
    BY <1>8 DEF ReceiveAllowed
  <2>3. CeilingsSafe'
    BY <1>1, <1>2, <1>3, <1>4, <2>1, <2>2, NodeCeilings
  <2> QED BY <1>5, <1>8, <2>3 DEF ReceiveAllowed
<1>9. CASE ReceiveClusterStop(b) \/ ReceiveReset(b) \/ IgnoreGdbStep(b) \/ FailStep(b)
  BY <1>4, <1>5, <1>9 DEF ReceiveClusterStop, ReceiveReset, IgnoreGdbStep, FailStep,
     TakesGdbStep
<1>10. CASE PerformStep(b)
  <2>1. PICK t \in StepTargets(b), reason \in GuestStop \cup {"Step"} :
          now' = [now EXCEPT ![b] = t] /\ Send(b, <<TimeReport(t), HostStop(reason)>>)
    BY <1>10 DEF PerformStep
  <2>2. t \in Nat /\ t <= now'[b] /\ reason \in StopReason
    BY <2>1, NodeAssumption, ReasonTypes DEF StepTargets, TypeOK, NodeTypeOK, NodeAssumption
  <2>3. TimeReport(t) \in HonestReports(b)' /\ HostStop(reason) \in HonestReports(b)'
    BY <2>2, HonestMessages
  <2>4. <<TimeReport(t), HostStop(reason)>> \in Seq(HonestReports(b)')
    BY <2>3
  <2>5. ReportsHonest'
    BY <1>1, <2>1, <2>4, SendHonest
  <2> QED BY <1>4, <1>10, <2>5 DEF PerformStep, TakesGdbStep
<1> QED BY <1>6, <1>7, <1>8, <1>9, <1>10 DEF ReceiveMessage

\* A guest runs.
LEMMA PollSafe ==
    ASSUME TypeOK, TypeOK', [Next]_vars, ReportsHonest, CeilingsSafe, UNCHANGED arbiterVars,
           NEW b \in Boards, NEW t \in Nat, NEW msgs \in Seq(HonestReports(b)'),
           ReportAt(b, t, msgs)
    PROVE  ReportsHonest' /\ CeilingsSafe'
<1>1. now' = [now EXCEPT ![b] = t] /\ Send(b, ReportMsg(b, t) \o msgs)
      /\ UNCHANGED <<a2n, ceiling>>
  BY DEF ReportAt
<1>2. reports' = reports /\ allowed' = allowed
  BY DEF arbiterVars
<1>3. ReportMsg(b, t) \in Seq(HonestReports(b)')
  <2>1. t <= now'[b]
    BY <1>1 DEF TypeOK, NodeTypeOK
  <2>2. TimeReport(t) \in HonestReports(b)'
    BY <2>1, HonestMessages
  <2>3. <<TimeReport(t)>> \in Seq(HonestReports(b)') /\ <<>> \in Seq(HonestReports(b)')
    BY <2>2
  <2> QED BY <2>3, ReportMsgType
<1>4. ReportMsg(b, t) \o msgs \in Seq(HonestReports(b)')
  BY <1>3, ConcatProperties
<1>5. ReportsHonest'
  BY <1>1, <1>2, <1>4, SendHonest
<1>6. CeilingsSafe'
  BY <1>1, <1>2, StillSafe DEF CeilingsSafe
<1> QED BY <1>5, <1>6

\* One step of a node: a message, a poll, a fault.
LEMMA NodeStepSafe ==
    ASSUME TypeOK, TypeOK', [Next]_vars, ReportsHonest, CeilingsSafe,
           NEW b \in Boards, NodeStep(b), UNCHANGED arbiterVars
    PROVE  ReportsHonest' /\ CeilingsSafe'
<1>1. CASE ReceiveMessage(b)
  BY <1>1, ReceiveMessageSafe
<1>2. \A t \in now[b]..Horizon : t \in Nat
  BY NodeAssumption DEF TypeOK, NodeTypeOK, NodeAssumption
<1>3. CASE Poll(b)
  <2>1. PICK t \in Nat : ReportAt(b, t, <<>>)
    BY <1>2, <1>3 DEF Poll
  <2>2. <<>> \in Seq(HonestReports(b)')
    OBVIOUS
  <2> QED BY <2>1, <2>2, PollSafe
<1>4. CASE PollStop(b)
  <2>1. PICK t \in Nat, reason \in GuestStop : ReportAt(b, t, <<HostStop(reason)>>)
    BY <1>2, <1>4 DEF PollStop
  <2>2. HostStop(reason) \in HonestReports(b)'
    BY HonestMessages, ReasonTypes
  <2>3. <<HostStop(reason)>> \in Seq(HonestReports(b)')
    BY <2>2
  <2> QED BY <2>1, <2>3, PollSafe
<1>5. CASE PollError(b) \/ Die(b)
  <2>1. UNCHANGED <<a2n, n2a, ceiling, reports, allowed>>
    BY <1>5 DEF PollError, Die, busVars, arbiterVars
  <2> QED BY <2>1, StillSafe, SameReports DEF CeilingsSafe
<1> QED BY <1>1, <1>3, <1>4, <1>5 DEF NodeStep

\* Every step keeps reports honest and ceilings safe.
LEMMA NextSafe ==
    ASSUME TypeOK, TypeOK', [Next]_vars, ReportsHonest, CeilingsSafe
    PROVE  ReportsHonest' /\ CeilingsSafe'
<1>1. CASE ArbiterStep
  BY <1>1, BarrierSafe, HostCommandSafe, StepTimeSyncSafe DEF ArbiterStep
<1>2. ASSUME UNCHANGED <<a2n, n2a, ceiling, reports, allowed>>
      PROVE  ReportsHonest' /\ CeilingsSafe'
  BY <1>2, StillSafe, SameReports DEF CeilingsSafe
<1>3. CASE ReadyTimeout \/ HostShutdown
  BY <1>2, <1>3 DEF ReadyTimeout, HostShutdown, StopChildren, busVars
<1>4. CASE \E b \in Boards : NodeStep(b) /\ UNCHANGED arbiterVars
  BY <1>4, NodeStepSafe
<1>5. CASE UNCHANGED vars
  BY <1>2, <1>5 DEF vars, busVars, arbiterVars, nodeVars
<1> QED BY <1>1, <1>3, <1>4, <1>5 DEF Next

-----------------------------------------------------------------------------
(* The refinement of ConservativeSync, and the skew of the clocks.         *)

\* A clock that moves stays within reach of the slowest board, except that a GDB
\* step may take one instruction more.
LEMMA ClockMoves ==
    ASSUME TypeOK, TypeOK', CeilingsSafe, NEW b \in Boards, NodeStep(b),
           UNCHANGED arbiterVars
    PROVE  UNCHANGED <<now, stepSlack>> \/ Conservative!Run(b) \/ Conservative!Step(b)
<1>1. /\ now \in [Boards -> Nat] /\ ceiling \in [Boards -> Nat \cup {NoLimit}]
      /\ resetSlack \in Nat /\ stepSlack \in Nat
      /\ resetSlack' = resetSlack /\ status' = status
  BY DEF TypeOK, ArbiterTypeOK, NodeTypeOK, arbiterVars
<1>2. ASSUME NEW t \in now[b]..Horizon, t <= ceiling[b],
             now' = [now EXCEPT ![b] = t], stepSlack' = stepSlack
      PROVE  Conservative!Run(b)
  <2>1. t \in Nat /\ t >= now[b] /\ now'[b] = t
    BY <1>1, <1>2, NodeAssumption DEF NodeAssumption
  <2>2. ASSUME NEW c \in Boards PROVE t <= now[c] + Margin + resetSlack + stepSlack
    <3>1. ceiling[b] <= now[c] + Margin + resetSlack
      BY DEF CeilingsSafe, Reach
    <3>2. now[c] \in Nat /\ ceiling[b] \in Int
      BY <1>1 DEF NoLimit
    <3> QED BY <1>1, <1>2, <2>1, <3>1, <3>2, MarginAssumption DEF MarginAssumption
  <2> QED BY <1>1, <1>2, <2>1, <2>2 DEF Conservative!Run
<1>3. CASE ReceiveMessage(b) /\ ~ PerformStep(b)
  BY <1>3 DEF ReceiveMessage, ReceiveStartup, ReceiveStart, ReceiveAllowed,
     ReceiveClusterStop, ReceiveReset, IgnoreGdbStep, FailStep
<1>4. CASE PerformStep(b)
  <2>1. PICK t \in StepTargets(b) :
          /\ now' = [now EXCEPT ![b] = t]
          /\ stepSlack' = IF t <= ceiling[b] THEN stepSlack ELSE stepSlack + StepSpan
    BY <1>4 DEF PerformStep
  <2>2. t \in now[b]..Horizon /\ (t <= ceiling[b] \/ t <= now[b] + StepSpan)
    BY DEF StepTargets
  <2>3. CASE t <= ceiling[b]
    BY <1>2, <2>1, <2>2, <2>3
  <2>4. CASE ~ t <= ceiling[b]
    <3>1. now'[b] = t /\ t >= now[b] /\ t <= now[b] + StepSpan
      BY <1>1, <2>1, <2>2, <2>4, NodeAssumption DEF NodeAssumption
    <3> QED BY <1>1, <2>1, <2>4, <3>1 DEF Conservative!Step
  <2> QED BY <2>3, <2>4
<1>5. CASE Poll(b) \/ PollStop(b)
  <2>1. PICK t \in now[b]..Horizon : t <= ceiling[b] /\ now' = [now EXCEPT ![b] = t]
    BY <1>5 DEF Poll, PollStop, ReportAt
  <2>2. stepSlack' = stepSlack
    BY <1>5 DEF Poll, PollStop, ReportAt
  <2> QED BY <1>2, <2>1, <2>2
<1>6. CASE PollError(b) \/ Die(b)
  BY <1>6 DEF PollError, Die
<1> QED BY <1>3, <1>4, <1>5, <1>6 DEF NodeStep

\* The time write_status shows is that of the slowest report.
LEMMA StatusShown ==
    ASSUME TypeOK, TypeOK', ReportsHonest', UNCHANGED nodeVars, StepTimeSync
    PROVE  \A b \in Boards : status'.time <= now[b] + resetSlack
<1>1. WriteStatus /\ resetSlack' = resetSlack /\ now' = now
  BY DEF StepTimeSync, SyncHostStop, SyncInsnDone, SyncTime, SyncUntil, Sync, nodeVars
<1>2. status'.time = VirtualTime(reports')
  BY <1>1 DEF WriteStatus
<1>3. SUFFICES ASSUME NEW b \in Boards PROVE VirtualTime(reports') <= now[b] + resetSlack
  BY <1>2
<1>4. reports' \in Reports /\ reports'[b] <= now'[b] + resetSlack'
  BY DEF TypeOK, ArbiterTypeOK, ReportsHonest
<1>5. VirtualTime(reports') \in Nat /\ VirtualTime(reports') <= reports'[b]
  BY <1>4, VirtualTimeIsMin
<1>6. reports'[b] \in Nat /\ now[b] \in Nat /\ resetSlack \in Nat
  BY <1>4 DEF Reports, TypeOK, NodeTypeOK, ArbiterTypeOK
<1> QED BY <1>1, <1>4, <1>5, <1>6

\* Every step is a step of the abstract synchronisation, or none of it.
LEMMA StepRefines ==
    ASSUME TypeOK, TypeOK', [Next]_vars, ReportsHonest, CeilingsSafe
    PROVE  [Conservative!Next]_Conservative!vars
<1>1. ReportsHonest'
  BY NextSafe
<1>2. ASSUME UNCHANGED <<now, stepSlack, resetSlack, status>>
      PROVE  UNCHANGED Conservative!vars
  BY <1>2 DEF Conservative!vars
<1>3. CASE ArbiterStep
  <2>1. UNCHANGED nodeVars /\ UNCHANGED <<now, stepSlack>>
    BY <1>3 DEF ArbiterStep, nodeVars
  <2>2. CASE HostReset
    <3>1. resetSlack' = resetSlack + Margin /\ status' = status
      BY <2>2 DEF HostReset, TakeCommand
    <3>2. Conservative!Reset
      BY <2>1, <3>1 DEF Conservative!Reset
    <3> QED BY <3>2 DEF Conservative!Next
  <2>3. CASE StepTimeSync
    <3>1. resetSlack' = resetSlack
      BY <2>3 DEF StepTimeSync, SyncHostStop, SyncInsnDone, SyncTime, SyncUntil, Sync
    <3>2. Conservative!Show
      BY <1>1, <2>1, <2>3, <3>1, StatusShown DEF Conservative!Show
    <3> QED BY <3>2 DEF Conservative!Next
  <2>4. CASE ~ HostReset /\ ~ StepTimeSync
    <3>1. resetSlack' = resetSlack /\ status' = status
      BY <1>3, <2>4 DEF ArbiterStep, RepublishStartup, AwaitReady, HostCommand,
         HostStartBehind, HostStart, HostStopCluster, HostStep, TakeCommand
    <3> QED BY <1>2, <2>1, <3>1
  <2> QED BY <2>2, <2>3, <2>4
<1>4. CASE ReadyTimeout \/ HostShutdown
  BY <1>2, <1>4 DEF ReadyTimeout, HostShutdown, StopChildren
<1>5. ASSUME NEW b \in Boards, NodeStep(b), UNCHANGED arbiterVars
      PROVE  [Conservative!Next]_Conservative!vars
  <2>1. UNCHANGED <<resetSlack, status>>
    BY <1>5 DEF arbiterVars
  <2> QED BY <1>2, <1>5, <2>1, ClockMoves DEF Conservative!Next
<1>6. CASE UNCHANGED vars
  BY <1>2, <1>6 DEF vars, arbiterVars, nodeVars
<1> QED BY <1>3, <1>4, <1>5, <1>6 DEF Next

\* In the abstract synchronisation no step widens the skew beyond the slack.
LEMMA SkewStep ==
    ASSUME TypeOK, TypeOK', SkewBounded, [Conservative!Next]_Conservative!vars
    PROVE  SkewBounded'
<1>1. /\ now \in [Boards -> Nat] /\ resetSlack \in Nat /\ stepSlack \in Nat
      /\ now' \in [Boards -> Nat] /\ resetSlack' \in Nat /\ stepSlack' \in Nat
      /\ Margin \in Nat /\ StepSpan \in Nat
  BY MarginAssumption, BusAssumption
     DEF TypeOK, ArbiterTypeOK, NodeTypeOK, MarginAssumption, BusAssumption
<1>2. SUFFICES ASSUME NEW a \in Boards, NEW b \in Boards
               PROVE  now'[a] <= now'[b] + Margin + resetSlack' + stepSlack'
  BY DEF SkewBounded
<1>3. now[a] <= now[b] + Margin + resetSlack + stepSlack
  BY DEF SkewBounded
<1>4. CASE Conservative!Reset \/ Conservative!Show \/ UNCHANGED Conservative!vars
  BY <1>1, <1>3, <1>4 DEF Conservative!Reset, Conservative!Show, Conservative!vars
<1>5. ASSUME NEW c \in Boards, Conservative!Run(c)
      PROVE  now'[a] <= now'[b] + Margin + resetSlack' + stepSlack'
  <2>1. /\ now' = [now EXCEPT ![c] = now'[c]] /\ now'[c] >= now[c]
        /\ \A d \in Boards : now'[c] <= now[d] + Margin + resetSlack + stepSlack
        /\ resetSlack' = resetSlack /\ stepSlack' = stepSlack
    BY <1>5 DEF Conservative!Run
  <2>2. now'[b] >= now[b] /\ (a # c => now'[a] = now[a])
    BY <1>1, <2>1
  <2> QED BY <1>1, <1>3, <2>1, <2>2
<1>6. ASSUME NEW c \in Boards, Conservative!Step(c)
      PROVE  now'[a] <= now'[b] + Margin + resetSlack' + stepSlack'
  <2>1. /\ now' = [now EXCEPT ![c] = now'[c]] /\ now'[c] >= now[c]
        /\ now'[c] <= now[c] + StepSpan
        /\ resetSlack' = resetSlack /\ stepSlack' = stepSlack + StepSpan
    BY <1>6 DEF Conservative!Step
  <2>2. now'[b] >= now[b] /\ now'[a] <= now[a] + StepSpan
    BY <1>1, <2>1
  <2> QED BY <1>1, <1>3, <2>1, <2>2
<1> QED BY <1>4, <1>5, <1>6 DEF Conservative!Next

-----------------------------------------------------------------------------
(* The Ready barrier. *)

\* No node forgets its StartupRecord, and a step of a node leaves the other nodes
\* and their queues alone.
LEMMA NodeStateStep ==
    ASSUME TypeOK, NEW b \in Boards, NodeStep(b)
    PROVE  /\ \A c \in Boards : c # b => nodeState'[c] = nodeState[c] /\ n2a'[c] = n2a[c]
                                         /\ a2n'[c] = a2n[c]
           /\ nodeState'[b] = "AwaitingStartup" =>
                nodeState[b] = "AwaitingStartup" /\ n2a'[b] = n2a[b]
           /\ a2n'[b] = a2n[b] \/ (a2n[b] # <<>> /\ a2n'[b] = Tail(a2n[b]))
<1>1. /\ nodeState \in [Boards -> NodeState] /\ n2a \in [Boards -> Seq(ControlToArbiter)]
      /\ a2n \in [Boards -> Seq(ControlToNode)]
  BY DEF TypeOK, BusTypeOK, NodeTypeOK
<1>2. CASE ReceiveMessage(b)
  <2>1. a2n[b] # <<>> /\ a2n' = [a2n EXCEPT ![b] = Tail(@)]
    BY <1>2 DEF ReceiveMessage, ReceiveStartup, ReceiveStart, ReceiveAllowed,
       ReceiveClusterStop, ReceiveReset, IgnoreGdbStep, PerformStep, FailStep, TakesGdbStep,
       Receive
  <2>2. /\ nodeState' = nodeState \/ \E s \in {"Stopped", "Running"} : EnterState(b, s)
        /\ n2a' = n2a \/ \E msgs : Send(b, msgs) /\ EnterState(b, "Stopped")
    BY <1>2 DEF ReceiveMessage, ReceiveStartup, ReceiveStart, ReceiveAllowed,
       ReceiveClusterStop, ReceiveReset, IgnoreGdbStep, PerformStep, FailStep, TakesGdbStep
  <2> QED BY <1>1, <2>1, <2>2 DEF EnterState, Send
<1>3. CASE Poll(b) \/ PollStop(b)
  <2>1. a2n' = a2n /\ nodeState' = nodeState /\ nodeState[b] = "Running"
    BY <1>3 DEF Poll, PollStop, CanPoll, ReportAt
  <2>2. \E msgs : Send(b, msgs)
    BY <1>3 DEF Poll, PollStop, ReportAt
  <2>3. \A c \in Boards : c # b => n2a'[c] = n2a[c]
    BY <1>1, <2>2 DEF Send
  <2>4. nodeState'[b] # "AwaitingStartup"
    BY <2>1
  <2>5. a2n'[b] = a2n[b] /\ \A c \in Boards : nodeState'[c] = nodeState[c] /\ a2n'[c] = a2n[c]
    BY <2>1
  <2> QED BY <2>3, <2>4, <2>5
<1>4. CASE PollError(b) \/ Die(b)
  <2>1. a2n' = a2n /\ n2a' = n2a /\ nodeState' = nodeState
    BY <1>4 DEF PollError, Die, busVars
  <2>2. /\ a2n'[b] = a2n[b]
        /\ \A c \in Boards : nodeState'[c] = nodeState[c] /\ a2n'[c] = a2n[c] /\ n2a'[c] = n2a[c]
    BY <2>1
  <2> QED BY <2>2
<1> QED BY <1>2, <1>3, <1>4 DEF NodeStep

\* A node that has not attached keeps the barrier shut, and before the session
\* nothing but StartupRecords is on its way.
LEMMA BarrierStep ==
    ASSUME TypeOK, BarrierHolds, [Next]_vars
    PROVE  BarrierHolds'
<1>1. CASE RepublishStartup /\ UNCHANGED nodeVars
  <2>1. \A b \in Boards : a2n[b] \in Seq({StartupRecord}) /\ nodeState[b] # "Running"
    BY <1>1 DEF BarrierHolds, RepublishStartup
  <2>2. <<StartupRecord>> \in Seq({StartupRecord}) /\ Broadcast(<<StartupRecord>>)
    BY <1>1 DEF RepublishStartup
  <2>3. \A b \in Boards : a2n'[b] \in Seq({StartupRecord})
    BY <2>1, <2>2, BroadcastKeeps
  <2> QED BY <1>1, <2>1, <2>3 DEF BarrierHolds, RepublishStartup, nodeVars
<1>2. CASE AwaitReady /\ UNCHANGED nodeVars
  <2>1. UNCHANGED <<a2n, nodeState>> /\ n2a' = Drained /\ stage = "await"
    BY <1>2 DEF AwaitReady, nodeVars
  <2>2. ASSUME NEW b \in Boards, nodeState[b] = "AwaitingStartup"
        PROVE  n2a'[b] = <<>> /\ peers'[b] = "AwaitingReady" /\ stage' = "await"
    <3>1. n2a[b] = <<>> /\ peers[b] = "AwaitingReady"
      BY <2>2 DEF BarrierHolds
    <3>2. ~ ReadyIn(n2a[b])
      BY <3>1 DEF ReadyIn
    <3>3. peers'[b] = "AwaitingReady"
      BY <1>2, <3>1, <3>2 DEF AwaitReady
    <3>4. ~ AllReady(peers')
      BY <3>3 DEF AllReady
    <3> QED BY <1>2, <2>1, <3>3, <3>4 DEF AwaitReady, Drained
  <2>3. stage' \in {"await", "session"}
    BY <1>2 DEF AwaitReady
  <2> QED BY <2>1, <2>2, <2>3 DEF BarrierHolds
<1>3. CASE (HostCommand \/ StepTimeSync) /\ UNCHANGED nodeVars
  <2>1. stage = "session" /\ stage' = "session"
    BY <1>3 DEF HostCommand, HostStartBehind, HostStart, HostStopCluster, HostReset,
       HostStep, TakeCommand, StepTimeSync, SyncHostStop, SyncInsnDone, SyncTime,
       SyncUntil, Sync
  <2> QED BY <1>3, <2>1 DEF BarrierHolds, nodeVars
<1>4. CASE ReadyTimeout
  BY <1>4 DEF ReadyTimeout, StopChildren, busVars, BarrierHolds
<1>5. CASE HostShutdown
  BY <1>5 DEF HostShutdown, StopChildren, busVars, BarrierHolds
<1>6. ASSUME NEW b \in Boards, NodeStep(b), UNCHANGED arbiterVars
      PROVE  BarrierHolds'
  <2>1. UNCHANGED <<stage, peers>>
    BY <1>6 DEF arbiterVars
  <2>2. \A c \in Boards : nodeState'[c] = "AwaitingStartup" =>
          n2a'[c] = <<>> /\ peers'[c] = "AwaitingReady" /\ stage' \in {"await", "failed"}
    BY <1>6, <2>1, NodeStateStep DEF BarrierHolds
  <2>3. ASSUME stage \in {"await", "failed"}
        PROVE  \A c \in Boards : a2n'[c] \in Seq({StartupRecord}) /\ nodeState'[c] # "Running"
    <3>1. \A c \in Boards : a2n[c] \in Seq({StartupRecord}) /\ nodeState[c] # "Running"
      BY <2>3 DEF BarrierHolds
    <3>2. \A c \in Boards : a2n'[c] \in Seq({StartupRecord})
      <4>1. a2n[b] # <<>> => Tail(a2n[b]) \in Seq({StartupRecord})
        BY <3>1, HeadTailProperties
      <4> QED BY <1>6, <3>1, <4>1, NodeStateStep
    <3>3. nodeState'[b] # "Running"
      <4>1. a2n[b] # <<>> => Head(a2n[b]) = StartupRecord
        BY <3>1, HeadTailProperties
      <4>2. ~ ReceiveStart(b)
        BY <4>1 DEF ReceiveStart, Receive, StartupRecord
      <4>3. nodeState' = nodeState \/ EnterState(b, "Stopped")
        BY <1>6, <4>2 DEF NodeStep, ReceiveMessage, ReceiveStartup, ReceiveAllowed,
           ReceiveClusterStop, ReceiveReset, IgnoreGdbStep, PerformStep, FailStep,
           TakesGdbStep, Poll, PollStop, PollError, Die, ReportAt
      <4> QED BY <3>1, <4>3 DEF EnterState, TypeOK, NodeTypeOK
    <3> QED BY <1>6, <3>1, <3>2, <3>3, NodeStateStep
  <2> QED BY <2>1, <2>2, <2>3 DEF BarrierHolds
<1>7. CASE UNCHANGED vars
  BY <1>7 DEF vars, busVars, arbiterVars, nodeVars, BarrierHolds
<1> QED BY <1>1, <1>2, <1>3, <1>4, <1>5, <1>6, <1>7 DEF Next, ArbiterStep

-----------------------------------------------------------------------------
(* The phases of a GDB step. *)

\* Every command and every pass keeps gdb_step, until_cap and running in line.
LEMMA PhaseStep ==
    ASSUME TypeOK, TypeOK', StepPhaseConsistent, [Next]_vars
    PROVE  StepPhaseConsistent'
<1>1. ASSUME UNCHANGED <<gdb, running, untilCap>> PROVE StepPhaseConsistent'
  BY <1>1 DEF StepPhaseConsistent
<1>2. ASSUME NEW until \in UntilTimes \cup {NoLimit},
             HostStartBehind(until) \/ HostStart(until)
      PROVE  StepPhaseConsistent'
  BY <1>2 DEF HostStartBehind, HostStart, StepPhaseConsistent, NoStep
<1>3. CASE HostStopCluster \/ HostReset
  BY <1>3 DEF HostStopCluster, HostReset, StepPhaseConsistent, NoStep
<1>4. ASSUME NEW b \in Boards, HostStep(b) PROVE StepPhaseConsistent'
  BY <1>4 DEF HostStep, StepPhaseConsistent, WaitInsn
<1>5. CASE StepTimeSync
  <2>1. CASE SyncHostStop \/ SyncUntil
    <3>1. running' = FALSE /\ untilCap' = NoLimit /\ gdb' = NoStep
      BY <2>1 DEF SyncHostStop, SyncUntil, StopCluster
    <3> QED BY <3>1 DEF StepPhaseConsistent, NoStep
  <2>2. CASE SyncInsnDone
    <3>1. PICK b \in Boards : /\ Sync /\ untilCap' = ReportsAfter[b]
                              /\ gdb' = CatchUp(LastStop(n2a[b]))
      BY <2>2 DEF SyncInsnDone
    <3>2. ReportsAfter[b] \in Nat
      BY <3>1 DEF Sync, TypeOK, ArbiterTypeOK, Reports
    <3> QED BY <2>2, <3>1, <3>2 DEF SyncInsnDone, StepPhaseConsistent, CatchUp, NoLimit
  <2>3. CASE SyncTime
    BY <1>1, <2>3 DEF SyncTime
  <2> QED BY <1>5, <2>1, <2>2, <2>3 DEF StepTimeSync
<1>6. CASE RepublishStartup \/ AwaitReady \/ ReadyTimeout \/ HostShutdown
  BY <1>1, <1>6 DEF RepublishStartup, AwaitReady, ReadyTimeout, HostShutdown, StopChildren
<1>7. CASE UNCHANGED arbiterVars \/ UNCHANGED vars
  BY <1>1, <1>7 DEF vars, arbiterVars
<1> QED BY <1>2, <1>3, <1>4, <1>5, <1>6, <1>7 DEF Next, ArbiterStep, HostCommand

-----------------------------------------------------------------------------
(* ClusterInv is inductive.                                                *)

\* Nothing has run, nothing but the StartupRecords is in flight.
LEMMA InitInv == Init => ClusterInv
<1>1. SUFFICES ASSUME Init PROVE ClusterInv
  OBVIOUS
<1>2. TypeOK
  BY <1>1, InitTypes
<1>3. /\ reports = [b \in Boards |-> 0] /\ now = [b \in Boards |-> 0]
      /\ n2a = [b \in Boards |-> <<>>] /\ allowed = Margin
      /\ ceiling = [b \in Boards |-> NoLimit]
      /\ a2n = [b \in Boards |-> <<StartupRecord>>]
      /\ resetSlack = 0 /\ stepSlack = 0 /\ status.time = 0
  BY <1>1 DEF Init, ArbiterInit, NodeInit
<1>4. /\ stage = "await" /\ nodeState = [b \in Boards |-> "AwaitingStartup"]
      /\ peers = [b \in Boards |-> "AwaitingReady"]
      /\ gdb = NoStep /\ untilCap = NoLimit
  BY <1>1 DEF Init, ArbiterInit, NodeInit
<1>5. ReportsHonest
  BY <1>3 DEF ReportsHonest
<1>6. CeilingsSafe
  <2>1. \A b \in Boards : Reach(b) = Margin
    BY <1>3, MarginAssumption DEF Reach, MarginAssumption
  <2>2. StartupRecord \in SafeLimits
    BY MessageTypes DEF SafeLimits, StartupRecord
  <2>3. \A b \in Boards : a2n[b] \in Seq(SafeLimits)
    BY <1>3, <2>2
  <2>4. \A b \in Boards : allowed <= Reach(b)
    BY <1>3, <2>1, MarginAssumption DEF MarginAssumption
  <2>5. \A b, c \in Boards : ceiling[c] <= Reach(b)
    BY <1>3, <2>1, MarginAssumption DEF MarginAssumption, NoLimit
  <2> QED BY <2>3, <2>4, <2>5 DEF CeilingsSafe
<1>7. BarrierHolds
  <2>1. <<StartupRecord>> \in Seq({StartupRecord})
    OBVIOUS
  <2> QED BY <1>3, <1>4, <2>1 DEF BarrierHolds
<1>8. SkewBounded /\ StatusTimeSimulated
  BY <1>3, MarginAssumption DEF SkewBounded, StatusTimeSimulated, MarginAssumption
<1>9. StepPhaseConsistent
  BY <1>4 DEF StepPhaseConsistent, NoStep
<1> QED BY <1>2, <1>5, <1>6, <1>7, <1>8, <1>9 DEF ClusterInv

\* The time the host was shown stays one that is simulated.
LEMMA StatusStep ==
    ASSUME TypeOK, TypeOK', ReportsHonest, CeilingsSafe, StatusTimeSimulated, [Next]_vars
    PROVE  StatusTimeSimulated'
<1>1. /\ now \in [Boards -> Nat] /\ resetSlack \in Nat /\ status.time \in Nat
      /\ now' \in [Boards -> Nat] /\ resetSlack' \in Nat /\ status'.time \in Nat
  BY DEF TypeOK, ArbiterTypeOK, NodeTypeOK, Status
<1>2. (\A b \in Boards : now[b] <= now'[b]) /\ resetSlack <= resetSlack'
  BY ClocksGrow
<1>3. \A b \in Boards : status'.time <= now[b] + resetSlack
  <2>1. CASE StepTimeSync /\ UNCHANGED nodeVars
    BY <2>1, NextSafe, StatusShown
  <2>2. CASE status' = status
    BY <2>2 DEF StatusTimeSimulated
  <2>3. (StepTimeSync /\ UNCHANGED nodeVars) \/ status' = status
    BY DEF Next, ArbiterStep, RepublishStartup, AwaitReady, HostCommand, HostStartBehind,
       HostStart, HostStopCluster, HostReset, HostStep, TakeCommand, ReadyTimeout,
       HostShutdown, StopChildren, vars, arbiterVars
  <2> QED BY <2>1, <2>2, <2>3
<1>4. SUFFICES ASSUME NEW b \in Boards PROVE status'.time <= now'[b] + resetSlack'
  BY DEF StatusTimeSimulated
<1> QED BY <1>1, <1>2, <1>3

\* The invariant survives every step of every process.
LEMMA NextInv == ClusterInv /\ [Next]_vars => ClusterInv'
<1>1. SUFFICES ASSUME ClusterInv, [Next]_vars PROVE ClusterInv'
  OBVIOUS
<1>2. /\ TypeOK /\ ReportsHonest /\ CeilingsSafe /\ BarrierHolds
      /\ SkewBounded /\ StatusTimeSimulated /\ StepPhaseConsistent
  BY <1>1 DEF ClusterInv
<1>3. TypeOK'
  BY <1>1, <1>2, NextTypes
<1>4. ReportsHonest' /\ CeilingsSafe'
  BY <1>1, <1>2, <1>3, NextSafe
<1>5. BarrierHolds'
  BY <1>1, <1>2, BarrierStep
<1>6. SkewBounded'
  BY <1>1, <1>2, <1>3, StepRefines, SkewStep
<1>7. StatusTimeSimulated'
  BY <1>1, <1>2, <1>3, StatusStep
<1>8. StepPhaseConsistent'
  BY <1>1, <1>2, <1>3, PhaseStep
<1> QED BY <1>3, <1>4, <1>5, <1>6, <1>7, <1>8 DEF ClusterInv

\* The invariant holds throughout every execution of the cluster.
THEOREM ClusterInvariant == Spec => []ClusterInv
BY InitInv, NextInv, PTL DEF Spec

-----------------------------------------------------------------------------
(* What it says about the cluster.                                         *)

\* Conservative synchronisation: boards stay within `margin_ns` of each other, up
\* to the slack of Resets and GDB steps, whatever queues lose or nodes die.
THEOREM SkewStaysBounded == Spec => []SkewBounded
<1>1. ClusterInv => SkewBounded
  BY DEF ClusterInv
<1> QED BY <1>1, ClusterInvariant, PTL

\* write_status never shows the host a time that some board has not simulated,
\* up to what Resets have skipped.
THEOREM StatusNeverAhead == Spec => []StatusTimeSimulated
<1>1. ClusterInv => StatusTimeSimulated
  BY DEF ClusterInv
<1> QED BY <1>1, ClusterInvariant, PTL

\* await_ready: no board runs before every board has read its StartupRecord.
THEOREM BarrierTheorem == Spec => []NoRunBeforeBarrier
<1>1. ClusterInv => NoRunBeforeBarrier
  <2>1. SUFFICES ASSUME BarrierHolds, NEW a \in Boards, nodeState[a] = "Running",
                        NEW b \in Boards
                 PROVE  nodeState[b] # "AwaitingStartup"
    BY DEF ClusterInv, NoRunBeforeBarrier
  <2>2. stage \notin {"await", "failed"}
    BY <2>1 DEF BarrierHolds
  <2> QED BY <2>1, <2>2 DEF BarrierHolds
<1> QED BY <1>1, ClusterInvariant, PTL

\* The arbiter waits for an instruction only while it holds the cluster stopped,
\* catches up only under a cap, and forgets the cap when the cluster stops.
THEOREM PhasesConsistent == Spec => []StepPhaseConsistent
<1>1. ClusterInv => StepPhaseConsistent
  BY DEF ClusterInv
<1> QED BY <1>1, ClusterInvariant, PTL

\* A pass that ends a run at its cap has read, from every board, that it is there.
LEMMA CapStep ==
    ASSUME TypeOK, ReportsHonest, Next, running, ~ running', commands' = commands,
           Stoppers = {}
    PROVE  \A b \in Boards : now[b] + resetSlack >= untilCap
<1>1. commands \in Nat /\ now \in [Boards -> Nat] /\ resetSlack \in Nat
      /\ untilCap \in Nat \cup {NoLimit}
  BY DEF TypeOK, ArbiterTypeOK, NodeTypeOK
<1>2. ~ HostCommand
  <2>1. HostCommand => \E op : TakeCommand(op)
    BY DEF HostCommand, HostStartBehind, HostStart, HostStopCluster, HostReset, HostStep
  <2>2. (\E op : TakeCommand(op)) => commands' = commands + 1
    BY DEF TakeCommand
  <2> QED BY <1>1, <2>1, <2>2
<1>3. StepTimeSync
  BY <1>2 DEF Next, ArbiterStep, RepublishStartup, AwaitReady, ReadyTimeout, HostShutdown,
     StopChildren, arbiterVars
<1>4. SyncUntil
  BY <1>3 DEF StepTimeSync, SyncHostStop, SyncInsnDone, SyncTime
<1>5. untilCap # NoLimit /\ VirtualTime(ReportsAfter) >= untilCap
  BY <1>4 DEF SyncUntil, ReachedUntil
<1>6. ReportsAfter \in Reports
  BY ReportsAfterType DEF TypeOK, ArbiterTypeOK, BusTypeOK
<1>7. SUFFICES ASSUME NEW b \in Boards PROVE now[b] + resetSlack >= untilCap
  OBVIOUS
<1>8. VirtualTime(ReportsAfter) \in Nat /\ VirtualTime(ReportsAfter) <= ReportsAfter[b]
  BY <1>6, VirtualTimeIsMin
<1>9. ReportsAfter[b] \in Nat /\ ReportsAfter[b] <= now[b] + resetSlack
  BY <1>6, ReportsAfterHonest DEF Reports
<1> QED BY <1>1, <1>5, <1>8, <1>9

\* A run that the arbiter itself ends has simulated every board up to its cap.
THEOREM CapTheorem == Spec => CapReachedByAll
<1>1. ClusterInv /\ [Next]_vars =>
        [running /\ ~ running' /\ commands' = commands /\ Stoppers = {}
           => \A b \in Boards : now[b] + resetSlack >= untilCap]_vars
  BY CapStep DEF ClusterInv
<1> QED BY <1>1, ClusterInvariant, PTL DEF Spec, CapReachedByAll

\* The cluster with its queues, overflows, stale reports and failures implements
\* the abstract synchronisation of ConservativeSync.
THEOREM Implements == Spec => ConservativelySynchronised
<1>1. Init => Conservative!Init
  BY DEF Init, ArbiterInit, NodeInit, Conservative!Init
<1>2. ClusterInv /\ [Next]_vars => [Conservative!Next]_Conservative!vars
  <2>1. SUFFICES ASSUME ClusterInv, [Next]_vars
                 PROVE  [Conservative!Next]_Conservative!vars
    OBVIOUS
  <2>2. TypeOK /\ ReportsHonest /\ CeilingsSafe
    BY <2>1 DEF ClusterInv
  <2>3. TypeOK'
    BY <2>1, <2>2, NextTypes
  <2> QED BY <2>1, <2>2, <2>3, StepRefines
<1> QED BY <1>1, <1>2, ClusterInvariant, PTL DEF Spec, ConservativelySynchronised, Conservative!Spec


-----------------------------------------------------------------------------
(* Agreement of the arbiter and its nodes.  A queue that overflows may lose    *)
(* the very message that starts or stops a node, so this holds while no live   *)
(* node lets its queue fill.                                                   *)

\* No live node lets its a2n queue fill up, so no broadcast drops a message.
QueuesKeepUp == \A b \in Boards : alive[b] => Len(a2n[b]) < A2nCap

\* The messages that start or stop a node.
Turns == {"Start", "ClusterStop", "GdbStep"}

LastTurn(q, i) == q[i].type \in Turns /\ \A j \in DOMAIN q : j > i => q[j].type \notin Turns

\* A node in state st, once it has read q, runs exactly if run.
EndsAs(q, st, run) ==
    /\ \A i \in DOMAIN q : LastTurn(q, i) => (q[i].type = "Start" <=> run)
    /\ (\A i \in DOMAIN q : q[i].type \notin Turns) => (st = "Running" <=> run)

\* ViewsAgree for queues that are not empty: what a node will have read agrees with
\* the arbiter; before the session nothing runs and after it nobody lives.
AgreeInv ==
    /\ stage = "await" => ~ running /\ gdb = NoStep
    /\ stage \in {"failed", "exited"} => \A b \in Boards : ~ alive[b]
    /\ stage = "session" =>
          \A b \in Boards : alive[b] => EndsAs(a2n[b], nodeState[b], running)

\* A broadcast that ends in a turn decides how every node ends.
LEMMA EndsWithTurn ==
    ASSUME NEW q \in Seq(ControlToNode), NEW msgs \in Seq(ControlToNode), NEW st, NEW run,
           msgs # <<>>, msgs[Len(msgs)].type \in Turns,
           msgs[Len(msgs)].type = "Start" <=> run
    PROVE  EndsAs(q \o msgs, st, run)
<1> DEFINE s == q \o msgs
<1>1. s \in Seq(ControlToNode) /\ Len(msgs) \in Nat \ {0} /\ Len(s) = Len(q) + Len(msgs)
  OBVIOUS
<1>2. Len(s) \in DOMAIN s /\ s[Len(s)] = msgs[Len(msgs)]
  BY <1>1
<1>3. ASSUME NEW i \in DOMAIN s, LastTurn(s, i) PROVE i = Len(s)
  <2>1. ~ (Len(s) > i)
    BY <1>2, <1>3 DEF LastTurn
  <2> QED BY <1>1, <2>1
<1> QED BY <1>2, <1>3 DEF EndsAs

\* A broadcast without turns changes nothing for a node.
LEMMA EndsWithoutTurn ==
    ASSUME NEW q \in Seq(ControlToNode), NEW msgs \in Seq(ControlToNode), NEW st, NEW run,
           \A i \in DOMAIN msgs : msgs[i].type \notin Turns,
           EndsAs(q, st, run)
    PROVE  EndsAs(q \o msgs, st, run)
<1> DEFINE s == q \o msgs
<1>1. s \in Seq(ControlToNode) /\ Len(s) = Len(q) + Len(msgs)
  OBVIOUS
<1>2. \A i \in DOMAIN q : i \in DOMAIN s /\ s[i] = q[i]
  BY <1>1
<1>3. ASSUME NEW i \in DOMAIN s, i \notin DOMAIN q PROVE s[i].type \notin Turns
  <2>1. i - Len(q) \in DOMAIN msgs /\ s[i] = msgs[i - Len(q)]
    BY <1>1, <1>3
  <2> QED BY <2>1
<1>4. ASSUME NEW i \in DOMAIN s, LastTurn(s, i) PROVE s[i].type = "Start" <=> run
  <2>1. i \in DOMAIN q
    BY <1>3, <1>4 DEF LastTurn
  <2>2. LastTurn(q, i)
    BY <1>2, <1>4, <2>1 DEF LastTurn
  <2> QED BY <1>2, <2>1, <2>2 DEF EndsAs
<1>5. ASSUME \A i \in DOMAIN s : s[i].type \notin Turns PROVE st = "Running" <=> run
  <2>1. \A i \in DOMAIN q : q[i].type \notin Turns
    BY <1>2, <1>5
  <2> QED BY <2>1 DEF EndsAs
<1> QED BY <1>4, <1>5 DEF EndsAs

\* A node that reads a message ends as it would have, if it enters Running at a
\* Start, leaves it at a stop or a step, and keeps its state at anything else.
LEMMA EndsAfterRead ==
    ASSUME NEW q \in Seq(ControlToNode), q # <<>>, NEW st, NEW st1, NEW run,
           EndsAs(q, st, run),
           IF Head(q).type \in Turns THEN st1 = "Running" <=> Head(q).type = "Start"
           ELSE st1 = "Running" <=> st = "Running"
    PROVE  EndsAs(Tail(q), st1, run)
<1> DEFINE t == Tail(q)
<1>1. t \in Seq(ControlToNode) /\ Len(t) = Len(q) - 1 /\ Len(q) \in Nat \ {0}
  OBVIOUS
<1>2. \A i \in DOMAIN t : i + 1 \in DOMAIN q /\ t[i] = q[i + 1]
  BY <1>1
<1>3. \A j \in DOMAIN q : j > 1 => j - 1 \in DOMAIN t /\ q[j] = t[j - 1]
  BY <1>1
<1>4. 1 \in DOMAIN q /\ Head(q) = q[1]
  BY <1>1
<1> HIDE DEF t
<1>5. ASSUME NEW i \in DOMAIN t, LastTurn(t, i) PROVE t[i].type = "Start" <=> run
  <2>1. i \in Nat /\ i + 1 \in DOMAIN q /\ t[i] = q[i + 1]
    BY <1>1, <1>2
  <2>2. ASSUME NEW j \in DOMAIN q, j > i + 1 PROVE q[j].type \notin Turns
    <3>1. j \in Nat /\ j > 1 /\ j - 1 > i
      BY <1>1, <2>1, <2>2
    <3> QED BY <1>3, <1>5, <3>1 DEF LastTurn
  <2>3. LastTurn(q, i + 1)
    BY <1>5, <2>1, <2>2 DEF LastTurn
  <2> QED BY <2>1, <2>3 DEF EndsAs
<1>6. ASSUME \A i \in DOMAIN t : t[i].type \notin Turns PROVE st1 = "Running" <=> run
  <2>1. \A j \in DOMAIN q : j > 1 => q[j].type \notin Turns
    BY <1>3, <1>6
  <2>2. CASE Head(q).type \in Turns
    <3>1. LastTurn(q, 1)
      BY <1>4, <2>1, <2>2 DEF LastTurn
    <3> QED BY <1>4, <2>2, <3>1 DEF EndsAs
  <2>3. CASE Head(q).type \notin Turns
    <3>1. \A j \in DOMAIN q : q[j].type \notin Turns
      <4>1. \A j \in DOMAIN q : j = 1 \/ j > 1
        OBVIOUS
      <4> QED BY <1>4, <2>1, <2>3, <4>1
    <3> QED BY <2>3, <3>1 DEF EndsAs
  <2> QED BY <2>2, <2>3
<1> QED BY <1>5, <1>6 DEF EndsAs, t

\* A queue that has room after a broadcast has all of it.
LEMMA BroadcastWhole ==
    ASSUME TypeOK, NEW msgs \in Seq(ControlToNode), Broadcast(msgs), NEW b \in Boards,
           Len(a2n'[b]) < A2nCap
    PROVE  a2n'[b] = a2n[b] \o msgs
<1> DEFINE s == a2n[b] \o msgs
<1>1. s \in Seq(ControlToNode) /\ A2nCap \in Nat \ {0}
  BY BusAssumption DEF TypeOK, BusTypeOK, BusAssumption
<1>2. a2n'[b] = KeepLast(s, A2nCap)
  BY DEF Broadcast
<1> HIDE DEF s
<1>3. Len(s) <= A2nCap
  <2>1. SUFFICES ASSUME ~ Len(s) <= A2nCap PROVE FALSE
    OBVIOUS
  <2>2. a2n'[b] = SubSeq(s, Len(s) - A2nCap + 1, Len(s))
    BY <1>2, <2>1 DEF KeepLast
  <2>3. Len(a2n'[b]) = A2nCap
    BY <1>1, <2>1, <2>2
  <2> QED BY <1>1, <2>3
<1>4. a2n'[b] = s
  BY <1>2, <1>3 DEF KeepLast
<1> QED BY <1>4 DEF s

\* A broadcast keeps the agreement if it ends in a turn the arbiter has made, or
\* if it has no turn and the arbiter has made none.
LEMMA BroadcastAgrees ==
    ASSUME TypeOK, QueuesKeepUp', NEW msgs \in Seq(ControlToNode), Broadcast(msgs),
           UNCHANGED nodeVars,
           \/ /\ msgs # <<>> /\ msgs[Len(msgs)].type \in Turns
              /\ msgs[Len(msgs)].type = "Start" <=> running'
           \/ /\ \A i \in DOMAIN msgs : msgs[i].type \notin Turns
              /\ running' = running
              /\ \A b \in Boards : alive[b] => EndsAs(a2n[b], nodeState[b], running)
    PROVE  \A b \in Boards : alive'[b] => EndsAs(a2n'[b], nodeState'[b], running')
<1>1. SUFFICES ASSUME NEW b \in Boards, alive[b]
               PROVE  EndsAs(a2n'[b], nodeState[b], running')
  BY DEF nodeVars
<1>2. a2n[b] \in Seq(ControlToNode)
  BY DEF TypeOK, BusTypeOK
<1>3. Len(a2n'[b]) < A2nCap
  BY <1>1 DEF QueuesKeepUp, nodeVars
<1>4. a2n'[b] = a2n[b] \o msgs
  BY <1>3, BroadcastWhole
<1> QED BY <1>1, <1>2, <1>4, EndsWithTurn, EndsWithoutTurn

\* The host commands broadcast what they do to the cluster.
LEMMA HostCommandAgrees ==
    ASSUME TypeOK, AgreeInv, QueuesKeepUp', HostCommand, UNCHANGED nodeVars
    PROVE  AgreeInv'
<1>1. stage = "session" /\ stage' = "session"
  BY DEF HostCommand, HostStartBehind, HostStart, HostStopCluster, HostReset, HostStep,
     TakeCommand
<1>2. \A b \in Boards : alive[b] => EndsAs(a2n[b], nodeState[b], running)
  BY <1>1 DEF AgreeInv
<1>3. \A b \in Boards : alive'[b] => EndsAs(a2n'[b], nodeState'[b], running')
  <2>1. ASSUME NEW until \in UntilTimes \cup {NoLimit}, HostStartBehind(until), running
        PROVE  \A b \in Boards : alive'[b] => EndsAs(a2n'[b], nodeState'[b], running')
    <3> DEFINE msgs == <<ClusterStop("Until")>>
    <3>1. Broadcast(msgs) /\ running' = FALSE
      BY <2>1 DEF HostStartBehind
    <3>2. msgs \in Seq(ControlToNode) /\ msgs # <<>> /\ msgs[Len(msgs)].type = "ClusterStop"
      BY MessageTypes, ReasonTypes DEF ClusterStop
    <3> HIDE DEF msgs
    <3> QED BY <3>1, <3>2, BroadcastAgrees DEF Turns
  <2>2. ASSUME NEW until \in UntilTimes \cup {NoLimit}, HostStartBehind(until), ~ running
        PROVE  \A b \in Boards : alive'[b] => EndsAs(a2n'[b], nodeState'[b], running')
    <3>1. a2n' = a2n /\ running' = FALSE /\ running = FALSE
      BY <2>2 DEF HostStartBehind, TypeOK, ArbiterTypeOK
    <3> QED BY <1>2, <3>1 DEF nodeVars
  <2>3. ASSUME NEW until \in UntilTimes \cup {NoLimit}, HostStart(until)
        PROVE  \A b \in Boards : alive'[b] => EndsAs(a2n'[b], nodeState'[b], running')
    <3> DEFINE msgs == <<Start(allowed')>>
    <3>1. Broadcast(msgs) /\ running' = TRUE
      BY <2>3 DEF HostStart
    <3>2. allowed' \in Nat
      BY HostCommandTypes DEF TypeOK, ArbiterTypeOK
    <3>3. msgs \in Seq(ControlToNode) /\ msgs # <<>> /\ msgs[Len(msgs)].type = "Start"
      BY <3>2, MessageTypes DEF Start
    <3> HIDE DEF msgs
    <3> QED BY <3>1, <3>3, BroadcastAgrees DEF Turns
  <2>4. ASSUME HostStopCluster
        PROVE  \A b \in Boards : alive'[b] => EndsAs(a2n'[b], nodeState'[b], running')
    <3> DEFINE msgs == <<ClusterStop("ExternalStop")>>
    <3>1. Broadcast(msgs) /\ running' = FALSE
      BY <2>4 DEF HostStopCluster
    <3>2. msgs \in Seq(ControlToNode) /\ msgs # <<>> /\ msgs[Len(msgs)].type = "ClusterStop"
      BY MessageTypes, ReasonTypes DEF ClusterStop
    <3> HIDE DEF msgs
    <3> QED BY <3>1, <3>2, BroadcastAgrees DEF Turns
  <2>5. ASSUME HostReset
        PROVE  \A b \in Boards : alive'[b] => EndsAs(a2n'[b], nodeState'[b], running')
    <3> DEFINE msgs == <<ClusterStop("ExternalStop"), Reset, Start(allowed')>>
    <3>1. Broadcast(msgs) /\ running' = TRUE
      BY <2>5 DEF HostReset
    <3>2. allowed' \in Nat
      BY HostCommandTypes DEF TypeOK, ArbiterTypeOK
    <3>3. msgs \in Seq(ControlToNode) /\ msgs # <<>> /\ msgs[Len(msgs)].type = "Start"
      BY <3>2, MessageTypes, ReasonTypes DEF Start
    <3> HIDE DEF msgs
    <3> QED BY <3>1, <3>3, BroadcastAgrees DEF Turns
  <2>6. ASSUME NEW c \in Boards, HostStep(c)
        PROVE  \A b \in Boards : alive'[b] => EndsAs(a2n'[b], nodeState'[b], running')
    <3> DEFINE msgs == IF running THEN <<ClusterStop("ExternalStop"), GdbStep(c)>>
                       ELSE <<GdbStep(c)>>
    <3>1. Broadcast(msgs) /\ running' = FALSE
      BY <2>6 DEF HostStep
    <3>2. GdbStep(c) \in ControlToNode /\ ClusterStop("ExternalStop") \in ControlToNode
      BY MessageTypes, ReasonTypes
    <3>3. msgs \in Seq(ControlToNode) /\ msgs # <<>> /\ msgs[Len(msgs)].type = "GdbStep"
      BY <3>2 DEF GdbStep
    <3> HIDE DEF msgs
    <3> QED BY <3>1, <3>3, BroadcastAgrees DEF Turns
  <2> QED BY <2>1, <2>2, <2>3, <2>4, <2>5, <2>6 DEF HostCommand
<1> QED BY <1>1, <1>3 DEF AgreeInv

\* A pass of step_time_sync broadcasts a stop or a start exactly if it stops or
\* starts the cluster.
LEMMA StepTimeSyncAgrees ==
    ASSUME TypeOK, AgreeInv, QueuesKeepUp', StepTimeSync, UNCHANGED nodeVars
    PROVE  AgreeInv'
<1>1. stage = "session" /\ stage' = "session"
  BY DEF StepTimeSync, SyncHostStop, SyncInsnDone, SyncTime, SyncUntil, Sync
<1>2. \A b \in Boards : alive[b] => EndsAs(a2n[b], nodeState[b], running)
  BY <1>1 DEF AgreeInv
<1>3. allowed' \in Nat
  BY StepTimeSyncTypes DEF TypeOK, ArbiterTypeOK
<1>4. \A b \in Boards : alive'[b] => EndsAs(a2n'[b], nodeState'[b], running')
  <2>1. CASE SyncHostStop
    <3>1. PICK c \in Stoppers : /\ StopCluster(LastStop(n2a[c]))
                                /\ Broadcast(<<ClusterStop(LastStop(n2a[c]))>>)
      BY <2>1 DEF SyncHostStop
    <3> DEFINE r == LastStop(n2a[c])
               msgs == <<ClusterStop(r)>>
    <3>2. r \in StopReason
      BY <3>1, LastStopRead DEF Stoppers, TypeOK, BusTypeOK
    <3>3. Broadcast(msgs) /\ running' = FALSE
      BY <3>1 DEF StopCluster
    <3> HIDE DEF r
    <3>4. msgs \in Seq(ControlToNode) /\ msgs # <<>> /\ msgs[Len(msgs)].type = "ClusterStop"
      BY <3>2, MessageTypes DEF ClusterStop
    <3> HIDE DEF msgs
    <3> QED BY <3>3, <3>4, BroadcastAgrees DEF Turns
  <2>2. CASE SyncInsnDone
    <3> DEFINE msgs == <<Start(allowed')>>
    <3>1. Broadcast(msgs) /\ running' = TRUE
      BY <2>2 DEF SyncInsnDone
    <3>2. msgs \in Seq(ControlToNode) /\ msgs # <<>> /\ msgs[Len(msgs)].type = "Start"
      BY <1>3, MessageTypes DEF Start
    <3> HIDE DEF msgs
    <3> QED BY <3>1, <3>2, BroadcastAgrees DEF Turns
  <2>3. CASE SyncTime
    <3>1. Broadcast(AllowedMsg) /\ running' = running /\ allowed' = NewAllowed
      BY <2>3 DEF SyncTime
    <3>2. AllowedMsg \in Seq(ControlToNode)
          /\ \A i \in DOMAIN AllowedMsg : AllowedMsg[i].type = "Allowed"
      BY <1>3, <3>1, MessageTypes DEF AllowedMsg, Allowed
    <3>3. \A i \in DOMAIN AllowedMsg : AllowedMsg[i].type \notin Turns
      BY <3>2 DEF Turns
    <3> QED BY <1>2, <3>1, <3>2, <3>3, BroadcastAgrees
  <2>4. CASE SyncUntil
    <3> DEFINE r == IF gdb.phase = "CatchUp" THEN gdb.reason ELSE "Until"
               msgs == AllowedMsg \o <<ClusterStop(r)>>
    <3>1. Broadcast(msgs) /\ running' = FALSE /\ allowed' = NewAllowed
      BY <2>4 DEF SyncUntil, StopCluster
    <3>2. r \in StopReason
      BY EndReasonType DEF TypeOK, ArbiterTypeOK
    <3> HIDE DEF r
    <3>3. AllowedMsg \in Seq(ControlToNode)
      BY <1>3, <3>1, MessageTypes DEF AllowedMsg
    <3>4. ClusterStop(r) \in ControlToNode /\ ClusterStop(r).type = "ClusterStop"
      BY <3>2, MessageTypes DEF ClusterStop
    <3> DEFINE stop == ClusterStop(r)
    <3> HIDE DEF stop
    <3>5. AllowedMsg \o <<stop>> \in Seq(ControlToNode) /\ AllowedMsg \o <<stop>> # <<>>
          /\ (AllowedMsg \o <<stop>>)[Len(AllowedMsg \o <<stop>>)] = stop
      BY <3>3, <3>4 DEF stop
    <3>6. msgs \in Seq(ControlToNode) /\ msgs # <<>> /\ msgs[Len(msgs)].type = "ClusterStop"
      BY <3>4, <3>5 DEF stop
    <3> HIDE DEF msgs
    <3> QED BY <3>1, <3>6, BroadcastAgrees DEF Turns
  <2> QED BY <2>1, <2>2, <2>3, <2>4 DEF StepTimeSync
<1> QED BY <1>1, <1>4 DEF AgreeInv

\* A node that reads a message, polls or fails ends as it would have.
LEMMA NodeStepAgrees ==
    ASSUME TypeOK, BarrierHolds, AgreeInv, NEW b \in Boards, NodeStep(b), UNCHANGED arbiterVars
    PROVE  AgreeInv'
<1>1. /\ nodeState \in [Boards -> NodeState] /\ alive \in [Boards -> BOOLEAN]
      /\ a2n \in [Boards -> Seq(ControlToNode)]
  BY DEF TypeOK, BusTypeOK, NodeTypeOK
<1>2. UNCHANGED <<stage, running, gdb>>
  BY DEF arbiterVars
<1>3. alive[b] /\ \A c \in Boards : alive'[c] => alive[c]
  <2>1. alive[b] /\ (alive' = alive \/ alive' = [alive EXCEPT ![b] = FALSE])
    BY DEF NodeStep, ReceiveMessage, ReceiveStartup, ReceiveStart, ReceiveAllowed,
       ReceiveClusterStop, ReceiveReset, IgnoreGdbStep, PerformStep, FailStep, TakesGdbStep,
       Receive, Poll, PollStop, PollError, Die, CanPoll, ReportAt
  <2> QED BY <1>1, <2>1
<1>4. ASSUME stage = "session", NEW c \in Boards, alive'[c]
      PROVE  EndsAs(a2n'[c], nodeState'[c], running)
  <2>1. EndsAs(a2n[c], nodeState[c], running)
    BY <1>3, <1>4 DEF AgreeInv
  <2>2. CASE c # b
    BY <2>1, <2>2, NodeStateStep
  <2>3. CASE c = b /\ ReceiveMessage(b)
    <3>1. nodeState[b] # "AwaitingStartup"
      BY <1>4 DEF BarrierHolds
    <3>2. a2n[b] # <<>> /\ a2n'[b] = Tail(a2n[b])
      <4>1. a2n[b] # <<>> /\ a2n' = [a2n EXCEPT ![b] = Tail(@)]
        BY <2>3 DEF ReceiveMessage, ReceiveStartup, ReceiveStart, ReceiveAllowed,
           ReceiveClusterStop, ReceiveReset, IgnoreGdbStep, PerformStep, FailStep,
           TakesGdbStep, Receive
      <4> QED BY <1>1, <4>1
    <3> DEFINE m == Head(a2n[b])
    <3>3. CASE ReceiveStart(b)
      <4>1. m.type = "Start" /\ nodeState'[b] = "Running"
        BY <1>1, <3>1, <3>3 DEF ReceiveStart, Receive, EnterState
      <4> QED BY <1>1, <2>1, <2>3, <3>2, <4>1, EndsAfterRead DEF Turns
    <3>4. CASE ReceiveClusterStop(b) \/ IgnoreGdbStep(b) \/ PerformStep(b) \/ FailStep(b)
      <4>1. m.type \in {"ClusterStop", "GdbStep"} /\ nodeState'[b] = "Stopped"
        BY <1>1, <3>1, <3>4 DEF ReceiveClusterStop, IgnoreGdbStep, PerformStep, FailStep,
           TakesGdbStep, Receive, EnterState
      <4> QED BY <1>1, <2>1, <2>3, <3>2, <4>1, EndsAfterRead DEF Turns
    <3>5. CASE ReceiveStartup(b) \/ ReceiveAllowed(b) \/ ReceiveReset(b)
      <4>1. /\ m.type \in {"StartupRecord", "Allowed", "Reset"}
            /\ nodeState'[b] = "Running" <=> nodeState[b] = "Running"
        BY <1>1, <3>1, <3>5 DEF ReceiveStartup, ReceiveAllowed, ReceiveReset, Receive,
           EnterState
      <4> QED BY <1>1, <2>1, <2>3, <3>2, <4>1, EndsAfterRead DEF Turns
    <3> QED BY <2>3, <3>3, <3>4, <3>5 DEF ReceiveMessage
  <2>4. CASE c = b /\ ~ ReceiveMessage(b)
    <3>1. a2n' = a2n /\ nodeState' = nodeState
      BY <2>4 DEF NodeStep, Poll, PollStop, PollError, Die, ReportAt, busVars
    <3> QED BY <2>1, <3>1
  <2> QED BY <2>2, <2>3, <2>4
<1> QED BY <1>2, <1>3, <1>4 DEF AgreeInv

\* The session opens with every node stopped and nothing but StartupRecords on
\* its way, and nobody lives after it.
LEMMA StageAgrees ==
    ASSUME TypeOK, BarrierHolds, AgreeInv,
           \/ (RepublishStartup \/ AwaitReady) /\ UNCHANGED nodeVars
           \/ ReadyTimeout \/ HostShutdown
    PROVE  AgreeInv'
<1>1. CASE RepublishStartup /\ UNCHANGED nodeVars
  BY <1>1 DEF RepublishStartup, nodeVars, AgreeInv
<1>2. CASE AwaitReady /\ UNCHANGED nodeVars
  <2>1. /\ stage = "await" /\ stage' \in {"await", "session"}
        /\ UNCHANGED <<a2n, running, gdb, nodeState>>
    BY <1>2 DEF AwaitReady, nodeVars
  <2>2. ~ running /\ gdb = NoStep
    BY <2>1 DEF AgreeInv
  <2>3. ASSUME NEW b \in Boards PROVE EndsAs(a2n[b], nodeState[b], running)
    <3>1. a2n[b] \in Seq({StartupRecord}) /\ nodeState[b] # "Running"
      BY <2>1 DEF BarrierHolds
    <3>2. \A i \in DOMAIN a2n[b] : a2n[b][i] = StartupRecord
      BY <3>1
    <3>3. \A i \in DOMAIN a2n[b] : a2n[b][i].type \notin Turns
      BY <3>2 DEF StartupRecord, Turns
    <3> QED BY <2>2, <3>1, <3>3 DEF EndsAs, LastTurn
  <2> QED BY <2>1, <2>2, <2>3 DEF AgreeInv
<1>3. CASE ReadyTimeout \/ HostShutdown
  BY <1>3 DEF ReadyTimeout, HostShutdown, StopChildren, AgreeInv
<1> QED BY <1>1, <1>2, <1>3

\* The agreement survives every step that fills no live node's queue.
LEMMA AgreeStep ==
    ASSUME ClusterInv, AgreeInv, QueuesKeepUp', [Next]_vars
    PROVE  AgreeInv'
<1>1. TypeOK /\ BarrierHolds
  BY DEF ClusterInv
<1>2. CASE ArbiterStep
  BY <1>1, <1>2, StageAgrees, HostCommandAgrees, StepTimeSyncAgrees DEF ArbiterStep
<1>3. CASE ReadyTimeout \/ HostShutdown
  BY <1>1, <1>3, StageAgrees
<1>4. ASSUME NEW b \in Boards, NodeStep(b), UNCHANGED arbiterVars PROVE AgreeInv'
  BY <1>1, <1>4, NodeStepAgrees
<1>5. CASE UNCHANGED vars
  BY <1>5 DEF vars, busVars, arbiterVars, nodeVars, AgreeInv
<1> QED BY <1>2, <1>3, <1>4, <1>5 DEF Next

\* Before the session nothing runs.
LEMMA InitAgrees == Init => AgreeInv
BY DEF Init, ArbiterInit, AgreeInv

\* broadcast_cluster_stop, Start, Reset and GdbStep leave nobody behind: while no
\* live node lets its queue fill, every live node that has read its messages runs
\* exactly if the arbiter says the cluster runs.
THEOREM ViewsStayTogether == Spec /\ []QueuesKeepUp => []ViewsAgree
<1>1. ClusterInv /\ AgreeInv /\ QueuesKeepUp' /\ [Next]_vars => AgreeInv'
  BY AgreeStep
<1>2. AgreeInv => ViewsAgree
  BY DEF AgreeInv, ViewsAgree, EndsAs
<1> QED BY <1>1, <1>2, InitAgrees, ClusterInvariant, PTL DEF Spec

\* While the arbiter waits for an instruction the cluster is stopped, and so is
\* every node that has caught up with its queue.
LEMMA OthersStandStill ==
    ASSUME ClusterInv, AgreeInv, Next, NEW a \in Boards, NEW b \in Boards,
           gdb = WaitInsn(b), gdb' = gdb, a # b, a2n[a] = <<>>
    PROVE  now'[a] = now[a]
<1>1. /\ now \in [Boards -> Nat] /\ alive \in [Boards -> BOOLEAN]
      /\ stage \in {"await", "session", "failed", "exited"}
  BY DEF ClusterInv, TypeOK, NodeTypeOK, ArbiterTypeOK
<1>2. ~ running /\ gdb # NoStep
  BY DEF ClusterInv, StepPhaseConsistent, WaitInsn, NoStep
<1>3. ~ alive[a] \/ nodeState[a] # "Running"
  BY <1>1, <1>2 DEF AgreeInv, EndsAs
<1>4. ASSUME NEW c \in Boards, NodeStep(c) PROVE now'[a] = now[a]
  <2>1. now' = now \/ \E t : now' = [now EXCEPT ![c] = t]
    BY <1>4 DEF NodeStep, ReceiveMessage, ReceiveStartup, ReceiveStart, ReceiveAllowed,
       ReceiveClusterStop, ReceiveReset, IgnoreGdbStep, PerformStep, FailStep, TakesGdbStep,
       Poll, PollStop, PollError, Die, ReportAt
  <2>2. CASE c # a
    BY <1>1, <2>1, <2>2
  <2>3. CASE c = a
    <3>1. ~ ReceiveMessage(a) /\ ~ CanPoll(a)
      BY <1>3 DEF ReceiveMessage, ReceiveStartup, ReceiveStart, ReceiveAllowed,
         ReceiveClusterStop, ReceiveReset, IgnoreGdbStep, PerformStep, FailStep,
         TakesGdbStep, Receive, CanPoll
    <3> QED BY <1>4, <2>3, <3>1 DEF NodeStep, Poll, PollStop, PollError, Die
  <2> QED BY <2>2, <2>3
<1>5. (\E c \in Boards : NodeStep(c)) \/ now' = now
  BY DEF Next, ArbiterStep, ReadyTimeout, HostShutdown, StopChildren, nodeVars
<1> QED BY <1>4, <1>5

\* apply_gdb_step: while the arbiter waits for the instruction of one board, every
\* other board that has read what was sent to it stands still, as long as no live
\* node lets its queue fill.
THEOREM OneBoardSteps == Spec /\ []QueuesKeepUp => OnlySteppedMoves
<1>1. ClusterInv /\ AgreeInv /\ [Next]_vars =>
        [\A a, b \in Boards :
           gdb = WaitInsn(b) /\ gdb' = gdb /\ a # b /\ a2n[a] = <<>>
             => now'[a] = now[a]]_vars
  BY OthersStandStill
<1>2. ClusterInv /\ AgreeInv /\ QueuesKeepUp' /\ [Next]_vars => AgreeInv'
  BY AgreeStep
<1> QED BY <1>1, <1>2, InitAgrees, ClusterInvariant, PTL DEF Spec, OnlySteppedMoves


-----------------------------------------------------------------------------
(* The time the host is shown, without Resets.                                 *)

\* The TimeReports of q, oldest first, never go back and lie between lo and hi.
InTimeOrder(q, lo, hi) ==
    \A i \in TimesIn(q) :
        /\ lo <= q[i].at /\ q[i].at <= hi
        /\ \A j \in TimesIn(q) : j > i => q[i].at <= q[j].at

\* What write_status shows is what the reports read so far say, and what is still
\* in flight lies between those and the clocks.
StatusInv ==
    /\ status.time = VirtualTime(reports)
    /\ \A b \in Boards : reports[b] <= now[b] /\ InTimeOrder(n2a[b], reports[b], now[b])

\* The last report of a queue bounds the others, and so does what it is read over.
LEMMA TimesRead ==
    ASSUME NEW q \in Seq(ControlToArbiter), NEW lo, NEW hi, InTimeOrder(q, lo, hi),
           TimesIn(q) # {}
    PROVE  LET i == Max(TimesIn(q)) IN lo <= q[i].at /\ q[i].at <= hi
<1>1. TimesIn(q) \in SUBSET (1..Len(q)) /\ Len(q) \in Nat
  BY DEF TimesIn
<1>2. Max(TimesIn(q)) \in TimesIn(q)
  BY <1>1, MaxOfPositions
<1> QED BY <1>2 DEF InTimeOrder

\* A queue that overflows keeps a tail of what was sent.
LEMMA KeepLastIsTail ==
    ASSUME NEW M, NEW s \in Seq(M), NEW cap \in Nat
    PROVE  \E d \in 0..Len(s) :
              /\ Len(KeepLast(s, cap)) = Len(s) - d
              /\ \A i \in 1..(Len(s) - d) : KeepLast(s, cap)[i] = s[i + d]
<1>1. Len(s) \in Nat
  OBVIOUS
<1>2. CASE Len(s) <= cap
  <2>1. KeepLast(s, cap) = s
    BY <1>2 DEF KeepLast
  <2>2. /\ 0 \in 0..Len(s) /\ Len(KeepLast(s, cap)) = Len(s) - 0
        /\ \A i \in 1..(Len(s) - 0) : KeepLast(s, cap)[i] = s[i + 0]
    BY <1>1, <2>1
  <2> QED BY <2>2
<1>3. CASE ~ Len(s) <= cap
  <2> DEFINE d == Len(s) - cap
  <2>1. KeepLast(s, cap) = SubSeq(s, d + 1, Len(s)) /\ d \in 0..Len(s) /\ d \in Nat
    BY <1>1, <1>3 DEF KeepLast
  <2> HIDE DEF d
  <2>2. /\ Len(SubSeq(s, d + 1, Len(s))) = Len(s) - d
        /\ \A i \in 1..(Len(s) - d) : SubSeq(s, d + 1, Len(s))[i] = s[i + d]
    BY <1>1, <2>1
  <2> QED BY <2>1, <2>2
<1> QED BY <1>2, <1>3

\* A node that publishes reports of its clock, which has not gone back, keeps its
\* reports in order.
LEMMA TimesSent ==
    ASSUME NEW q \in Seq(ControlToArbiter), NEW msgs \in Seq(ControlToArbiter),
           NEW lo \in Nat, NEW hi \in Nat, NEW t \in Nat, lo <= hi, hi <= t,
           InTimeOrder(q, lo, hi), \A i \in TimesIn(msgs) : msgs[i].at = t,
           NEW cap \in Nat
    PROVE  InTimeOrder(KeepLast(q \o msgs, cap), lo, t)
<1> DEFINE s == q \o msgs
<1>1. s \in Seq(ControlToArbiter) /\ Len(s) = Len(q) + Len(msgs) /\ Len(q) \in Nat
      /\ Len(msgs) \in Nat
  OBVIOUS
<1>2. \A i \in DOMAIN q : s[i] = q[i]
  OBVIOUS
<1>3. \A i \in DOMAIN s : i \in DOMAIN q \/ (i - Len(q) \in DOMAIN msgs
                                              /\ s[i] = msgs[i - Len(q)] /\ i > Len(q))
  <2>1. SUFFICES ASSUME NEW i \in DOMAIN s, i \notin DOMAIN q
                 PROVE  i - Len(q) \in DOMAIN msgs /\ s[i] = msgs[i - Len(q)] /\ i > Len(q)
    OBVIOUS
  <2>2. i \in 1..(Len(q) + Len(msgs)) /\ ~ (i \in 1..Len(q))
    BY <1>1, <2>1
  <2>3. i > Len(q) /\ i - Len(q) \in DOMAIN msgs
    BY <1>1, <2>2
  <2> QED BY <2>3
<1>4. PICK d \in 0..Len(s) :
              /\ Len(KeepLast(s, cap)) = Len(s) - d
              /\ \A i \in 1..(Len(s) - d) : KeepLast(s, cap)[i] = s[i + d]
  BY <1>1, KeepLastIsTail
<1> DEFINE k == KeepLast(s, cap)
<1>5. k \in Seq(ControlToArbiter)
  BY <1>1, KeepLastInSeq
<1> HIDE DEF s
<1>6. \A i \in DOMAIN s : s[i] \in ControlToArbiter
  BY <1>1
<1>7. \A i \in TimesIn(s) : /\ i \in DOMAIN s /\ i \in Nat /\ s[i].at \in Nat
                            /\ \/ i \in TimesIn(q) /\ s[i] = q[i]
                               \/ i > Len(q) /\ s[i].at = t
  <2>1. SUFFICES ASSUME NEW i \in TimesIn(s)
                 PROVE  /\ i \in DOMAIN s /\ i \in Nat /\ s[i].at \in Nat
                        /\ \/ i \in TimesIn(q) /\ s[i] = q[i]
                           \/ i > Len(q) /\ s[i].at = t
    OBVIOUS
  <2>2. i \in DOMAIN s /\ i \in Nat /\ s[i].type = "TimeReport"
    BY <1>1 DEF TimesIn
  <2>3. s[i].at \in Nat
    BY <1>6, <2>2 DEF ControlToArbiter
  <2>4. CASE i \in DOMAIN q
    <3>1. i \in TimesIn(q) /\ s[i] = q[i]
      BY <1>2, <2>2, <2>4 DEF TimesIn
    <3> QED BY <2>2, <2>3, <3>1
  <2>5. CASE i \notin DOMAIN q
    <3>1. i - Len(q) \in TimesIn(msgs) /\ s[i] = msgs[i - Len(q)] /\ i > Len(q)
      BY <1>3, <2>2, <2>5 DEF TimesIn
    <3> QED BY <2>2, <2>3, <3>1
  <2> QED BY <2>4, <2>5
<1>8. \A i \in TimesIn(q) : i <= Len(q)
  BY <1>1 DEF TimesIn
<1>9. InTimeOrder(s, lo, t)
  <2>1. SUFFICES ASSUME NEW i \in TimesIn(s)
                 PROVE  /\ lo <= s[i].at /\ s[i].at <= t
                        /\ \A j \in TimesIn(s) : j > i => s[i].at <= s[j].at
    BY DEF InTimeOrder
  <2>2. lo <= s[i].at /\ s[i].at <= t
    BY <1>7 DEF InTimeOrder
  <2>3. ASSUME NEW j \in TimesIn(s), j > i PROVE s[i].at <= s[j].at
    <3>1. i \in Nat /\ j \in Nat /\ s[i].at \in Nat /\ s[i].at <= t
      BY ONLY <1>7, <2>2
    <3>2. CASE j \in TimesIn(q) /\ s[j] = q[j]
      <4>1. i \in TimesIn(q) /\ s[i] = q[i]
        <5>1. j <= Len(q) /\ Len(q) \in Nat
          BY ONLY <1>1, <1>8, <3>2
        <5>2. ~ (i > Len(q))
          BY ONLY <2>3, <3>1, <5>1
        <5> QED BY ONLY <1>7, <5>2
      <4>2. q[i].at <= q[j].at
        BY <2>3, <3>2, <4>1 DEF InTimeOrder
      <4> QED BY ONLY <3>2, <4>1, <4>2
    <3>3. CASE s[j].at = t
      BY ONLY <3>1, <3>3
    <3> QED BY ONLY <1>7, <3>2, <3>3
  <2> QED BY <2>2, <2>3
<1>10. \A i \in TimesIn(k) : i \in Nat /\ i + d \in TimesIn(s) /\ k[i] = s[i + d]
  BY <1>1, <1>4, <1>5 DEF TimesIn
<1> HIDE DEF k
<1>11. InTimeOrder(k, lo, t)
  <2>1. SUFFICES ASSUME NEW i \in TimesIn(k)
                 PROVE  /\ lo <= k[i].at /\ k[i].at <= t
                        /\ \A j \in TimesIn(k) : j > i => k[i].at <= k[j].at
    BY DEF InTimeOrder
  <2>2. i + d \in TimesIn(s) /\ k[i] = s[i + d] /\ i \in Nat
    BY <1>10
  <2>3. ASSUME NEW j \in TimesIn(k), j > i PROVE k[i].at <= k[j].at
    <3>1. j + d \in TimesIn(s) /\ k[j] = s[j + d] /\ j + d > i + d
      BY <1>1, <1>4, <1>10, <2>2, <2>3
    <3> QED BY <1>9, <2>2, <3>1 DEF InTimeOrder
  <2> QED BY <1>9, <2>2, <2>3 DEF InTimeOrder
<1> QED BY <1>11 DEF k, s

\* The time write_status shows does not go back while no report does.
LEMMA VirtualTimeGrows ==
    ASSUME NEW r \in Reports, NEW s \in Reports, \A b \in Boards : r[b] <= s[b]
    PROVE  VirtualTime(r) <= VirtualTime(s)
<1>1. PICK b \in Boards : VirtualTime(s) = s[b]
  BY VirtualTimeIsMin
<1>2. VirtualTime(r) \in Nat /\ VirtualTime(r) <= r[b]
  BY VirtualTimeIsMin
<1>3. r[b] \in Nat /\ s[b] \in Nat /\ r[b] <= s[b]
  BY DEF Reports
<1> QED BY <1>1, <1>2, <1>3

\* A pass reads no report that lies behind one it has read.
LEMMA ReportsAfterGrow ==
    ASSUME TypeOK, StatusInv, NEW b \in Boards
    PROVE  reports[b] <= ReportsAfter[b] /\ ReportsAfter[b] <= now[b]
<1>1. n2a[b] \in Seq(ControlToArbiter) /\ reports[b] \in Nat
  BY DEF TypeOK, BusTypeOK, ArbiterTypeOK, Reports
<1>2. reports[b] <= now[b] /\ InTimeOrder(n2a[b], reports[b], now[b])
  BY DEF StatusInv
<1>3. CASE TimesIn(n2a[b]) = {}
  BY <1>1, <1>2, <1>3 DEF ReportsAfter
<1>4. CASE TimesIn(n2a[b]) # {}
  BY <1>1, <1>2, <1>4, TimesRead DEF ReportsAfter
<1> QED BY <1>3, <1>4

\* A pass shows the time of the reports it has read, and leaves none unread.
LEMMA SyncShows ==
    ASSUME TypeOK, TypeOK', StatusInv, StepTimeSync, UNCHANGED nodeVars
    PROVE  StatusInv' /\ status'.time >= status.time
<1>1. reports' = ReportsAfter /\ n2a' = Drained /\ WriteStatus /\ now' = now
  BY DEF StepTimeSync, SyncHostStop, SyncInsnDone, SyncTime, SyncUntil, Sync, nodeVars
<1>2. status'.time = VirtualTime(reports')
  BY <1>1 DEF WriteStatus
<1>3. \A b \in Boards : reports[b] <= reports'[b] /\ reports'[b] <= now'[b]
  BY <1>1, ReportsAfterGrow
<1>4. \A b \in Boards : InTimeOrder(n2a'[b], reports'[b], now'[b])
  BY <1>1 DEF Drained, InTimeOrder, TimesIn
<1>5. reports \in Reports /\ reports' \in Reports
  BY DEF TypeOK, ArbiterTypeOK
<1>6. VirtualTime(reports) <= VirtualTime(reports')
  BY <1>3, <1>5, VirtualTimeGrows
<1>7. VirtualTime(reports) \in Nat /\ VirtualTime(reports') \in Nat
  BY <1>5, VirtualTimeIsMin
<1> QED BY <1>2, <1>3, <1>4, <1>6, <1>7 DEF StatusInv

\* A node reports its clock, which only advances.
LEMMA NodeReports ==
    ASSUME TypeOK, StatusInv, NEW b \in Boards, NodeStep(b), UNCHANGED arbiterVars
    PROVE  StatusInv'
<1>1. /\ n2a \in [Boards -> Seq(ControlToArbiter)] /\ now \in [Boards -> Nat]
      /\ reports \in [Boards -> Nat] /\ N2aCap \in Nat
  BY BusAssumption
     DEF TypeOK, BusTypeOK, NodeTypeOK, ArbiterTypeOK, Reports, BusAssumption
<1>2. reports' = reports /\ status' = status
  BY DEF arbiterVars
<1>3. \/ n2a' = n2a /\ now' = now
      \/ /\ Send(b, <<Ready>>) /\ now' = now
      \/ \E t \in now[b]..Horizon, msgs \in Seq(ControlToArbiter) :
            /\ now' = [now EXCEPT ![b] = t] /\ Send(b, msgs)
            /\ \A i \in TimesIn(msgs) : msgs[i].at = t
  <2>1. ASSUME PerformStep(b)
        PROVE  \E t \in now[b]..Horizon, msgs \in Seq(ControlToArbiter) :
            /\ now' = [now EXCEPT ![b] = t] /\ Send(b, msgs)
            /\ \A i \in TimesIn(msgs) : msgs[i].at = t
    <3>1. PICK t \in StepTargets(b), reason \in GuestStop \cup {"Step"} :
            now' = [now EXCEPT ![b] = t] /\ Send(b, <<TimeReport(t), HostStop(reason)>>)
      BY <2>1 DEF PerformStep
    <3>2. t \in now[b]..Horizon /\ t \in Nat
      BY <1>1, NodeAssumption DEF StepTargets, NodeAssumption
    <3> DEFINE msgs == <<TimeReport(t), HostStop(reason)>>
    <3>3. msgs \in Seq(ControlToArbiter)
      BY <3>2, MessageTypes, ReasonTypes
    <3>4. \A i \in TimesIn(msgs) : msgs[i].at = t
      BY DEF TimesIn, TimeReport, HostStop
    <3> QED BY <3>1, <3>2, <3>3, <3>4
  <2>2. ASSUME NEW t \in now[b]..Horizon, NEW tail \in Seq(ControlToArbiter),
               TimesIn(tail) = {}, ReportAt(b, t, tail)
        PROVE  \E msgs \in Seq(ControlToArbiter) :
            /\ now' = [now EXCEPT ![b] = t] /\ Send(b, msgs)
            /\ \A i \in TimesIn(msgs) : msgs[i].at = t
    <3>1. t \in Nat
      BY <1>1, NodeAssumption DEF NodeAssumption
    <3> DEFINE msgs == ReportMsg(b, t) \o tail
    <3>2. ReportMsg(b, t) \in Seq(ControlToArbiter)
      <4>1. <<TimeReport(t)>> \in Seq(ControlToArbiter) /\ <<>> \in Seq(ControlToArbiter)
        BY <3>1, MessageTypes
      <4> QED BY <3>1, <4>1, ReportMsgType
    <3>3. \A i \in TimesIn(msgs) : msgs[i].at = t
      <4>1. SUFFICES ASSUME NEW i \in TimesIn(msgs) PROVE msgs[i].at = t
        OBVIOUS
      <4>2. CASE ReportMsg(b, t) = <<>>
        <5>1. msgs = tail
          BY <4>2
        <5> QED BY <2>2, <4>1, <5>1
      <4>3. CASE ReportMsg(b, t) = <<TimeReport(t)>>
        <5> DEFINE m == TimeReport(t)
        <5>1. m \in ControlToArbiter /\ m.at = t
          BY <3>1, MessageTypes DEF TimeReport
        <5> HIDE DEF m
        <5> DEFINE s == <<m>> \o tail
        <5>2. msgs = s
          BY <4>3 DEF m
        <5>3. i \in DOMAIN s /\ s[i].type = "TimeReport"
          BY <4>1, <5>2 DEF TimesIn
        <5>4. i = 1 \/ (i - 1 \in DOMAIN tail /\ s[i] = tail[i - 1])
          BY <5>1, <5>3
        <5>5. i = 1
          BY <2>2, <5>3, <5>4 DEF TimesIn
        <5>6. s[1] = m
          BY <5>1
        <5> QED BY <5>1, <5>2, <5>5, <5>6
      <4> QED BY <3>1, <4>2, <4>3, ReportMsgType
    <3>4. msgs \in Seq(ControlToArbiter)
      BY <3>2
    <3>5. now' = [now EXCEPT ![b] = t] /\ Send(b, msgs)
      BY <2>2 DEF ReportAt
    <3> HIDE DEF msgs
    <3> QED BY <3>3, <3>4, <3>5
  <2>3. CASE Poll(b)
    <3>1. PICK t \in now[b]..Horizon : ReportAt(b, t, <<>>)
      BY <2>3 DEF Poll
    <3>2. <<>> \in Seq(ControlToArbiter) /\ TimesIn(<<>>) = {}
      BY DEF TimesIn
    <3> QED BY <2>2, <3>1, <3>2
  <2>4. CASE PollStop(b)
    <3>1. PICK t \in now[b]..Horizon, reason \in GuestStop :
             ReportAt(b, t, <<HostStop(reason)>>)
      BY <2>4 DEF PollStop
    <3>2. <<HostStop(reason)>> \in Seq(ControlToArbiter)
      BY MessageTypes, ReasonTypes
    <3>3. TimesIn(<<HostStop(reason)>>) = {}
      BY DEF TimesIn, HostStop
    <3> QED BY <2>2, <3>1, <3>2, <3>3
  <2>5. CASE ~ PerformStep(b) /\ ~ Poll(b) /\ ~ PollStop(b)
    BY <2>5 DEF NodeStep, ReceiveMessage, ReceiveStartup, ReceiveStart, ReceiveAllowed,
       ReceiveClusterStop, ReceiveReset, IgnoreGdbStep, FailStep, PollError, Die, busVars
  <2> QED BY <2>1, <2>3, <2>4, <2>5
<1>4. ASSUME NEW t \in Nat, now[b] <= t, now' = [now EXCEPT ![b] = t],
             NEW msgs \in Seq(ControlToArbiter), Send(b, msgs),
             \A i \in TimesIn(msgs) : msgs[i].at = t
      PROVE  StatusInv'
  <2>1. SUFFICES ASSUME NEW c \in Boards
                 PROVE  reports[c] <= now'[c] /\ InTimeOrder(n2a'[c], reports[c], now'[c])
    BY <1>2 DEF StatusInv
  <2>2. reports[c] <= now[c] /\ InTimeOrder(n2a[c], reports[c], now[c])
    BY DEF StatusInv
  <2>3. CASE c # b
    <3>1. now'[c] = now[c] /\ n2a'[c] = n2a[c]
      BY <1>1, <1>4, <2>3 DEF Send
    <3> QED BY <2>2, <3>1
  <2>4. CASE c = b
    <3>1. now'[b] = t /\ n2a'[b] = KeepLast(n2a[b] \o msgs, N2aCap)
      BY <1>1, <1>4 DEF Send
    <3>2. reports[b] \in Nat /\ now[b] \in Nat /\ n2a[b] \in Seq(ControlToArbiter)
      BY <1>1
    <3>3. InTimeOrder(n2a'[b], reports[b], t)
      <4>1. /\ reports[b] <= now[b] /\ now[b] <= t /\ InTimeOrder(n2a[b], reports[b], now[b])
            /\ N2aCap \in Nat /\ msgs \in Seq(ControlToArbiter) /\ t \in Nat
            /\ \A i \in TimesIn(msgs) : msgs[i].at = t
        BY <1>1, <1>4, <2>2, <2>4
      <4> QED BY ONLY <3>1, <3>2, <4>1, TimesSent
    <3> QED BY <1>4, <2>2, <2>4, <3>1, <3>2, <3>3
  <2> QED BY <2>3, <2>4
<1>5. CASE n2a' = n2a /\ now' = now
  BY <1>2, <1>5 DEF StatusInv
<1>6. CASE Send(b, <<Ready>>) /\ now' = now
  <2>1. <<Ready>> \in Seq(ControlToArbiter) /\ TimesIn(<<Ready>>) = {}
    BY MessageTypes DEF TimesIn, Ready
  <2>2. now[b] \in Nat /\ now[b] <= now[b] /\ now' = [now EXCEPT ![b] = now[b]]
    BY <1>1, <1>6
  <2> DEFINE msgs == <<Ready>>
             t == now[b]
  <2>3. msgs \in Seq(ControlToArbiter) /\ \A i \in TimesIn(msgs) : msgs[i].at = t
    BY <2>1
  <2>4. t \in Nat /\ now[b] <= t /\ now' = [now EXCEPT ![b] = t] /\ Send(b, msgs)
    BY <1>6, <2>2
  <2> HIDE DEF msgs, t
  <2> QED BY <1>4, <2>3, <2>4
<1>7. CASE \E t \in now[b]..Horizon, msgs \in Seq(ControlToArbiter) :
            /\ now' = [now EXCEPT ![b] = t] /\ Send(b, msgs)
            /\ \A i \in TimesIn(msgs) : msgs[i].at = t
  <2>1. PICK t \in now[b]..Horizon, msgs \in Seq(ControlToArbiter) :
            /\ now' = [now EXCEPT ![b] = t] /\ Send(b, msgs)
            /\ \A i \in TimesIn(msgs) : msgs[i].at = t
    BY <1>7
  <2>2. t \in Nat /\ now[b] <= t
    BY <1>1, NodeAssumption DEF NodeAssumption
  <2> QED BY <1>4, <2>1, <2>2
<1> QED BY <1>3, <1>5, <1>6, <1>7

\* Without Resets every step keeps the reports in order and the time shown from
\* going back.
LEMMA StatusOrderStep ==
    ASSUME TypeOK, TypeOK', StatusInv, "Reset" \notin HostOps, [Next]_vars
    PROVE  StatusInv' /\ status'.time >= status.time
<1>1. status.time \in Nat
  BY DEF TypeOK, ArbiterTypeOK, Status
<1>2. ASSUME UNCHANGED <<reports, status, now>>, n2a' = n2a \/ n2a' = Drained
      PROVE  StatusInv' /\ status'.time >= status.time
  <2>1. \A b \in Boards : InTimeOrder(n2a'[b], reports[b], now[b])
    BY <1>2 DEF StatusInv, Drained, InTimeOrder, TimesIn
  <2> QED BY <1>1, <1>2, <2>1 DEF StatusInv
<1>3. CASE StepTimeSync /\ UNCHANGED nodeVars
  BY <1>3, SyncShows
<1>4. CASE HostCommand /\ UNCHANGED nodeVars
  <2>1. UNCHANGED <<reports, status, n2a>>
    BY <1>4 DEF HostCommand, HostStartBehind, HostStart, HostStopCluster, HostReset,
       HostStep, TakeCommand
  <2> QED BY <1>2, <1>4, <2>1 DEF nodeVars
<1>5. CASE (RepublishStartup \/ AwaitReady) /\ UNCHANGED nodeVars
  BY <1>2, <1>5 DEF RepublishStartup, AwaitReady, nodeVars
<1>6. CASE ReadyTimeout \/ HostShutdown
  BY <1>2, <1>6 DEF ReadyTimeout, HostShutdown, StopChildren, busVars
<1>7. ASSUME NEW b \in Boards, NodeStep(b), UNCHANGED arbiterVars
      PROVE  StatusInv' /\ status'.time >= status.time
  <2>1. status' = status
    BY <1>7 DEF arbiterVars
  <2> QED BY <1>1, <1>7, <2>1, NodeReports
<1>8. CASE UNCHANGED vars
  BY <1>2, <1>8 DEF vars, busVars, arbiterVars, nodeVars
<1> QED BY <1>3, <1>4, <1>5, <1>6, <1>7, <1>8 DEF Next, ArbiterStep

\* Nothing has been reported and nothing shown.
LEMMA InitStatus == Init => StatusInv
<1>1. SUFFICES ASSUME Init PROVE StatusInv
  OBVIOUS
<1>2. /\ reports = [b \in Boards |-> 0] /\ now = [b \in Boards |-> 0]
      /\ n2a = [b \in Boards |-> <<>>] /\ status.time = 0
  BY <1>1 DEF Init, ArbiterInit, NodeInit
<1>3. VirtualTime(reports) = 0
  <2>1. reports \in Reports
    BY <1>2 DEF Reports
  <2> QED BY <1>2, <2>1, VirtualTimeIsMin
<1>4. \A b \in Boards : InTimeOrder(n2a[b], reports[b], now[b])
  BY <1>2 DEF InTimeOrder, TimesIn
<1> QED BY <1>2, <1>3, <1>4 DEF StatusInv

\* write_status: without Resets the time the host polls never goes back, however
\* late reports are read and whatever queues lose.
THEOREM ShownTimeGrows == ASSUME "Reset" \notin HostOps PROVE Spec => StatusTimeMonotone
<1>1. TypeOK /\ TypeOK' /\ StatusInv /\ [Next]_vars => StatusInv'
  BY StatusOrderStep
<1>2. TypeOK /\ TypeOK' /\ StatusInv /\ [Next]_vars => [status'.time >= status.time]_status
  BY StatusOrderStep
<1> QED BY <1>1, <1>2, InitStatus, TypeCorrect, PTL DEF Spec, StatusTimeMonotone

-----------------------------------------------------------------------------
(* The wires change nothing of the cluster.                                *)

\* Receiving, polling and dying are steps of a node; receiving and sending frames
\* are none.
LEMMA WiredStep == [WiredNext]_wiredVars => [Next]_vars
<1>1. CASE UNCHANGED wiredVars
  BY <1>1 DEF wiredVars
<1>2. CASE WiredArbiter
  BY <1>2 DEF WiredArbiter, Next
<1>3. ASSUME NEW b \in Boards, WiredNode(b)
      PROVE  [Next]_vars
  <2>1. CASE WiredReceive(b) \/ WiredPoll(b) \/ WiredDie(b)
    <3>1. NodeStep(b) /\ UNCHANGED arbiterVars
      BY <2>1 DEF WiredReceive, WiredPoll, WiredDie, NodeStep
    <3> QED BY <3>1 DEF Next
  <2>2. CASE WiredPumpRx(b) \/ WiredPumpTx(b)
    BY <2>2 DEF WiredPumpRx, WiredPumpTx
  <2> QED BY <1>3, <2>1, <2>2 DEF WiredNode, WiredPass
<1> QED BY <1>1, <1>2, <1>3 DEF WiredNext

\* The cluster with data planes (run_node's pumps around sim.poll) implements the
\* cluster without.
THEOREM WiredImplementsCluster == WiredSpec => Spec
<1>1. WiredInit => Init
  BY DEF WiredInit
<1> QED BY <1>1, WiredStep, PTL DEF WiredSpec, Spec

\* Boards joined by edges stay within `margin_ns` of each other, and everything else
\* the control plane keeps, whatever the edges carry, lose or refuse.
THEOREM WiredKeepsClusterInv == WiredSpec => []ClusterInv
BY WiredImplementsCluster, ClusterInvariant, PTL

-----------------------------------------------------------------------------
(* Frames are on time.                                                     *)

\* An edge never holds more than its ring.
LEMMA KeepLastIsShort ==
    ASSUME NEW M, NEW s \in Seq(M), NEW cap \in Nat
    PROVE  Len(KeepLast(s, cap)) <= cap
<1>1. CASE Len(s) <= cap
  BY <1>1 DEF KeepLast
<1>2. CASE ~ Len(s) <= cap
  <2>1. \A i \in (Len(s) - cap + 1)..Len(s) : s[i] \in M
    BY <1>2
  <2>2. Len(SubSeq(s, Len(s) - cap + 1, Len(s))) = cap
    BY <1>2, <2>1, SubSeqProperties
  <2> QED BY <1>2, <2>2 DEF KeepLast
<1> QED BY <1>1, <1>2

\* The slack never shrinks.
LEMMA SlackGrows ==
    ASSUME TypeOK, TypeOK', [Next]_vars
    PROVE  Slack \in Nat /\ Slack' \in Nat /\ Slack <= Slack'
<1>1. resetSlack \in Nat /\ stepSlack \in Nat
  BY DEF TypeOK, ArbiterTypeOK, NodeTypeOK
<1>2. PICK r \in Nat, s \in Nat : resetSlack' = r /\ stepSlack' = s
  BY DEF TypeOK, ArbiterTypeOK, NodeTypeOK
<1>3. resetSlack <= resetSlack' /\ stepSlack <= stepSlack'
  BY ClocksGrow
<1>4. Slack = Margin + resetSlack + stepSlack /\ Slack' = Margin + r + s
  BY <1>2 DEF Slack
<1> QED BY <1>1, <1>2, <1>3, <1>4, MarginAssumption DEF MarginAssumption

\* What was on time stays so until its receiver moves or begins a pass: clocks and
\* slack only grow.
LEMMA StillOnTime ==
    ASSUME TypeOK, TypeOK', [Next]_vars, NEW e \in Edges,
           now'[e[2]] = now[e[2]],
           phase'[e[2]] = "poll" => phase[e[2]] = "poll" /\ ceiling'[e[2]] = ceiling[e[2]]
    PROVE  OnTime(e) \subseteq OnTime(e)'
<1>1. e[2] \in Boards
  BY EdgesAssumption DEF EdgesAssumption
<1>2. now[e[2]] \in Nat /\ ceiling[e[2]] \in Int
  BY <1>1 DEF TypeOK, NodeTypeOK, NoLimit
<1>5. Slack \in Nat /\ Slack' \in Nat /\ Slack <= Slack'
  BY SlackGrows
<1>3. SUFFICES ASSUME NEW f \in OnTime(e) PROVE f \in OnTime(e)'
  OBVIOUS
<1>4. f \in Frame /\ f.end \in Nat
  BY <1>3 DEF OnTime, Frame, NoLimit
<1> QED BY <1>2, <1>3, <1>4, <1>5 DEF OnTime

\* How much an edge holds is the topology's.
LEMMA RingEndsKept ==
    ASSUME ringLen' = ringLen,
           \A e \in ShortEdges : ring'[e] \in Seq(OnTime(e)') /\ Len(ring'[e]) <= ringLen[e]
    PROVE  RingEnds'
BY DEF RingEnds, ShortEdges

\* An edge that a step leaves alone stays on time if its receiver stays where it is.
LEMMA RingKept ==
    ASSUME TypeOK, TypeOK', [Next]_vars, RingEnds, NEW e \in ShortEdges, ring'[e] = ring[e],
           now'[e[2]] = now[e[2]],
           phase'[e[2]] = "poll" => phase[e[2]] = "poll" /\ ceiling'[e[2]] = ceiling[e[2]]
    PROVE  ring'[e] \in Seq(OnTime(e)') /\ Len(ring'[e]) <= ringLen[e]
<1>1. ring[e] \in Seq(OnTime(e)) /\ Len(ring[e]) <= ringLen[e]
  BY DEF RingEnds
<1>2. OnTime(e) \subseteq OnTime(e)'
  BY StillOnTime DEF ShortEdges
<1> QED BY <1>1, <1>2, SeqMonotonic

\* Steps of the arbiter, and a node that dies, move neither clocks nor frames.
LEMMA IdleStep ==
    ASSUME TypeOK, TypeOK', [Next]_vars, WireInv, UNCHANGED <<wireVars, now, ceiling>>
    PROVE  WireInv'
<1>1. WireTypeOK'
  BY DEF WireInv, WireTypeOK, wireVars
<1>2. PendingEnds'
  BY DEF WireInv, PendingEnds, wireVars
<1>3. RingEnds'
  <2>1. ASSUME NEW e \in ShortEdges
        PROVE  ring'[e] \in Seq(OnTime(e)') /\ Len(ring'[e]) <= ringLen[e]
    BY RingKept DEF WireInv, wireVars
  <2> QED BY <2>1, RingEndsKept DEF wireVars
<1> QED BY <1>1, <1>2, <1>3 DEF WireInv

\* What an edge drives is appended to what its in-port has got.
LEMMA DriveInAppends ==
    ASSUME NEW e \in Edges, got[e] \in Seq(Nat), NEW frames \in Seq(Frame)
    PROVE  /\ DriveIn(e, frames) \in Seq(Nat)
           /\ Len(DriveIn(e, frames)) = Len(got[e]) + Len(frames)
<1> DEFINE numbers == [i \in DOMAIN frames |-> frames[i].number]
<1>1. DOMAIN frames = 1..Len(frames) /\ Len(frames) \in Nat
  OBVIOUS
<1>2. \A i \in DOMAIN frames : frames[i].number \in Nat
  <2>1. \A i \in DOMAIN frames : frames[i] \in Frame
    OBVIOUS
  <2> QED BY <2>1 DEF Frame
<1>3. numbers = [i \in 1..Len(frames) |-> frames[i].number]
  BY <1>1
<1>4. numbers \in Seq(Nat) /\ Len(numbers) = Len(frames)
  BY <1>1, <1>2, <1>3
<1>5. DriveIn(e, frames) = got[e] \o numbers
  BY DEF DriveIn, NumbersOf
<1> HIDE DEF numbers
<1>6. got[e] \o numbers \in Seq(Nat) /\ Len(got[e] \o numbers) = Len(got[e]) + Len(numbers)
  BY <1>4, ConcatProperties
<1> QED BY <1>4, <1>5, <1>6

\* A pass takes everything that is on a short edge into its board: that holds no more
\* than a lane receives in a pass.
LEMMA PumpRxStep ==
    ASSUME TypeOK, TypeOK', [Next]_vars, WireInv, WireTypeOK', ringLen' = ringLen,
           NEW b \in Boards, WiredPumpRx(b)
    PROVE  WireInv'
<1>0. /\ UNCHANGED vars /\ UNCHANGED pending /\ PumpRx(b)
      /\ phase[b] = "drain" /\ \E place \in {"poll", "drain"} : phase' = [phase EXCEPT ![b] = place]
  BY DEF WiredPumpRx, GoTo
<1>1. now' = now /\ ceiling' = ceiling
  BY <1>0 DEF vars, nodeVars
<1>2. /\ phase \in [Boards -> {"drain", "poll", "send"}] /\ pending \in [Boards -> Seq(Frame)]
      /\ ring \in [Edges -> Seq(Frame)] /\ ringLen \in [Edges -> RingLens]
  BY DEF WireInv, WireTypeOK
<1>3. PendingEnds'
  BY <1>0, <1>1, <1>2 DEF WireInv, PendingEnds
<1>4. ASSUME NEW e \in ShortEdges
      PROVE  ring'[e] \in Seq(OnTime(e)') /\ Len(ring'[e]) <= ringLen[e]
  <2>1. /\ e \in Edges /\ e[2] \in Boards /\ ringLen[e] \in Nat /\ RxBatch \in Nat
        /\ ringLen[e] <= RxBatch
    BY <1>2, EdgesAssumption DEF ShortEdges, EdgesAssumption
  <2>2. ring[e] \in Seq(Frame) /\ Len(ring[e]) \in Nat /\ Len(ring[e]) <= ringLen[e]
    BY <1>2, <2>1 DEF WireInv, RingEnds
  <2>3. Taken(b, e) = IF e[2] = b THEN Len(ring[e]) ELSE 0
    BY <2>1, <2>2 DEF Taken, EdgesInto
  <2>4. ring'[e] = SubSeq(ring[e], Taken(b, e) + 1, Len(ring[e]))
    BY <1>0, <2>1 DEF PumpRx
  <2>5. CASE e[2] = b
    <3>1. ring'[e] = <<>>
      BY <2>2, <2>3, <2>4, <2>5, SubSeqEmpty
    <3> QED BY <2>1, <3>1, EmptySeq
  <2>6. CASE e[2] # b
    <3>1. ring'[e] = ring[e]
      BY <2>2, <2>3, <2>4, <2>6, SubSeqFull
    <3>2. phase'[e[2]] = phase[e[2]]
      BY <1>0, <1>2, <2>1, <2>6
    <3> QED BY <1>1, <3>1, <3>2, RingKept DEF WireInv
  <2> QED BY <2>5, <2>6
<1>5. RingEnds'
  BY <1>4, RingEndsKept
<1> QED BY <1>3, <1>5 DEF WireInv

\* A frame that is sent has just ended at its sender, and nobody may be further from
\* the sender's clock, nor be allowed to get further, than the ceiling's margin.
LEMMA SentOnTime ==
    ASSUME TypeOK, SkewBounded, CeilingsSafe, WireInv, NEW b \in Boards, phase[b] = "send",
           NEW e \in Edges, e[1] = b
    PROVE  Head(pending[b]) \in OnTime(e)
<1>1. e[2] \in Boards /\ pending[b] \in Seq(Frame) /\ pending[b] # <<>>
  BY EdgesAssumption DEF EdgesAssumption, WireInv, WireTypeOK, PendingEnds
<1>2. Head(pending[b]) \in Frame /\ Head(pending[b]).end = now[b]
  <2>1. 1 \in DOMAIN pending[b] /\ Head(pending[b]) = pending[b][1]
    BY <1>1
  <2> QED BY <1>1, <2>1, HeadTailProperties DEF WireInv, PendingEnds
<1>3. /\ now[b] \in Nat /\ now[e[2]] \in Nat /\ ceiling[e[2]] \in Int
      /\ resetSlack \in Nat /\ stepSlack \in Nat
  BY <1>1 DEF TypeOK, ArbiterTypeOK, NodeTypeOK, NoLimit
<1>4. Margin \in Nat /\ Slack = Margin + resetSlack + stepSlack
  BY MarginAssumption DEF Slack, MarginAssumption
<1>5. now[b] <= now[e[2]] + Slack /\ now[e[2]] <= now[b] + Slack
  <2>1. /\ now[b] <= now[e[2]] + Margin + resetSlack + stepSlack
        /\ now[e[2]] <= now[b] + Margin + resetSlack + stepSlack
    BY <1>1 DEF SkewBounded
  <2> QED BY <1>3, <1>4, <2>1
<1>6. ceiling[e[2]] <= now[b] + Slack
  <2>1. ceiling[e[2]] <= now[b] + Margin + resetSlack
    BY <1>1 DEF CeilingsSafe, Reach
  <2> QED BY <1>3, <1>4, <2>1
<1> QED BY <1>2, <1>3, <1>5, <1>6 DEF OnTime, NoLimit

\* The oldest pending frame goes out; the sender's clock waits for the others.
LEMMA PumpTxStep ==
    ASSUME TypeOK, TypeOK', [Next]_vars, SkewBounded, CeilingsSafe, WireInv, WireTypeOK',
           ringLen' = ringLen, NEW b \in Boards, WiredPumpTx(b)
    PROVE  WireInv'
<1>0. PICK refused \in SUBSET EdgesOutOf(b) : PumpTx(b, refused)
  BY DEF WiredPumpTx
<1>1. /\ phase[b] = "send" /\ now' = now /\ ceiling' = ceiling
      /\ phase' = [phase EXCEPT ![b] = IF Len(pending[b]) = 1 THEN "drain" ELSE "send"]
      /\ pending' = [pending EXCEPT ![b] = Tail(pending[b])]
  BY <1>0 DEF WiredPumpTx, GoTo, PumpTx, vars, nodeVars
<1>2. /\ phase \in [Boards -> {"drain", "poll", "send"}]
      /\ pending \in [Boards -> Seq(Frame)] /\ ringLen \in [Edges -> RingLens]
  BY DEF WireInv, WireTypeOK
<1>3. pending[b] \in Seq(Frame) /\ pending[b] # <<>>
  BY <1>1, <1>2 DEF WireInv, PendingEnds
<1>4. /\ Tail(pending[b]) \in Seq(Frame) /\ Len(Tail(pending[b])) = Len(pending[b]) - 1
      /\ \A i \in 1..Len(Tail(pending[b])) : Tail(pending[b])[i] = pending[b][i + 1]
      /\ Len(pending[b]) \in Nat
  BY <1>3, HeadTailProperties
<1>5. RingEnds'
  <2>1. SUFFICES ASSUME NEW e \in ShortEdges
                 PROVE  ring'[e] \in Seq(OnTime(e)') /\ Len(ring'[e]) <= ringLen[e]
    BY RingEndsKept
  <2>2. e \in Edges /\ e[1] \in Boards /\ e[2] \in Boards /\ e[1] # e[2] /\ ringLen[e] \in Nat
    BY <1>2, EdgesAssumption DEF ShortEdges, EdgesAssumption
  <2>3. OnTime(e) \subseteq OnTime(e)'
    <3>1. phase'[e[2]] = "poll" => phase[e[2]] = "poll"
      BY <1>1, <1>2, <2>2
    <3> QED BY <1>1, <2>2, <3>1, StillOnTime
  <2>4. CASE e \in EdgesOutOf(b) \ refused
    <3>1. ring'[e] = KeepLast(Append(ring[e], Head(pending[b])), ringLen[e])
      BY <1>0, <2>2, <2>4 DEF PumpTx, OntoEdge
    <3>2. Head(pending[b]) \in OnTime(e) /\ ring[e] \in Seq(OnTime(e))
      BY <1>1, <2>2, <2>4, SentOnTime DEF EdgesOutOf, WireInv, RingEnds
    <3>3. Append(ring[e], Head(pending[b])) \in Seq(OnTime(e))
      BY <3>2, AppendProperties
    <3>4. ring'[e] \in Seq(OnTime(e)) /\ Len(ring'[e]) <= ringLen[e]
      BY <2>2, <3>1, <3>2, <3>3, KeepLastInSeq, KeepLastIsShort
    <3> QED BY <2>3, <3>4, SeqMonotonic
  <2>5. CASE e \notin EdgesOutOf(b) \ refused
    <3>1. ring'[e] = ring[e]
      BY <1>0, <2>2, <2>5 DEF PumpTx
    <3>2. ring[e] \in Seq(OnTime(e)) /\ Len(ring[e]) <= ringLen[e]
      BY DEF WireInv, RingEnds
    <3> QED BY <2>3, <3>1, <3>2, SeqMonotonic
  <2> QED BY <2>4, <2>5
<1>6. PendingEnds'
  <2>1. SUFFICES ASSUME NEW c \in Boards
                 PROVE  /\ phase'[c] = "send" => pending'[c] # <<>>
                        /\ \A i \in DOMAIN pending'[c] :
                              pending'[c][i].end = IF phase'[c] = "send" THEN now'[c] ELSE NoLimit
    BY DEF PendingEnds
  <2>2. CASE c # b
    <3>1. phase'[c] = phase[c] /\ pending'[c] = pending[c] /\ now'[c] = now[c]
      BY <1>1, <1>2, <2>2
    <3> QED BY <3>1 DEF WireInv, PendingEnds
  <2>3. CASE c = b
    <3>1. /\ pending'[b] = Tail(pending[b])
          /\ phase'[b] = IF Len(pending[b]) = 1 THEN "drain" ELSE "send"
      BY <1>1, <1>2
    <3>2. \A i \in DOMAIN pending[b] : pending[b][i].end = now[b]
      BY <1>1 DEF WireInv, PendingEnds
    <3>3. DOMAIN Tail(pending[b]) = 1..(Len(pending[b]) - 1)
      BY <1>4
    <3>4. CASE Len(pending[b]) = 1
      BY <2>3, <3>1, <3>3, <3>4
    <3>5. CASE Len(pending[b]) # 1
      <4>1. Tail(pending[b]) # <<>>
        <5>1. Len(pending[b]) \in Nat \ {0}
          BY <1>3, EmptySeq
        <5>2. Len(Tail(pending[b])) # 0
          BY <1>4, <3>5, <5>1
        <5>3. Tail(pending[b]) # <<>>
          BY <5>2, EmptySeq
        <5> QED BY <5>3
      <4>2. \A i \in DOMAIN Tail(pending[b]) : Tail(pending[b])[i].end = now[b]
        BY <1>3, <1>4, <3>2, <3>3
      <4> QED BY <1>1, <2>3, <3>1, <3>5, <4>1, <4>2
    <3> QED BY <3>4, <3>5
  <2> QED BY <2>2, <2>3
<1> QED BY <1>5, <1>6 DEF WireInv

\* What a board's guest drives keeps the type of frames, and joins frames that all end
\* at `end`.
LEMMA DriveEnds ==
    ASSUME NEW b \in Boards, NEW end \in Nat \cup {NoLimit}, Drive(b, end),
           pending \in [Boards -> Seq(Frame)], sent \in [Boards -> Nat],
           \A i \in DOMAIN pending[b] : pending[b][i].end = NoLimit
    PROVE  /\ pending' \in [Boards -> Seq(Frame)] /\ sent' \in [Boards -> Nat]
           /\ \A c \in Boards : c # b => pending'[c] = pending[c]
           /\ \A i \in DOMAIN pending'[b] : pending'[b][i].end = end
<1> DEFINE ended == [i \in DOMAIN pending[b] |->
                       [pending[b][i] EXCEPT !.end = IF @ = NoLimit THEN end ELSE @]]
           new == [number |-> sent[b] + 1, end |-> end]
<1>1. ended \in Seq(Frame)
  <2>1. pending[b] \in Seq(Frame)
    OBVIOUS
  <2>2. ASSUME NEW f \in Frame
        PROVE  [f EXCEPT !.end = IF @ = NoLimit THEN end ELSE @] \in Frame
    BY DEF Frame
  <2>3. \A i \in DOMAIN pending[b] : ended[i] \in Frame
    BY <2>1, <2>2
  <2>4. DOMAIN ended = 1..Len(pending[b]) /\ Len(pending[b]) \in Nat
    BY <2>1
  <2> HIDE DEF ended
  <2>5. DOMAIN pending[b] = 1..Len(pending[b])
    BY <2>1
  <2>6. ended = [i \in 1..Len(pending[b]) |-> ended[i]]
    BY <2>4, <2>5 DEF ended
  <2> QED BY <2>3, <2>4, <2>5, <2>6
<1>2. \A i \in DOMAIN ended : ended[i].end = end
  BY DEF Frame
<1>3. new \in Frame /\ new.end = end
  BY DEF Frame
<1>4. \/ pending' = [pending EXCEPT ![b] = ended] /\ sent' = sent
      \/ /\ sent' = [sent EXCEPT ![b] = sent[b] + 1]
         /\ pending' = [pending EXCEPT ![b] = Append(ended, new)]
  BY DEF Drive
<1>5. Append(ended, new) \in Seq(Frame)
      /\ \A i \in DOMAIN Append(ended, new) : Append(ended, new)[i].end = end
  <2> HIDE DEF ended, new
  <2>1. /\ Append(ended, new) \in Seq(Frame) /\ Len(Append(ended, new)) = Len(ended) + 1
        /\ \A i \in 1..Len(ended) : Append(ended, new)[i] = ended[i]
        /\ Append(ended, new)[Len(ended) + 1] = new
    BY <1>1, <1>3, AppendProperties
  <2>2. DOMAIN Append(ended, new) = 1..(Len(ended) + 1) /\ DOMAIN ended = 1..Len(ended)
        /\ Len(ended) \in Nat
    BY <1>1, <2>1
  <2> QED BY <1>2, <1>3, <2>1, <2>2
<1> HIDE DEF ended, new
<1>6. CASE pending' = [pending EXCEPT ![b] = ended] /\ sent' = sent
  BY <1>1, <1>2, <1>6
<1>7. CASE /\ sent' = [sent EXCEPT ![b] = sent[b] + 1]
           /\ pending' = [pending EXCEPT ![b] = Append(ended, new)]
  BY <1>5, <1>7
<1> QED BY <1>4, <1>6, <1>7

\* A poll gets no further than the ceiling, which the frames that its pass has not
\* received are on time for.
LEMMA PollStep ==
    ASSUME TypeOK, TypeOK', [Next]_vars, WireInv, WireTypeOK', ringLen' = ringLen,
           NEW b \in Boards, WiredPoll(b)
    PROVE  WireInv'
<1>1. /\ phase[b] = "poll" /\ Drive(b, now'[b]) /\ UNCHANGED <<ring, ceiling>>
      /\ phase' = [phase EXCEPT ![b] = IF pending'[b] = <<>> THEN "drain" ELSE "send"]
  BY DEF WiredPoll, GoTo, Poll, PollStop, PollError, ReportAt
<1>2. /\ phase \in [Boards -> {"drain", "poll", "send"}]
      /\ pending \in [Boards -> Seq(Frame)] /\ sent \in [Boards -> Nat]
      /\ now \in [Boards -> Nat] /\ now' \in [Boards -> Nat]
      /\ ceiling \in [Boards -> Nat \cup {NoLimit}]
  BY DEF WireInv, WireTypeOK, TypeOK, NodeTypeOK
<1>3. /\ \A c \in Boards : c # b => now'[c] = now[c]
      /\ now'[b] = now[b] \/ now'[b] <= ceiling[b]
  BY <1>2, NodeAssumption DEF WiredPoll, Poll, PollStop, PollError, ReportAt, NodeAssumption
<1>4. \A i \in DOMAIN pending[b] : pending[b][i].end = NoLimit
  BY <1>1 DEF WireInv, PendingEnds
<1>5. /\ \A c \in Boards : c # b => pending'[c] = pending[c]
      /\ \A i \in DOMAIN pending'[b] : pending'[b][i].end = now'[b]
  <2>1. now'[b] \in Nat \cup {NoLimit}
    BY <1>2
  <2> QED BY <1>1, <1>2, <1>4, <2>1, DriveEnds
<1>6. PendingEnds'
  <2>1. SUFFICES ASSUME NEW c \in Boards
                 PROVE  /\ phase'[c] = "send" => pending'[c] # <<>>
                        /\ \A i \in DOMAIN pending'[c] :
                              pending'[c][i].end = IF phase'[c] = "send" THEN now'[c] ELSE NoLimit
    BY DEF PendingEnds
  <2>2. CASE c # b
    <3>1. phase'[c] = phase[c] /\ pending'[c] = pending[c] /\ now'[c] = now[c]
      BY <1>1, <1>2, <1>3, <1>5, <2>2
    <3> QED BY <3>1 DEF WireInv, PendingEnds
  <2>3. CASE c = b
    <3>1. phase'[b] = IF pending'[b] = <<>> THEN "drain" ELSE "send"
      BY <1>1, <1>2
    <3>2. CASE pending'[b] = <<>>
      BY <2>3, <3>1, <3>2
    <3>3. CASE pending'[b] # <<>>
      BY <1>5, <2>3, <3>1, <3>3
    <3> QED BY <3>2, <3>3
  <2> QED BY <2>2, <2>3
<1>7. RingEnds'
  <2>1. SUFFICES ASSUME NEW e \in ShortEdges
                 PROVE  ring'[e] \in Seq(OnTime(e)') /\ Len(ring'[e]) <= ringLen[e]
    BY RingEndsKept
  <2>2. ring'[e] = ring[e] /\ ring[e] \in Seq(OnTime(e)) /\ Len(ring[e]) <= ringLen[e]
        /\ e[2] \in Boards
    BY <1>1, EdgesAssumption DEF WireInv, RingEnds, ShortEdges, EdgesAssumption
  <2>3. CASE e[2] # b
    <3>1. now'[e[2]] = now[e[2]] /\ phase'[e[2]] = phase[e[2]] /\ ceiling'[e[2]] = ceiling[e[2]]
      BY <1>1, <1>2, <1>3, <2>2, <2>3
    <3> QED BY <2>2, <3>1, RingKept DEF WireInv
  <2>4. CASE e[2] = b
    <3>1. OnTime(e) \subseteq OnTime(e)'
      <4>1. SUFFICES ASSUME NEW f \in OnTime(e) PROVE f \in OnTime(e)'
        OBVIOUS
      <4>2. f \in Frame /\ f.end \in Nat /\ f.end # NoLimit
        BY <4>1 DEF OnTime, Frame, NoLimit
      <4>3. /\ f.end <= now[b] + Slack /\ now[b] <= f.end + Slack
            /\ ceiling[b] <= f.end + Slack
        BY <1>1, <2>4, <4>1 DEF OnTime
      <4>4. now[b] <= now'[b] /\ Slack \in Nat /\ Slack' \in Nat /\ Slack <= Slack'
        BY ClocksGrow, SlackGrows
      <4>5. f.end <= now'[b] + Slack' /\ now'[b] <= f.end + Slack'
        <5>1. PICK t \in Nat, later \in Nat : now'[b] = t /\ Slack' = later
          BY <1>2, <4>4
        <5>2. now[b] \in Nat /\ ceiling[b] \in Int
          BY <1>2 DEF NoLimit
        <5>3. now[b] <= t /\ (t = now[b] \/ t <= ceiling[b]) /\ Slack <= later
          BY <1>3, <4>4, <5>1
        <5>4. f.end <= t + later /\ t <= f.end + later
          BY <4>2, <4>3, <4>4, <5>2, <5>3
        <5> QED BY <5>1, <5>4
      <4>6. phase'[b] # "poll"
        BY <1>1, <1>2
      <4> QED BY <2>4, <4>2, <4>5, <4>6 DEF OnTime
    <3> QED BY <2>2, <3>1, SeqMonotonic
  <2> QED BY <2>3, <2>4
<1> QED BY <1>6, <1>7 DEF WireInv

\* Only a GDB step moves the clock of a node that reads a message, and only its own.
LEMMA ReadingMoves ==
    ASSUME TypeOK, NEW b \in Boards, ReceiveMessage(b)
    PROVE  /\ \A c \in Boards : c # b => now'[c] = now[c] /\ ceiling'[c] = ceiling[c]
           /\ ~ TakesGdbStep(b) => now' = now
<1>1. now \in [Boards -> Nat] /\ ceiling \in [Boards -> Nat \cup {NoLimit}]
  BY DEF TypeOK, NodeTypeOK
<1>2. CASE PerformStep(b)
  BY <1>1, <1>2 DEF PerformStep, TakesGdbStep
<1>3. CASE ~ PerformStep(b)
  BY <1>1, <1>3 DEF ReceiveMessage, ReceiveStartup, ReceiveStart, ReceiveAllowed,
     ReceiveClusterStop, ReceiveReset, IgnoreGdbStep, FailStep, TakesGdbStep
<1> QED BY <1>2, <1>3

\* What is on an edge into a stepped board waits for the end of the step.
LEMMA WaitForOnTime ==
    ASSUME TypeOK, TypeOK', [Next]_vars, WireInv, NEW b \in Boards, WaitFor(b, now'[b]),
           phase' = phase, phase[b] = "drain", NEW e \in ShortEdges, e[2] = b
    PROVE  ring'[e] \in Seq(OnTime(e)') /\ Len(ring'[e]) <= ringLen[e]
<1>1. ring[e] \in Seq(OnTime(e)) /\ Len(ring[e]) <= ringLen[e]
  BY DEF WireInv, RingEnds
<1> DEFINE later(f) == IF f.end < now'[b] THEN [f EXCEPT !.end = now'[b]] ELSE f
<1>2. ring'[e] = [i \in DOMAIN ring[e] |-> later(ring[e][i])]
  BY DEF WaitFor, EdgesInto, ShortEdges
<1>3. ASSUME NEW f \in OnTime(e) PROVE later(f) \in OnTime(e)'
  <2>1. f \in Frame /\ f.end \in Nat /\ f.end <= now[b] + Slack /\ now[b] <= f.end + Slack
    BY <1>3 DEF OnTime, Frame, NoLimit
  <2>2. now[b] \in Nat /\ now[b] <= now'[b] /\ Slack \in Nat /\ Slack <= Slack'
    BY ClocksGrow, SlackGrows DEF TypeOK, NodeTypeOK
  <2>3. PICK t \in Nat, wide \in Nat : now'[b] = t /\ Slack' = wide
    BY SlackGrows DEF TypeOK, NodeTypeOK
  <2>4. later(f) \in Frame /\ later(f).end = IF f.end < t THEN t ELSE f.end
    BY <2>1, <2>3 DEF Frame
  <2>5. now[b] <= t /\ Slack <= wide
    BY <2>2, <2>3
  <2>6. later(f).end \in Nat /\ later(f).end <= t + wide /\ t <= later(f).end + wide
    BY <2>1, <2>2, <2>4, <2>5
  <2>7. phase'[b] # "poll"
    OBVIOUS
  <2> HIDE DEF later
  <2> QED BY <2>3, <2>4, <2>6, <2>7 DEF OnTime, NoLimit
<1>4. DOMAIN ring[e] = 1..Len(ring[e]) /\ Len(ring[e]) \in Nat
  BY <1>1
<1>5. \A i \in 1..Len(ring[e]) : later(ring[e][i]) \in OnTime(e)'
  BY <1>1, <1>3, <1>4
<1> HIDE DEF later
<1>6. ring'[e] = [i \in 1..Len(ring[e]) |-> later(ring[e][i])]
  BY <1>2, <1>4
<1>7. ring'[e] \in Seq(OnTime(e)') /\ Len(ring'[e]) = Len(ring[e])
  BY <1>4, <1>5, <1>6
<1> QED BY <1>1, <1>7

\* Reading a message: a Reset empties the edges into the board, a GDB step makes them
\* wait, and nothing else touches clock or frames.
LEMMA ReceiveStep ==
    ASSUME TypeOK, TypeOK', [Next]_vars, WireInv, WireTypeOK', ringLen' = ringLen,
           NEW b \in Boards, WiredReceive(b)
    PROVE  WireInv'
<1>1. phase[b] = "drain" /\ ReceiveMessage(b) /\ phase' = phase
  BY DEF WiredReceive
<1>2. \/ DiscardRx(b) /\ Drive(b, NoLimit)
      \/ WaitFor(b, now'[b]) /\ Drive(b, NoLimit)
      \/ ~ TakesGdbStep(b) /\ UNCHANGED <<ring, lost, pending, sent>>
  BY DEF WiredReceive
<1>3. /\ phase \in [Boards -> {"drain", "poll", "send"}]
      /\ pending \in [Boards -> Seq(Frame)] /\ sent \in [Boards -> Nat]
      /\ ring \in [Edges -> Seq(Frame)] /\ ringLen \in [Edges -> RingLens]
      /\ now \in [Boards -> Nat]
  BY DEF WireInv, WireTypeOK, TypeOK, NodeTypeOK
<1>4. /\ \A c \in Boards : c # b => now'[c] = now[c] /\ ceiling'[c] = ceiling[c]
      /\ ~ TakesGdbStep(b) => now' = now
  BY <1>1, ReadingMoves
<1>5. \A i \in DOMAIN pending[b] : pending[b][i].end = NoLimit
  BY <1>1 DEF WireInv, PendingEnds
<1>6. /\ \A c \in Boards : c # b => pending'[c] = pending[c]
      /\ \A i \in DOMAIN pending'[b] : pending'[b][i].end = NoLimit
  <2>1. CASE Drive(b, NoLimit)
    BY <1>3, <1>5, <2>1, DriveEnds
  <2>2. CASE UNCHANGED <<ring, lost, pending, sent>>
    BY <1>3, <1>5, <2>2
  <2> QED BY <1>2, <2>1, <2>2
<1>7. PendingEnds'
  <2>1. SUFFICES ASSUME NEW c \in Boards
                 PROVE  /\ phase'[c] = "send" => pending'[c] # <<>>
                        /\ \A i \in DOMAIN pending'[c] :
                              pending'[c][i].end = IF phase'[c] = "send" THEN now'[c] ELSE NoLimit
    BY DEF PendingEnds
  <2>2. CASE c # b
    <3>1. phase'[c] = phase[c] /\ pending'[c] = pending[c] /\ now'[c] = now[c]
      BY <1>1, <1>4, <1>6, <2>2
    <3> QED BY <3>1 DEF WireInv, PendingEnds
  <2>3. CASE c = b
    BY <1>1, <1>6, <2>3
  <2> QED BY <2>2, <2>3
<1>8. RingEnds'
  <2>1. SUFFICES ASSUME NEW e \in ShortEdges
                 PROVE  ring'[e] \in Seq(OnTime(e)') /\ Len(ring'[e]) <= ringLen[e]
    BY RingEndsKept
  <2>2. e \in Edges /\ e[2] \in Boards /\ ring[e] \in Seq(OnTime(e)) /\ Len(ring[e]) <= ringLen[e]
        /\ ringLen[e] \in Nat
    BY <1>3, EdgesAssumption DEF WireInv, RingEnds, ShortEdges, EdgesAssumption
  <2>3. CASE e[2] # b
    <3>1. ring'[e] = ring[e]
      <4>1. CASE WaitFor(b, now'[b])
        <5>1. ring'[e] = [i \in DOMAIN ring[e] |-> ring[e][i]]
          BY <2>2, <2>3, <4>1 DEF WaitFor, EdgesInto
        <5> QED BY <2>2, <5>1
      <4>2. CASE ~ WaitFor(b, now'[b])
        BY <1>2, <2>2, <2>3, <4>2 DEF DiscardRx, EdgesInto
      <4> QED BY <4>1, <4>2
    <3>2. now'[e[2]] = now[e[2]] /\ ceiling'[e[2]] = ceiling[e[2]] /\ phase'[e[2]] = phase[e[2]]
      BY <1>1, <1>4, <2>2, <2>3
    <3> QED BY <3>1, <3>2, RingKept DEF WireInv
  <2>4. CASE e[2] = b /\ DiscardRx(b)
    <3>1. ring'[e] = <<>>
      BY <2>2, <2>4 DEF DiscardRx, EdgesInto
    <3> QED BY <2>2, <3>1, EmptySeq
  <2>5. CASE e[2] = b /\ WaitFor(b, now'[b])
    BY <1>1, <2>5, WaitForOnTime
  <2>6. CASE e[2] = b /\ ~ TakesGdbStep(b) /\ UNCHANGED <<ring, lost, pending, sent>>
    <3>1. now'[e[2]] = now[e[2]] /\ ring'[e] = ring[e] /\ phase'[e[2]] # "poll"
      BY <1>1, <1>4, <2>6
    <3> QED BY <3>1, RingKept DEF WireInv
  <2> QED BY <1>2, <2>3, <2>4, <2>5, <2>6
<1> QED BY <1>7, <1>8 DEF WireInv

\* Before anything runs there are no frames.
LEMMA WiredInitInv == WiredInit => WireInv
<1>1. SUFFICES ASSUME WiredInit PROVE WireInv
  OBVIOUS
<1>2. WireTypeOK
  BY <1>1, EmptySeq DEF WiredInit, WireInit, WireTypeOK
<1>3. PendingEnds
  BY <1>1 DEF WiredInit, WireInit, PendingEnds
<1>4. RingEnds
  <2>1. SUFFICES ASSUME NEW e \in ShortEdges
                 PROVE  ring[e] \in Seq(OnTime(e)) /\ Len(ring[e]) <= ringLen[e]
    BY DEF RingEnds
  <2>2. ring[e] = <<>> /\ ringLen[e] \in Nat
    BY <1>1, EdgesAssumption DEF WiredInit, WireInit, ShortEdges, EdgesAssumption
  <2> QED BY <2>2, EmptySeq
<1> QED BY <1>2, <1>3, <1>4 DEF WireInv

\* The invariant survives every step of a cluster with data planes.
LEMMA WiredNextInv ==
    ASSUME ClusterInv, ClusterInv', WireInv, WireTypeOK', [WiredNext]_wiredVars
    PROVE  WireInv'
<1>0. ringLen' = ringLen
  BY DEF WiredNext, WiredArbiter, WiredNode, WiredPass, WiredReceive, WiredPumpRx, WiredPoll,
     WiredPumpTx, WiredDie, wireVars, wiredVars
<1>1. TypeOK /\ TypeOK' /\ SkewBounded /\ CeilingsSafe
  BY DEF ClusterInv
<1>2. [Next]_vars
  BY WiredStep
<1>3. CASE WiredArbiter
  <2>1. UNCHANGED <<wireVars, now, ceiling>>
    BY <1>3 DEF WiredArbiter, ArbiterStep, ReadyTimeout, HostShutdown, StopChildren, nodeVars
  <2> QED BY <1>1, <1>2, <2>1, IdleStep
<1>4. CASE UNCHANGED wiredVars
  <2>1. UNCHANGED <<wireVars, now, ceiling>>
    BY <1>4 DEF wiredVars, vars, nodeVars
  <2> QED BY <1>1, <1>2, <2>1, IdleStep
<1>5. ASSUME NEW b \in Boards, WiredDie(b) PROVE WireInv'
  <2>1. UNCHANGED <<wireVars, now, ceiling>>
    BY <1>5 DEF WiredDie, Die
  <2> QED BY <1>1, <1>2, <2>1, IdleStep
<1>6. ASSUME NEW b \in Boards, WiredReceive(b) PROVE WireInv'
  BY <1>0, <1>1, <1>2, <1>6, ReceiveStep
<1>7. ASSUME NEW b \in Boards, WiredPumpRx(b) PROVE WireInv'
  BY <1>0, <1>1, <1>2, <1>7, PumpRxStep
<1>8. ASSUME NEW b \in Boards, WiredPoll(b) PROVE WireInv'
  BY <1>0, <1>1, <1>2, <1>8, PollStep
<1>9. ASSUME NEW b \in Boards, WiredPumpTx(b) PROVE WireInv'
  BY <1>0, <1>1, <1>2, <1>9, PumpTxStep
<1> QED BY <1>3, <1>4, <1>5, <1>6, <1>7, <1>8, <1>9
        DEF WiredNext, WiredNode, WiredPass

\* Only pump_rx drives frames into in-ports, and those come from the edge.
LEMMA ReceivedFromEdge ==
    ASSUME WireInv, [WiredNext]_wiredVars, NEW e \in ShortEdges,
           NEW i \in 1..(Len(got'[e]) - Len(got[e]))
    PROVE  ring[e][i] \in OnTime(e)
<1>1. /\ e \in Edges /\ got[e] \in Seq(Nat) /\ ring[e] \in Seq(OnTime(e)) /\ ring[e] \in Seq(Frame)
      /\ RxBatch \in Nat
  BY EdgesAssumption DEF WireInv, WireTypeOK, RingEnds, ShortEdges, EdgesAssumption
<1>2. got'[e] # got[e]
  <2>1. SUFFICES ASSUME got'[e] = got[e] PROVE FALSE
    OBVIOUS
  <2>2. Len(got'[e]) - Len(got[e]) = 0
    BY <1>1, <2>1
  <2> QED BY <2>2
<1>3. PICK b \in Boards : WiredPumpRx(b)
  BY <1>2 DEF WiredNext, WiredNode, WiredPass, WiredArbiter, WiredReceive, WiredPoll, WiredPumpTx,
     WiredDie, wiredVars, wireVars
<1>4. got'[e] = DriveIn(e, SubSeq(ring[e], 1, Taken(b, e)))
  BY <1>1, <1>3 DEF WiredPumpRx, PumpRx
<1>5. Taken(b, e) \in 0..Len(ring[e])
  BY <1>1 DEF Taken
<1>6. SubSeq(ring[e], 1, Taken(b, e)) \in Seq(Frame)
      /\ Len(SubSeq(ring[e], 1, Taken(b, e))) = Taken(b, e)
  BY <1>1, <1>5, SubSeqProperties
<1>7. Len(got'[e]) = Len(got[e]) + Taken(b, e)
  BY <1>1, <1>4, <1>6, DriveInAppends
<1>8. i \in 1..Len(ring[e])
  BY <1>1, <1>5, <1>7
<1> QED BY <1>1, <1>8

-----------------------------------------------------------------------------
(* Frames are in order.  First, about sequences of numbers: `Piece(t, s)`, *)
(* t is a run of consecutive members of s.                                 *)

Piece(t, s) == \E d \in Nat : \A i \in DOMAIN t : i + d \in DOMAIN s /\ t[i] = s[i + d]

\* Consecutive members of a rising sequence rise, after all that it comes after.
LEMMA PieceRises ==
    ASSUME NEW s \in Seq(Nat), NEW t \in Seq(Nat), Piece(t, s), Rising(s),
           NEW u \in Seq(Nat), Before(u, s)
    PROVE  Rising(t) /\ Before(u, t) /\ ToSet(t) \subseteq ToSet(s)
<1>1. PICK d \in Nat : \A i \in DOMAIN t : i + d \in DOMAIN s /\ t[i] = s[i + d]
  BY DEF Piece
<1>2. DOMAIN s = 1..Len(s) /\ DOMAIN t = 1..Len(t) /\ Len(s) \in Nat /\ Len(t) \in Nat
  OBVIOUS
<1>3. Rising(t)
  <2>1. SUFFICES ASSUME NEW i \in DOMAIN t, NEW j \in DOMAIN t, i < j
                 PROVE  t[i] < t[j]
    BY DEF Rising
  <2>2. i + d < j + d /\ i + d \in DOMAIN s /\ j + d \in DOMAIN s
    BY <1>1, <1>2, <2>1
  <2> QED BY <1>1, <2>1, <2>2 DEF Rising
<1>4. Before(u, t)
  BY <1>1 DEF Before
<1>5. ToSet(t) \subseteq ToSet(s)
  BY <1>1 DEF ToSet
<1> QED BY <1>3, <1>4, <1>5

\* They come before all that it comes before.
LEMMA PieceBefore ==
    ASSUME NEW s \in Seq(Nat), NEW t \in Seq(Nat), Piece(t, s),
           NEW u \in Seq(Nat), Before(s, u)
    PROVE  Before(t, u)
BY DEF Piece, Before

\* Where the members of a concatenation come from.
LEMMA Joined ==
    ASSUME NEW s \in Seq(Nat), NEW t \in Seq(Nat)
    PROVE  /\ s \o t \in Seq(Nat) /\ DOMAIN (s \o t) = 1..(Len(s) + Len(t))
           /\ \A i \in DOMAIN (s \o t) : \/ i \in DOMAIN s /\ (s \o t)[i] = s[i]
                                         \/ /\ Len(s) < i /\ i - Len(s) \in DOMAIN t
                                            /\ (s \o t)[i] = t[i - Len(s)]
           /\ ToSet(s \o t) = ToSet(s) \cup ToSet(t)
<1>1. /\ DOMAIN s = 1..Len(s) /\ DOMAIN t = 1..Len(t) /\ Len(s) \in Nat /\ Len(t) \in Nat
      /\ s \o t \in Seq(Nat) /\ DOMAIN (s \o t) = 1..(Len(s) + Len(t))
  BY ConcatProperties
<1>2. \A i \in 1..(Len(s) + Len(t)) :
          (s \o t)[i] = IF i <= Len(s) THEN s[i] ELSE t[i - Len(s)]
  BY ConcatProperties
<1>3. ASSUME NEW i \in 1..(Len(s) + Len(t))
      PROVE  \/ i \in DOMAIN s /\ (s \o t)[i] = s[i]
             \/ Len(s) < i /\ i - Len(s) \in DOMAIN t /\ (s \o t)[i] = t[i - Len(s)]
  <2>1. CASE i <= Len(s)
    <3>1. i \in DOMAIN s /\ (s \o t)[i] = s[i]
      BY <1>1, <1>2, <2>1
    <3> QED BY <3>1
  <2>2. CASE ~ i <= Len(s)
    <3>1. Len(s) < i /\ i - Len(s) \in DOMAIN t /\ (s \o t)[i] = t[i - Len(s)]
      BY <1>1, <1>2, <2>2
    <3> QED BY <3>1
  <2> QED BY <2>1, <2>2
<1>4. ToSet(s) \cup ToSet(t) \subseteq ToSet(s \o t)
  <2>1. \A i \in DOMAIN s : i \in DOMAIN (s \o t) /\ (s \o t)[i] = s[i]
    BY <1>1, <1>2
  <2>2. ASSUME NEW i \in DOMAIN t
        PROVE  i + Len(s) \in DOMAIN (s \o t) /\ (s \o t)[i + Len(s)] = t[i]
    <3>1. \A m, n \in Nat : i \in 1..n => /\ i + m \in 1..(m + n) /\ ~ i + m <= m
                                          /\ (i + m) - m = i
      OBVIOUS
    <3>2. /\ i + Len(s) \in 1..(Len(s) + Len(t)) /\ ~ i + Len(s) <= Len(s)
          /\ (i + Len(s)) - Len(s) = i
      BY <1>1, <2>2, <3>1
    <3> QED BY <1>1, <1>2, <3>2
  <2> QED BY <2>1, <2>2 DEF ToSet
<1>5. ToSet(s \o t) \subseteq ToSet(s) \cup ToSet(t)
  BY <1>1, <1>3 DEF ToSet
<1> QED BY <1>1, <1>3, <1>4, <1>5

\* One rising sequence after another is rising.
LEMMA JoinRises ==
    ASSUME NEW s \in Seq(Nat), NEW t \in Seq(Nat), Rising(s), Rising(t), Before(s, t)
    PROVE  Rising(s \o t)
<1>1. /\ \A i \in DOMAIN (s \o t) : \/ i \in DOMAIN s /\ (s \o t)[i] = s[i]
                                    \/ /\ Len(s) < i /\ i - Len(s) \in DOMAIN t
                                       /\ (s \o t)[i] = t[i - Len(s)]
      /\ DOMAIN (s \o t) = 1..(Len(s) + Len(t))
  BY Joined
<1>2. SUFFICES ASSUME NEW i \in DOMAIN (s \o t), NEW j \in DOMAIN (s \o t), i < j
               PROVE  (s \o t)[i] < (s \o t)[j]
  BY DEF Rising
<1>3. DOMAIN s = 1..Len(s) /\ Len(s) \in Nat /\ Len(t) \in Nat /\ i \in Int /\ j \in Int
  BY <1>1, <1>2
<1>4. CASE j \in DOMAIN s /\ (s \o t)[j] = s[j]
  <2>1. i \in DOMAIN s /\ (s \o t)[i] = s[i]
    BY <1>1, <1>2, <1>3, <1>4
  <2> QED BY <1>2, <1>4, <2>1 DEF Rising
<1>5. CASE /\ Len(s) < j /\ j - Len(s) \in DOMAIN t /\ (s \o t)[j] = t[j - Len(s)]
  <2>1. CASE i \in DOMAIN s /\ (s \o t)[i] = s[i]
    BY <1>5, <2>1 DEF Before
  <2>2. CASE Len(s) < i /\ i - Len(s) \in DOMAIN t /\ (s \o t)[i] = t[i - Len(s)]
    <3>1. i - Len(s) < j - Len(s)
      BY <1>2, <1>3
    <3> QED BY <1>5, <2>2, <3>1 DEF Rising
  <2> QED BY <1>1, <2>1, <2>2
<1> QED BY <1>1, <1>4, <1>5

\* What comes after, or before, both of two sequences does so to one after the other.
LEMMA JoinBefore ==
    ASSUME NEW s \in Seq(Nat), NEW t \in Seq(Nat), NEW u, Before(s, u), Before(t, u)
    PROVE  Before(s \o t, u)
<1>1. \A i \in DOMAIN (s \o t) : \/ \E k \in DOMAIN s : (s \o t)[i] = s[k]
                                 \/ \E k \in DOMAIN t : (s \o t)[i] = t[k]
  BY Joined
<1> QED BY <1>1, Zenon DEF Before

\* And the other way round.
LEMMA JoinAfter ==
    ASSUME NEW s \in Seq(Nat), NEW t \in Seq(Nat), NEW u, Before(u, s), Before(u, t)
    PROVE  Before(u, s \o t)
<1>1. \A i \in DOMAIN (s \o t) : \/ \E k \in DOMAIN s : (s \o t)[i] = s[k]
                                 \/ \E k \in DOMAIN t : (s \o t)[i] = t[k]
  BY Joined
<1> QED BY <1>1, Zenon DEF Before

\* No number is on an edge and at one of its ends.
LEMMA Apart ==
    ASSUME NEW s \in Seq(Nat), NEW t \in Seq(Nat), Before(s, t)
    PROVE  ToSet(s) \cap ToSet(t) = {}
<1>1. SUFFICES ASSUME NEW i \in DOMAIN s, NEW j \in DOMAIN t, s[i] = t[j] PROVE FALSE
  BY DEF ToSet
<1>2. s[i] \in Nat /\ s[i] < t[j]
  BY DEF Before
<1> QED BY <1>1, <1>2

\* What a board's guest drives is the newest of all.
LEMMA Drives ==
    ASSUME NEW r \in Seq(Nat), NEW e \in Seq(Nat), NEW w \in Seq(Nat), NEW driven \in Nat,
           NEW gone, InOrder(r, e, w, driven, gone)
    PROVE  InOrder(r, e, Append(w, driven + 1), driven + 1, gone)
<1> DEFINE new == <<driven + 1>>
<1>0. /\ Rising(r) /\ Rising(e) /\ Rising(w)
      /\ Before(r, e) /\ Before(r, w) /\ Before(e, w)
      /\ ToSet(r) \cup ToSet(e) \cup ToSet(w) = 1..driven \ gone /\ gone \subseteq 1..driven
  BY DEF InOrder
<1>1. new \in Seq(Nat) /\ DOMAIN new = {1} /\ new[1] = driven + 1
  OBVIOUS
<1>2. ToSet(new) = {driven + 1}
  BY <1>1 DEF ToSet
<1>3. \A n \in ToSet(r) \cup ToSet(e) \cup ToSet(w) : n < driven + 1
  BY <1>0
<1>4. Append(w, driven + 1) = w \o new
  BY AppendIsConcat
<1> HIDE DEF new
<1>5. Before(r, new) /\ Before(e, new) /\ Before(w, new)
  BY <1>1, <1>3 DEF Before, ToSet
<1>6. Rising(new)
  BY <1>1 DEF Rising
<1>7. ToSet(w \o new) = ToSet(w) \cup ToSet(new)
  BY <1>1, Joined
<1>8. Rising(w \o new)
  BY <1>0, <1>1, <1>5, <1>6, JoinRises
<1>9. Before(r, w \o new) /\ Before(e, w \o new)
  BY <1>0, <1>1, <1>5, JoinAfter
<1>10. 1..(driven + 1) = 1..driven \cup {driven + 1} /\ driven + 1 \notin 1..driven
  OBVIOUS
<1>11. ToSet(r) \cup ToSet(e) \cup ToSet(w \o new) = 1..(driven + 1) \ gone
       /\ gone \subseteq 1..(driven + 1)
  BY <1>0, <1>2, <1>7, <1>10
<1> QED BY <1>0, <1>4, <1>8, <1>9, <1>11 DEF InOrder

\* Members of an edge that are lost leave the rest in order.
LEMMA Loses ==
    ASSUME NEW r \in Seq(Nat), NEW e \in Seq(Nat), NEW w \in Seq(Nat), NEW driven \in Nat,
           NEW gone, InOrder(r, e, w, driven, gone), NEW rest \in Seq(Nat), Piece(rest, e)
    PROVE  InOrder(r, rest, w, driven, gone \cup (ToSet(e) \ ToSet(rest)))
<1>1. /\ Rising(r) /\ Rising(e) /\ Rising(w)
      /\ Before(r, e) /\ Before(r, w) /\ Before(e, w)
      /\ ToSet(r) \cup ToSet(e) \cup ToSet(w) = 1..driven \ gone /\ gone \subseteq 1..driven
  BY DEF InOrder
<1>2. Rising(rest) /\ Before(r, rest) /\ ToSet(rest) \subseteq ToSet(e)
  BY <1>1, PieceRises
<1>3. Before(rest, w)
  BY <1>1, PieceBefore
<1>4. ToSet(r) \cap ToSet(e) = {} /\ ToSet(e) \cap ToSet(w) = {}
  BY <1>1, Apart
<1>5. ToSet(r) \cup ToSet(rest) \cup ToSet(w) = 1..driven \ (gone \cup (ToSet(e) \ ToSet(rest)))
      /\ gone \cup (ToSet(e) \ ToSet(rest)) \subseteq 1..driven
  BY <1>1, <1>2, <1>4
<1> QED BY <1>1, <1>2, <1>3, <1>5 DEF InOrder

\* The oldest pending number goes to the edge, or is refused.
LEMMA Sends ==
    ASSUME NEW r \in Seq(Nat), NEW e \in Seq(Nat), NEW w \in Seq(Nat), w # <<>>,
           NEW driven \in Nat, NEW gone, InOrder(r, e, w, driven, gone)
    PROVE  /\ InOrder(r, Append(e, Head(w)), Tail(w), driven, gone)
           /\ InOrder(r, e, Tail(w), driven, gone \cup ({Head(w)} \ ToSet(e)))
<1> DEFINE first == <<Head(w)>>
           rest == Tail(w)
<1>0. /\ Rising(r) /\ Rising(e) /\ Rising(w)
      /\ Before(r, e) /\ Before(r, w) /\ Before(e, w)
      /\ ToSet(r) \cup ToSet(e) \cup ToSet(w) = 1..driven \ gone /\ gone \subseteq 1..driven
  BY DEF InOrder
<1>1. /\ rest \in Seq(Nat) /\ Len(rest) = Len(w) - 1 /\ Len(w) \in Nat \ {0}
      /\ \A i \in 1..Len(rest) : rest[i] = w[i + 1]
      /\ Head(w) = w[1] /\ Head(w) \in Nat
  BY HeadTailProperties, EmptySeq
<1>2. first \in Seq(Nat) /\ DOMAIN first = {1} /\ first[1] = w[1]
  BY <1>1
<1>3. /\ DOMAIN w = 1..Len(w) /\ DOMAIN rest = 1..Len(rest)
      /\ Append(e, Head(w)) = e \o first
  BY <1>1, AppendIsConcat
<1> HIDE DEF first, rest
<1>4. 1 \in DOMAIN w /\ \A i \in DOMAIN rest : 1 < i + 1 /\ i + 1 \in DOMAIN w /\ rest[i] = w[i + 1]
  <2>1. 1 \in DOMAIN w
    BY <1>1, <1>3
  <2>2. ASSUME NEW i \in DOMAIN rest PROVE 1 < i + 1 /\ i + 1 \in DOMAIN w /\ rest[i] = w[i + 1]
    <3>1. i \in 1..Len(rest)
      BY <1>3, <2>2
    <3>2. 1 < i + 1 /\ i + 1 \in 1..Len(w)
      <4>1. \A n \in Nat \ {0} : i \in 1..(n - 1) => 1 < i + 1 /\ i + 1 \in 1..n
        OBVIOUS
      <4> QED BY <1>1, <3>1, <4>1
    <3> QED BY <1>1, <1>3, <3>1, <3>2
  <2> QED BY <2>1, <2>2
<1>5. Piece(first, w) /\ Piece(rest, w)
  <2>1. \A i \in DOMAIN first : i + 0 \in DOMAIN w /\ first[i] = w[i + 0]
    BY <1>1, <1>2, <1>4
  <2> QED BY <1>4, <2>1 DEF Piece
<1>6. Rising(first) /\ Before(r, first) /\ Before(e, first) /\ ToSet(first) \subseteq ToSet(w)
  BY <1>0, <1>2, <1>5, PieceRises
<1>7. Rising(rest) /\ Before(r, rest) /\ Before(e, rest) /\ ToSet(rest) \subseteq ToSet(w)
  BY <1>0, <1>1, <1>5, PieceRises
<1>8. Before(first, rest)
  <2>1. SUFFICES ASSUME NEW j \in DOMAIN rest PROVE w[1] < rest[j]
    BY <1>2 DEF Before
  <2> QED BY <1>0, <1>4, <2>1 DEF Rising
<1>9. ToSet(first) = {Head(w)}
  BY <1>1, <1>2 DEF ToSet
<1>10. ToSet(w) = ToSet(first) \cup ToSet(rest)
  <2>1. ASSUME NEW i \in DOMAIN w PROVE w[i] \in ToSet(first) \cup ToSet(rest)
    <3>1. CASE i = 1
      BY <1>1, <1>9, <3>1
    <3>2. CASE i # 1
      <4>1. \A n \in Nat : i \in 1..n => i - 1 \in 1..(n - 1) /\ (i - 1) + 1 = i
        BY <3>2
      <4>2. i - 1 \in 1..Len(rest) /\ (i - 1) + 1 = i
        BY <1>1, <1>3, <2>1, <4>1
      <4>3. i - 1 \in DOMAIN rest /\ rest[i - 1] = w[i]
        BY <1>1, <1>3, <4>2
      <4> QED BY <4>3 DEF ToSet
    <3> QED BY <3>1, <3>2
  <2>2. ToSet(w) \subseteq ToSet(first) \cup ToSet(rest)
    BY <2>1 DEF ToSet
  <2> QED BY <1>6, <1>7, <2>2
<1>11. Rising(e \o first)
  BY <1>0, <1>2, <1>6, JoinRises
<1>12. Before(r, e \o first)
  BY <1>0, <1>2, <1>6, JoinAfter
<1>13. Before(e \o first, rest)
  BY <1>1, <1>2, <1>7, <1>8, JoinBefore
<1>14. ToSet(e \o first) = ToSet(e) \cup ToSet(first)
  BY <1>2, Joined
<1>15. /\ ToSet(e) \cap ToSet(first) = {} /\ ToSet(r) \cap ToSet(first) = {}
       /\ ToSet(first) \cap ToSet(rest) = {}
  BY <1>1, <1>2, <1>6, <1>8, Apart
<1>16. ToSet(r) \cup ToSet(e \o first) \cup ToSet(rest) = 1..driven \ gone
  BY <1>0, <1>10, <1>14
<1>17. ToSet(r) \cup ToSet(e) \cup ToSet(rest) = 1..driven \ (gone \cup ({Head(w)} \ ToSet(e)))
       /\ gone \cup ({Head(w)} \ ToSet(e)) \subseteq 1..driven
  BY <1>0, <1>9, <1>10, <1>15
<1>18. InOrder(r, e \o first, rest, driven, gone)
  BY <1>0, <1>7, <1>11, <1>12, <1>13, <1>16 DEF InOrder
<1>19. InOrder(r, e, rest, driven, gone \cup ({Head(w)} \ ToSet(e)))
  BY <1>0, <1>7, <1>17 DEF InOrder
<1> QED BY <1>3, <1>18, <1>19 DEF rest

\* The oldest numbers on the edge are received.
LEMMA Receives ==
    ASSUME NEW r \in Seq(Nat), NEW e \in Seq(Nat), NEW w \in Seq(Nat), NEW driven \in Nat,
           NEW gone, InOrder(r, e, w, driven, gone), NEW k \in 0..Len(e)
    PROVE  InOrder(r \o SubSeq(e, 1, k), SubSeq(e, k + 1, Len(e)), w, driven, gone)
<1> DEFINE first == SubSeq(e, 1, k)
           rest == SubSeq(e, k + 1, Len(e))
<1>0. /\ Rising(r) /\ Rising(e) /\ Rising(w)
      /\ Before(r, e) /\ Before(r, w) /\ Before(e, w)
      /\ ToSet(r) \cup ToSet(e) \cup ToSet(w) = 1..driven \ gone /\ gone \subseteq 1..driven
  BY DEF InOrder
<1>1. /\ first \in Seq(Nat) /\ rest \in Seq(Nat)
      /\ first \o rest = e
  <2>1. /\ \A i \in 1..k : e[i] \in Nat
        /\ \A i \in (k + 1)..Len(e) : e[i] \in Nat
    OBVIOUS
  <2>2. first \in Seq(Nat) /\ rest \in Seq(Nat)
    BY <2>1, SubSeqProperties
  <2>3. Len(e) \in Nat /\ 1 \in 1..(Len(e) + 1) /\ k \in (1 - 1)..Len(e) /\ Len(e) \in k..Len(e)
    OBVIOUS
  <2>4. first \o rest = SubSeq(e, 1, Len(e))
    BY <2>3, ConcatAdjacentSubSeq
  <2> QED BY <2>2, <2>4, SubSeqFull
<1> HIDE DEF first, rest
<1>2. /\ DOMAIN first = 1..Len(first) /\ DOMAIN rest = 1..Len(rest)
      /\ Len(first) \in Nat /\ Len(rest) \in Nat /\ DOMAIN e = 1..(Len(first) + Len(rest))
      /\ \A i \in 1..(Len(first) + Len(rest)) :
            e[i] = IF i <= Len(first) THEN first[i] ELSE rest[i - Len(first)]
  <2>1. /\ Len(first \o rest) = Len(first) + Len(rest)
        /\ \A i \in 1..(Len(first) + Len(rest)) :
              (first \o rest)[i] = IF i <= Len(first) THEN first[i] ELSE rest[i - Len(first)]
    BY <1>1, ConcatProperties
  <2>2. /\ Len(e) = Len(first) + Len(rest)
        /\ \A i \in 1..(Len(first) + Len(rest)) :
              e[i] = IF i <= Len(first) THEN first[i] ELSE rest[i - Len(first)]
    BY <1>1, <2>1, Zenon
  <2>3. /\ DOMAIN first = 1..Len(first) /\ DOMAIN rest = 1..Len(rest)
        /\ Len(first) \in Nat /\ Len(rest) \in Nat /\ DOMAIN e = 1..Len(e)
    BY <1>1
  <2> QED BY <2>2, <2>3
<1>3. /\ \A i \in DOMAIN first : i + 0 \in DOMAIN e /\ first[i] = e[i + 0]
      /\ \A i \in DOMAIN rest : i + Len(first) \in DOMAIN e /\ rest[i] = e[i + Len(first)]
  <2>1. ASSUME NEW i \in DOMAIN first PROVE i + 0 \in DOMAIN e /\ first[i] = e[i + 0]
    <3>1. i \in 1..(Len(first) + Len(rest)) /\ i <= Len(first) /\ i + 0 = i
      BY <1>2, <2>1
    <3> QED BY <1>2, <3>1
  <2>2. ASSUME NEW i \in DOMAIN rest
        PROVE  i + Len(first) \in DOMAIN e /\ rest[i] = e[i + Len(first)]
    <3>1. /\ i + Len(first) \in 1..(Len(first) + Len(rest)) /\ ~ i + Len(first) <= Len(first)
          /\ (i + Len(first)) - Len(first) = i
      <4>1. \A m, n \in Nat : i \in 1..n => /\ i + m \in 1..(m + n) /\ ~ i + m <= m
                                            /\ (i + m) - m = i
        OBVIOUS
      <4> QED BY <1>2, <2>2, <4>1
    <3> QED BY <1>2, <3>1
  <2> QED BY <2>1, <2>2
<1>4. Piece(first, e) /\ Piece(rest, e)
  BY <1>2, <1>3 DEF Piece
<1>5. Rising(first) /\ Before(r, first) /\ Rising(rest) /\ Before(r, rest)
  BY <1>0, <1>1, <1>4, PieceRises
<1>6. Before(first, w) /\ Before(rest, w)
  BY <1>0, <1>1, <1>4, PieceBefore
<1>7. Before(first, rest)
  <2>1. SUFFICES ASSUME NEW i \in DOMAIN first, NEW j \in DOMAIN rest PROVE first[i] < rest[j]
    BY DEF Before
  <2>2. i \in DOMAIN e /\ first[i] = e[i] /\ j + Len(first) \in DOMAIN e
        /\ rest[j] = e[j + Len(first)] /\ i < j + Len(first)
    BY <1>2, <1>3, <2>1
  <2> QED BY <1>0, <2>2 DEF Rising
<1>8. ToSet(e) = ToSet(first) \cup ToSet(rest)
  BY <1>1, Joined
<1>9. Rising(r \o first)
  BY <1>0, <1>1, <1>5, JoinRises
<1>10. Before(r \o first, rest)
  BY <1>1, <1>5, <1>7, JoinBefore
<1>11. Before(r \o first, w)
  BY <1>0, <1>1, <1>6, JoinBefore
<1>12. ToSet(r \o first) = ToSet(r) \cup ToSet(first)
  BY <1>1, Joined
<1>13. ToSet(r \o first) \cup ToSet(rest) \cup ToSet(w) = 1..driven \ gone
  BY <1>0, <1>8, <1>12
<1>14. InOrder(r \o first, rest, w, driven, gone)
  BY <1>0, <1>5, <1>6, <1>9, <1>10, <1>11, <1>13 DEF InOrder
<1> QED BY <1>14 DEF first, rest

\* The numbers of frames, one by one.
LEMMA NumbersProperties ==
    ASSUME NEW frames \in Seq(Frame)
    PROVE  /\ NumbersOf(frames) \in Seq(Nat) /\ Len(NumbersOf(frames)) = Len(frames)
           /\ \A i \in 1..Len(frames) : NumbersOf(frames)[i] = frames[i].number
<1>1. DOMAIN frames = 1..Len(frames) /\ Len(frames) \in Nat
  OBVIOUS
<1>2. ASSUME NEW i \in 1..Len(frames) PROVE frames[i].number \in Nat
  <2>1. frames[i] \in Frame
    OBVIOUS
  <2> QED BY <2>1 DEF Frame
<1>3. NumbersOf(frames) = [i \in 1..Len(frames) |-> frames[i].number]
  BY <1>1 DEF NumbersOf
<1> QED BY <1>1, <1>2, <1>3

\* Numbers follow a frame that is appended (a drive, a send).
LEMMA NumbersOfAppend ==
    ASSUME NEW frames \in Seq(Frame), NEW f \in Frame
    PROVE  NumbersOf(Append(frames, f)) = Append(NumbersOf(frames), f.number)
<1> DEFINE more == Append(frames, f)
           left == NumbersOf(more)
           right == Append(NumbersOf(frames), f.number)
<1>1. f.number \in Nat /\ Len(frames) \in Nat
  BY DEF Frame
<1>2. /\ more \in Seq(Frame) /\ Len(more) = Len(frames) + 1
      /\ \A i \in 1..Len(frames) : more[i] = frames[i]
      /\ more[Len(frames) + 1] = f
  BY AppendProperties
<1>3. /\ NumbersOf(frames) \in Seq(Nat) /\ Len(NumbersOf(frames)) = Len(frames)
      /\ \A i \in 1..Len(frames) : NumbersOf(frames)[i] = frames[i].number
  BY NumbersProperties
<1> HIDE DEF more
<1>4. /\ left \in Seq(Nat) /\ Len(left) = Len(frames) + 1
      /\ \A i \in 1..(Len(frames) + 1) : left[i] = more[i].number
  BY <1>2, NumbersProperties
<1>5. /\ right \in Seq(Nat) /\ Len(right) = Len(frames) + 1
      /\ \A i \in 1..Len(frames) : right[i] = NumbersOf(frames)[i]
      /\ right[Len(frames) + 1] = f.number
  BY <1>1, <1>3, AppendProperties
<1> HIDE DEF left, right
<1>6. ASSUME NEW i \in 1..(Len(frames) + 1) PROVE left[i] = right[i]
  <2>1. CASE i \in 1..Len(frames)
    BY <1>2, <1>3, <1>4, <1>5, <2>1
  <2>2. CASE i = Len(frames) + 1
    BY <1>2, <1>4, <1>5, <2>2
  <2> QED BY <1>1, <2>1, <2>2
<1>7. left = right
  BY <1>4, <1>5, <1>6, SeqEqual
<1> QED BY <1>7 DEF left, right, more

\* They follow the oldest frame that leaves (pump_tx).
LEMMA NumbersOfTail ==
    ASSUME NEW frames \in Seq(Frame), frames # <<>>
    PROVE  /\ NumbersOf(Tail(frames)) = Tail(NumbersOf(frames))
           /\ Head(NumbersOf(frames)) = Head(frames).number
           /\ NumbersOf(frames) # <<>> /\ Head(frames) \in Frame /\ Tail(frames) \in Seq(Frame)
<1> DEFINE rest == Tail(frames)
           all == NumbersOf(frames)
           left == NumbersOf(rest)
           right == Tail(all)
<1>1. /\ rest \in Seq(Frame) /\ Len(rest) = Len(frames) - 1 /\ Len(frames) \in Nat \ {0}
      /\ \A i \in 1..Len(rest) : rest[i] = frames[i + 1]
      /\ Head(frames) \in Frame /\ Head(frames) = frames[1]
  BY HeadTailProperties, EmptySeq
<1>2. /\ all \in Seq(Nat) /\ Len(all) = Len(frames)
      /\ \A i \in 1..Len(frames) : all[i] = frames[i].number
  BY NumbersProperties
<1> HIDE DEF rest, all
<1>3. all # <<>>
  BY <1>1, <1>2, EmptySeq
<1>4. /\ left \in Seq(Nat) /\ Len(left) = Len(frames) - 1
      /\ \A i \in 1..(Len(frames) - 1) : left[i] = rest[i].number
  BY <1>1, NumbersProperties
<1>5. /\ right \in Seq(Nat) /\ Len(right) = Len(frames) - 1
      /\ \A i \in 1..(Len(frames) - 1) : right[i] = all[i + 1]
  BY <1>2, <1>3, HeadTailProperties
<1>6. Head(all) = frames[1].number
  <2>1. 1 \in 1..Len(frames) /\ Head(all) = all[1]
    BY <1>1, <1>2, <1>3
  <2> QED BY <1>2, <2>1
<1> HIDE DEF left, right
<1>7. ASSUME NEW i \in 1..(Len(frames) - 1) PROVE left[i] = right[i]
  <2>1. i + 1 \in 1..Len(frames)
    BY <1>1
  <2>2. left[i] = rest[i].number /\ right[i] = all[i + 1]
    BY <1>4, <1>5
  <2>3. rest[i] = frames[i + 1]
    BY <1>1
  <2> QED BY <1>2, <2>1, <2>2, <2>3
<1>8. left = right
  BY <1>4, <1>5, <1>7, SeqEqual
<1> QED BY <1>1, <1>3, <1>6, <1>8 DEF left, right, rest, all

\* And a part of the frames that is taken off an edge (pump_rx).
LEMMA NumbersOfSub ==
    ASSUME NEW frames \in Seq(Frame), NEW m \in 1..(Len(frames) + 1), NEW n \in 0..Len(frames)
    PROVE  /\ SubSeq(frames, m, n) \in Seq(Frame)
           /\ NumbersOf(SubSeq(frames, m, n)) = SubSeq(NumbersOf(frames), m, n)
<1> DEFINE part == SubSeq(frames, m, n)
           all == NumbersOf(frames)
           left == NumbersOf(part)
           right == SubSeq(all, m, n)
           size == IF m <= n THEN n - m + 1 ELSE 0
<1>0. m \in Int /\ n \in Int /\ Len(frames) \in Nat /\ size \in Nat /\ m..n \subseteq 1..Len(frames)
  OBVIOUS
<1>1. /\ all \in Seq(Nat) /\ Len(all) = Len(frames)
      /\ \A i \in 1..Len(frames) : all[i] = frames[i].number
  BY NumbersProperties
<1>2. \A i \in m..n : frames[i] \in Frame
  BY <1>0
<1>3. /\ part \in Seq(Frame) /\ Len(part) = size
      /\ \A i \in 1..(n - m + 1) : part[i] = frames[m + i - 1]
  BY <1>0, <1>2, SubSeqProperties
<1> HIDE DEF part, all
<1>4. \A i \in m..n : all[i] \in Nat
  BY <1>0, <1>1
<1>5. /\ right \in Seq(Nat) /\ Len(right) = size
      /\ \A i \in 1..(n - m + 1) : right[i] = all[m + i - 1]
  BY <1>0, <1>4, SubSeqProperties
<1>6. /\ left \in Seq(Nat) /\ Len(left) = size
      /\ \A i \in 1..size : left[i] = part[i].number
  BY <1>3, NumbersProperties
<1> HIDE DEF left, right
<1>7. ASSUME NEW i \in 1..size PROVE left[i] = right[i]
  <2>1. i \in 1..(n - m + 1) /\ m + i - 1 \in 1..Len(frames)
    BY <1>0
  <2> HIDE DEF size
  <2>2. part[i] = frames[m + i - 1] /\ right[i] = all[m + i - 1] /\ left[i] = part[i].number
    BY <1>3, <1>5, <1>6, <2>1
  <2> QED BY <1>1, <2>1, <2>2
<1> HIDE DEF size
<1>8. left = right
  BY <1>5, <1>6, <1>7, SeqEqual
<1> QED BY <1>3, <1>8 DEF left, right, part, all

\* Frames that keep their numbers.
LEMMA SameNumbers ==
    ASSUME NEW frames, NEW others, DOMAIN others = DOMAIN frames,
           \A i \in DOMAIN frames : others[i].number = frames[i].number
    PROVE  NumbersOf(others) = NumbersOf(frames)
BY DEF NumbersOf

\* What an edge holds after it dropped its oldest frame is a piece of what it held.
LEMMA KeepLastPiece ==
    ASSUME NEW frames \in Seq(Frame), NEW cap \in Nat
    PROVE  /\ KeepLast(frames, cap) \in Seq(Frame)
           /\ Piece(NumbersOf(KeepLast(frames, cap)), NumbersOf(frames))
<1> DEFINE all == NumbersOf(frames)
<1>0. all \in Seq(Nat) /\ Len(all) = Len(frames) /\ Len(frames) \in Nat
  BY NumbersProperties
<1>1. CASE Len(frames) <= cap
  <2>1. KeepLast(frames, cap) = frames
    BY <1>1 DEF KeepLast
  <2>2. \A i \in DOMAIN all : i + 0 \in DOMAIN all /\ all[i] = all[i + 0]
    BY <1>0
  <2>3. Piece(all, all)
    BY <2>2 DEF Piece
  <2> QED BY <2>1, <2>3
<1>2. CASE ~ Len(frames) <= cap
  <2> DEFINE m == Len(frames) - cap + 1
             part == SubSeq(all, m, Len(frames))
  <2>1. KeepLast(frames, cap) = SubSeq(frames, m, Len(frames))
    BY <1>2 DEF KeepLast
  <2>2. m \in 1..(Len(frames) + 1) /\ Len(frames) \in 0..Len(frames) /\ m - 1 \in Nat
    BY <1>0, <1>2
  <2>3. KeepLast(frames, cap) \in Seq(Frame) /\ NumbersOf(KeepLast(frames, cap)) = part
    BY <2>1, <2>2, NumbersOfSub
  <2> HIDE DEF m, all
  <2>4. \A i \in m..Len(frames) : all[i] \in Nat
    BY <1>0, <2>2
  <2>5. /\ part \in Seq(Nat) /\ Len(part) = IF m <= Len(frames) THEN Len(frames) - m + 1 ELSE 0
        /\ \A i \in 1..(Len(frames) - m + 1) : part[i] = all[m + i - 1]
    BY <1>0, <2>2, <2>4, SubSeqProperties
  <2> HIDE DEF part
  <2>6. ASSUME NEW i \in DOMAIN part PROVE i + (m - 1) \in DOMAIN all /\ part[i] = all[i + (m - 1)]
    <3>1. /\ i \in 1..(Len(frames) - m + 1) /\ m + i - 1 = i + (m - 1)
          /\ i + (m - 1) \in 1..Len(frames)
      <4>1. /\ DOMAIN part = 1..Len(part) /\ m \in Nat /\ m >= 1
            /\ m <= Len(frames) \/ Len(part) = 0
        BY <1>0, <2>2, <2>5
      <4>2. i \in 1..(Len(frames) - m + 1)
        BY <2>5, <2>6, <4>1
      <4> QED BY <1>0, <4>1, <4>2
    <3> QED BY <1>0, <2>5, <3>1
  <2>7. Piece(part, all)
    BY <2>2, <2>6 DEF Piece
  <2> QED BY <2>3, <2>7 DEF all
<1> QED BY <1>1, <1>2

\* What a board's guest drives is numbered next, after what is pending.
LEMMA DriveNumbers ==
    ASSUME NEW b \in Boards, NEW end \in Nat \cup {NoLimit}, Drive(b, end),
           pending \in [Boards -> Seq(Frame)], sent \in [Boards -> Nat]
    PROVE  /\ pending' \in [Boards -> Seq(Frame)] /\ sent' \in [Boards -> Nat]
           /\ \A c \in Boards : c # b => pending'[c] = pending[c]
           /\ \A c \in Boards :
                 \/ NumbersOf(pending'[c]) = NumbersOf(pending[c]) /\ sent'[c] = sent[c]
                 \/ /\ NumbersOf(pending'[c]) = Append(NumbersOf(pending[c]), sent[c] + 1)
                    /\ sent'[c] = sent[c] + 1
<1> DEFINE ended == [i \in DOMAIN pending[b] |->
                       [pending[b][i] EXCEPT !.end = IF @ = NoLimit THEN end ELSE @]]
           new == [number |-> sent[b] + 1, end |-> end]
<1>1. /\ DOMAIN ended = DOMAIN pending[b]
      /\ \A i \in DOMAIN pending[b] : ended[i] \in Frame /\ ended[i].number = pending[b][i].number
  <2>1. pending[b] \in Seq(Frame)
    OBVIOUS
  <2>2. ASSUME NEW f \in Frame
        PROVE  /\ [f EXCEPT !.end = IF @ = NoLimit THEN end ELSE @] \in Frame
               /\ [f EXCEPT !.end = IF @ = NoLimit THEN end ELSE @].number = f.number
    BY DEF Frame
  <2>3. \A i \in DOMAIN pending[b] : pending[b][i] \in Frame
    BY <2>1
  <2> QED BY <2>2, <2>3
<1>2. new \in Frame /\ new.number = sent[b] + 1
  BY DEF Frame
<1>3. \/ pending' = [pending EXCEPT ![b] = ended] /\ sent' = sent
      \/ /\ sent' = [sent EXCEPT ![b] = sent[b] + 1]
         /\ pending' = [pending EXCEPT ![b] = Append(ended, new)]
  BY DEF Drive
<1>4. ended = [i \in 1..Len(pending[b]) |-> ended[i]]
  <2>1. DOMAIN pending[b] = 1..Len(pending[b])
    OBVIOUS
  <2> QED BY <2>1
<1> HIDE DEF ended, new
<1>5. ended \in Seq(Frame)
  <2>1. DOMAIN pending[b] = 1..Len(pending[b]) /\ Len(pending[b]) \in Nat
    OBVIOUS
  <2> QED BY <1>1, <1>4, <2>1
<1>6. NumbersOf(ended) = NumbersOf(pending[b])
  BY <1>1, SameNumbers
<1>7. /\ Append(ended, new) \in Seq(Frame)
      /\ NumbersOf(Append(ended, new)) = Append(NumbersOf(pending[b]), sent[b] + 1)
  <2>1. Append(ended, new) \in Seq(Frame)
    BY <1>2, <1>5, AppendProperties
  <2>2. NumbersOf(Append(ended, new)) = Append(NumbersOf(ended), new.number)
    BY <1>2, <1>5, NumbersOfAppend
  <2> QED BY <1>2, <1>6, <2>1, <2>2
<1>8. CASE pending' = [pending EXCEPT ![b] = ended] /\ sent' = sent
  <2>1. pending'[b] = ended /\ \A c \in Boards : c # b => pending'[c] = pending[c]
    BY <1>8
  <2>2. pending' \in [Boards -> Seq(Frame)]
    BY <1>5, <1>8
  <2> QED BY <1>6, <1>8, <2>1, <2>2
<1>9. CASE /\ sent' = [sent EXCEPT ![b] = sent[b] + 1]
           /\ pending' = [pending EXCEPT ![b] = Append(ended, new)]
  <2>1. /\ pending'[b] = Append(ended, new) /\ sent'[b] = sent[b] + 1
        /\ \A c \in Boards : c # b => pending'[c] = pending[c] /\ sent'[c] = sent[c]
    BY <1>9
  <2>2. pending' \in [Boards -> Seq(Frame)] /\ sent' \in [Boards -> Nat]
    BY <1>7, <1>9
  <2> QED BY <1>7, <2>1, <2>2
<1> QED BY <1>3, <1>8, <1>9

\* So an edge from the board stays in order.
LEMMA DriveInOrder ==
    ASSUME NEW b \in Boards, NEW end \in Nat \cup {NoLimit}, Drive(b, end),
           pending \in [Boards -> Seq(Frame)], sent \in [Boards -> Nat],
           NEW c \in Boards, NEW r \in Seq(Nat), NEW e \in Seq(Nat), NEW gone,
           InOrder(r, e, NumbersOf(pending[c]), sent[c], gone)
    PROVE  InOrder(r, e, NumbersOf(pending'[c]), sent'[c], gone)
<1>1. NumbersOf(pending[c]) \in Seq(Nat) /\ sent[c] \in Nat
  BY NumbersProperties
<1>2. InOrder(r, e, Append(NumbersOf(pending[c]), sent[c] + 1), sent[c] + 1, gone)
  BY <1>1, Drives
<1>3. \/ NumbersOf(pending'[c]) = NumbersOf(pending[c]) /\ sent'[c] = sent[c]
      \/ /\ NumbersOf(pending'[c]) = Append(NumbersOf(pending[c]), sent[c] + 1)
         /\ sent'[c] = sent[c] + 1
  BY DriveNumbers
<1> QED BY <1>2, <1>3, Zenon

\* A poll only drives.
LEMMA OrderPoll ==
    ASSUME TypeOK', OrderInv, NEW b \in Boards, WiredPoll(b)
    PROVE  OrderInv'
<1>1. /\ Drive(b, now'[b]) /\ UNCHANGED <<ringLen, ring, got, lost>>
      /\ phase' = [phase EXCEPT ![b] = IF pending'[b] = <<>> THEN "drain" ELSE "send"]
  BY DEF WiredPoll, GoTo
<1>2. /\ phase \in [Boards -> {"drain", "poll", "send"}]
      /\ pending \in [Boards -> Seq(Frame)] /\ sent \in [Boards -> Nat]
      /\ ring \in [Edges -> Seq(Frame)] /\ got \in [Edges -> Seq(Nat)]
      /\ now'[b] \in Nat \cup {NoLimit}
  BY DEF OrderInv, WireTypeOK, TypeOK, NodeTypeOK
<1>3. /\ pending' \in [Boards -> Seq(Frame)] /\ sent' \in [Boards -> Nat]
      /\ \A c \in Boards : c # b => pending'[c] = pending[c]
  BY <1>1, <1>2, DriveNumbers
<1>4. WireTypeOK'
  BY <1>1, <1>2, <1>3 DEF OrderInv, WireTypeOK
<1>5. \A c \in Boards : phase'[c] = "send" => pending'[c] # <<>>
  BY <1>1, <1>2, <1>3 DEF OrderInv
<1>6. ASSUME NEW e \in Edges
      PROVE  InOrder(got'[e], NumbersOf(ring'[e]), NumbersOf(pending'[e[1]]), sent'[e[1]], lost'[e])
  <2>1. e[1] \in Boards /\ got[e] \in Seq(Nat) /\ NumbersOf(ring[e]) \in Seq(Nat)
    BY <1>2, EdgesAssumption, NumbersProperties DEF EdgesAssumption
  <2>2. InOrder(got[e], NumbersOf(ring[e]), NumbersOf(pending[e[1]]), sent[e[1]], lost[e])
    BY DEF OrderInv
  <2>3. InOrder(got[e], NumbersOf(ring[e]), NumbersOf(pending'[e[1]]), sent'[e[1]], lost[e])
    BY <1>1, <1>2, <2>1, <2>2, DriveInOrder
  <2> QED BY <1>1, <2>3
<1> QED BY <1>4, <1>5, <1>6 DEF OrderInv

\* What a message does to the edges: a Reset loses all that is on those into the board,
\* a GDB step changes no number.
LEMMA ReceiveOnEdges ==
    ASSUME TypeOK', OrderInv, NEW b \in Boards, DiscardRx(b) \/ WaitFor(b, now'[b]),
           NEW e \in Edges
    PROVE  /\ ring'[e] \in Seq(Frame)
           /\ InOrder(got[e], NumbersOf(ring'[e]), NumbersOf(pending[e[1]]), sent[e[1]], lost'[e])
<1>1. /\ ring[e] \in Seq(Frame) /\ got[e] \in Seq(Nat) /\ NumbersOf(ring[e]) \in Seq(Nat)
      /\ NumbersOf(pending[e[1]]) \in Seq(Nat) /\ sent[e[1]] \in Nat /\ now'[b] \in Nat
  <2>1. e[1] \in Boards
    BY EdgesAssumption DEF EdgesAssumption
  <2> QED BY <2>1, NumbersProperties DEF OrderInv, WireTypeOK, TypeOK, NodeTypeOK
<1>2. InOrder(got[e], NumbersOf(ring[e]), NumbersOf(pending[e[1]]), sent[e[1]], lost[e])
  BY DEF OrderInv
<1>3. CASE DiscardRx(b) /\ e \in EdgesInto(b)
  <2>1. ring'[e] = <<>> /\ lost'[e] = lost[e] \cup ToSet(NumbersOf(ring[e]))
    BY <1>3 DEF DiscardRx, Numbers
  <2>2. ring'[e] \in Seq(Frame) /\ NumbersOf(ring'[e]) = <<>>
    BY <2>1, EmptySeq DEF NumbersOf
  <2>3. <<>> \in Seq(Nat) /\ Piece(<<>>, NumbersOf(ring[e])) /\ ToSet(<<>>) = {}
    <3>1. \A i \in DOMAIN <<>> : i + 0 \in DOMAIN NumbersOf(ring[e]) /\ <<>>[i] = NumbersOf(ring[e])[i + 0]
      OBVIOUS
    <3> QED BY <3>1, EmptySeq DEF Piece, ToSet
  <2>4. InOrder(got[e], <<>>, NumbersOf(pending[e[1]]), sent[e[1]],
                lost[e] \cup (ToSet(NumbersOf(ring[e])) \ ToSet(<<>>)))
    BY <1>1, <1>2, <2>3, Loses
  <2>5. lost'[e] = lost[e] \cup (ToSet(NumbersOf(ring[e])) \ ToSet(<<>>))
    BY <2>1, <2>3
  <2> QED BY <2>2, <2>4, <2>5
<1>4. CASE DiscardRx(b) /\ e \notin EdgesInto(b)
  <2>1. ring'[e] = ring[e] /\ lost'[e] = lost[e]
    BY <1>4 DEF DiscardRx
  <2> QED BY <1>1, <1>2, <2>1
<1>5. CASE WaitFor(b, now'[b])
  <2> DEFINE later(f) == IF e \in EdgesInto(b) /\ f.end < now'[b]
                         THEN [f EXCEPT !.end = now'[b]] ELSE f
  <2>1. ring'[e] = [i \in DOMAIN ring[e] |-> later(ring[e][i])] /\ lost'[e] = lost[e]
    BY <1>5 DEF WaitFor
  <2>2. ASSUME NEW f \in Frame PROVE later(f) \in Frame /\ later(f).number = f.number
    BY <1>1 DEF Frame
  <2>3. DOMAIN ring[e] = 1..Len(ring[e]) /\ Len(ring[e]) \in Nat
        /\ \A i \in DOMAIN ring[e] : ring[e][i] \in Frame
    BY <1>1
  <2> HIDE DEF later
  <2>4. \A i \in DOMAIN ring[e] : ring'[e][i] \in Frame /\ ring'[e][i].number = ring[e][i].number
    BY <2>1, <2>2, <2>3
  <2>5. DOMAIN ring'[e] = DOMAIN ring[e]
    BY <2>1
  <2>6. NumbersOf(ring'[e]) = NumbersOf(ring[e])
    BY <2>4, <2>5, SameNumbers
  <2>7. ring'[e] \in Seq(Frame)
    <3>1. ring'[e] = [i \in 1..Len(ring[e]) |-> later(ring[e][i])]
      BY <2>1, <2>3
    <3>2. \A i \in 1..Len(ring[e]) : later(ring[e][i]) \in Frame
      BY <2>2, <2>3
    <3> QED BY <2>3, <3>1, <3>2
  <2> QED BY <1>2, <2>1, <2>6, <2>7
<1> QED BY <1>3, <1>4, <1>5

\* Reading a message.
LEMMA OrderReceive ==
    ASSUME TypeOK', OrderInv, NEW b \in Boards, WiredReceive(b)
    PROVE  OrderInv'
<1>1. phase[b] = "drain" /\ UNCHANGED <<phase, got, ringLen>>
  BY DEF WiredReceive
<1>2. /\ phase \in [Boards -> {"drain", "poll", "send"}]
      /\ pending \in [Boards -> Seq(Frame)] /\ sent \in [Boards -> Nat]
      /\ ring \in [Edges -> Seq(Frame)] /\ got \in [Edges -> Seq(Nat)]
  BY DEF OrderInv, WireTypeOK
<1>3. CASE UNCHANGED <<ring, lost, pending, sent>>
  BY <1>1, <1>3 DEF OrderInv, WireTypeOK
<1>4. CASE (DiscardRx(b) \/ WaitFor(b, now'[b])) /\ Drive(b, NoLimit)
  <2>1. /\ pending' \in [Boards -> Seq(Frame)] /\ sent' \in [Boards -> Nat]
        /\ \A c \in Boards : c # b => pending'[c] = pending[c]
    BY <1>2, <1>4, DriveNumbers
  <2>2. ASSUME NEW e \in Edges
        PROVE  /\ ring'[e] \in Seq(Frame)
               /\ InOrder(got[e], NumbersOf(ring'[e]), NumbersOf(pending[e[1]]), sent[e[1]], lost'[e])
    BY <1>4, ReceiveOnEdges
  <2>3. ring' = [e \in Edges |-> ring'[e]]
    BY <1>2, <1>4 DEF DiscardRx, WaitFor
  <2>4. ring' \in [Edges -> Seq(Frame)]
    BY <2>2, <2>3
  <2>5. WireTypeOK'
    BY <1>1, <1>2, <2>1, <2>4 DEF OrderInv, WireTypeOK
  <2>6. \A c \in Boards : phase'[c] = "send" => pending'[c] # <<>>
    BY <1>1, <2>1 DEF OrderInv
  <2>7. ASSUME NEW e \in Edges
        PROVE  InOrder(got'[e], NumbersOf(ring'[e]), NumbersOf(pending'[e[1]]), sent'[e[1]], lost'[e])
    <3>1. e[1] \in Boards /\ got[e] \in Seq(Nat)
      BY <1>2, EdgesAssumption DEF EdgesAssumption
    <3>2. NumbersOf(ring'[e]) \in Seq(Nat)
      BY <2>2, NumbersProperties
    <3>3. InOrder(got[e], NumbersOf(ring'[e]), NumbersOf(pending'[e[1]]), sent'[e[1]], lost'[e])
      BY <1>2, <1>4, <2>2, <3>1, <3>2, DriveInOrder
    <3> QED BY <1>1, <3>3
  <2> QED BY <2>5, <2>6, <2>7 DEF OrderInv
<1> QED BY <1>3, <1>4 DEF WiredReceive

\* A pass receives the oldest frames of every edge into the board.
LEMMA OrderPumpRx ==
    ASSUME OrderInv, NEW b \in Boards, WiredPumpRx(b)
    PROVE  OrderInv'
<1>1. /\ UNCHANGED <<pending, lost, sent, ringLen>> /\ PumpRx(b)
      /\ phase[b] = "drain" /\ \E place \in {"poll", "drain"} : phase' = [phase EXCEPT ![b] = place]
  BY DEF WiredPumpRx, GoTo
<1>2. /\ phase \in [Boards -> {"drain", "poll", "send"}]
      /\ pending \in [Boards -> Seq(Frame)] /\ sent \in [Boards -> Nat]
      /\ ring \in [Edges -> Seq(Frame)] /\ got \in [Edges -> Seq(Nat)]
  BY DEF OrderInv, WireTypeOK
<1>3. ASSUME NEW e \in Edges
      PROVE  /\ ring'[e] \in Seq(Frame) /\ got'[e] \in Seq(Nat)
             /\ InOrder(got'[e], NumbersOf(ring'[e]), NumbersOf(pending[e[1]]), sent[e[1]], lost[e])
  <2> DEFINE k == Taken(b, e)
             all == NumbersOf(ring[e])
  <2>1. /\ ring[e] \in Seq(Frame) /\ got[e] \in Seq(Nat) /\ Len(ring[e]) \in Nat
        /\ NumbersOf(pending[e[1]]) \in Seq(Nat) /\ sent[e[1]] \in Nat
    BY <1>2, EdgesAssumption, NumbersProperties DEF EdgesAssumption
  <2>2. all \in Seq(Nat) /\ Len(all) = Len(ring[e])
    BY <2>1, NumbersProperties
  <2>3. k \in 0..Len(ring[e])
    BY <2>1, EdgesAssumption DEF Taken, EdgesAssumption
  <2>4. InOrder(got[e], all, NumbersOf(pending[e[1]]), sent[e[1]], lost[e])
    BY DEF OrderInv
  <2>5. /\ got'[e] = got[e] \o NumbersOf(SubSeq(ring[e], 1, k))
        /\ ring'[e] = SubSeq(ring[e], k + 1, Len(ring[e]))
    BY <1>1 DEF PumpRx, DriveIn
  <2> HIDE DEF k, all
  <2>6. 1 \in 1..(Len(ring[e]) + 1) /\ k + 1 \in 1..(Len(ring[e]) + 1)
        /\ Len(ring[e]) \in 0..Len(ring[e])
    BY <2>1, <2>3
  <2>7. /\ NumbersOf(SubSeq(ring[e], 1, k)) = SubSeq(all, 1, k)
        /\ SubSeq(ring[e], 1, k) \in Seq(Frame)
    BY <2>1, <2>3, <2>6, NumbersOfSub DEF all
  <2>8. /\ NumbersOf(ring'[e]) = SubSeq(all, k + 1, Len(all))
        /\ ring'[e] \in Seq(Frame)
    BY <2>1, <2>2, <2>5, <2>6, NumbersOfSub DEF all
  <2>9. got'[e] \in Seq(Nat)
    <3>1. NumbersOf(SubSeq(ring[e], 1, k)) \in Seq(Nat)
      BY ONLY <2>7, NumbersProperties
    <3> QED BY ONLY <2>1, <2>5, <3>1, ConcatProperties
  <2>10. InOrder(got[e] \o SubSeq(all, 1, k), SubSeq(all, k + 1, Len(all)),
                 NumbersOf(pending[e[1]]), sent[e[1]], lost[e])
    BY <2>1, <2>2, <2>3, <2>4, Receives
  <2> QED BY <2>5, <2>7, <2>8, <2>9, <2>10
<1>4. WireTypeOK'
  <2>1. ring' = [e \in Edges |-> ring'[e]] /\ got' = [e \in Edges |-> got'[e]]
    BY <1>1 DEF PumpRx
  <2>2. ring' \in [Edges -> Seq(Frame)] /\ got' \in [Edges -> Seq(Nat)]
    BY <1>3, <2>1
  <2> QED BY <1>1, <1>2, <2>2 DEF OrderInv, WireTypeOK
<1>5. \A c \in Boards : phase'[c] = "send" => pending'[c] # <<>>
  BY <1>1, <1>2 DEF OrderInv
<1> QED BY <1>1, <1>3, <1>4, <1>5 DEF OrderInv

\* The oldest pending frame goes onto an edge, which may drop its oldest, or is refused.
LEMMA SendOnEdge ==
    ASSUME OrderInv, NEW b \in Boards, pending[b] # <<>>, NEW refused \in SUBSET EdgesOutOf(b),
           PumpTx(b, refused), NEW e \in Edges, e[1] = b
    PROVE  /\ ring'[e] \in Seq(Frame)
           /\ InOrder(got[e], NumbersOf(ring'[e]), Tail(NumbersOf(pending[b])), sent[b], lost'[e])
<1> DEFINE frame == Head(pending[b])
           all == NumbersOf(ring[e])
           waiting == NumbersOf(pending[b])
           more == Append(ring[e], frame)
<1>1. /\ ring[e] \in Seq(Frame) /\ got[e] \in Seq(Nat) /\ pending[b] \in Seq(Frame)
      /\ sent[b] \in Nat /\ ringLen[e] \in Nat
  BY EdgesAssumption DEF OrderInv, WireTypeOK, EdgesAssumption
<1>2. /\ frame \in Frame /\ Head(waiting) = frame.number /\ waiting # <<>>
      /\ waiting \in Seq(Nat) /\ all \in Seq(Nat)
  BY <1>1, NumbersOfTail, NumbersProperties
<1>3. InOrder(got[e], all, waiting, sent[b], lost[e])
  BY DEF OrderInv
<1>4. e \in EdgesOutOf(b)
  BY DEF EdgesOutOf
<1>5. /\ ring'[e] = IF e \in refused THEN ring[e] ELSE KeepLast(more, ringLen[e])
      /\ lost'[e] = lost[e] \cup ((ToSet(all) \cup {frame.number}) \ ToSet(NumbersOf(ring'[e])))
  BY <1>4 DEF PumpTx, OntoEdge, Numbers
<1>6. more \in Seq(Frame) /\ NumbersOf(more) = Append(all, frame.number)
  BY <1>1, <1>2, AppendProperties, NumbersOfAppend
<1> HIDE DEF frame, all, waiting, more
<1>7. /\ InOrder(got[e], Append(all, frame.number), Tail(waiting), sent[b], lost[e])
      /\ InOrder(got[e], all, Tail(waiting), sent[b], lost[e] \cup ({frame.number} \ ToSet(all)))
  BY <1>1, <1>2, <1>3, Sends
<1>8. CASE e \in refused
  <2>1. ring'[e] = ring[e] /\ NumbersOf(ring'[e]) = all
    BY <1>5, <1>8 DEF all
  <2>2. lost'[e] = lost[e] \cup ({frame.number} \ ToSet(all))
    BY <1>5, <2>1
  <2> QED BY <1>1, <1>7, <2>1, <2>2 DEF waiting
<1>9. CASE e \notin refused
  <2>1. ring'[e] = KeepLast(more, ringLen[e])
    BY <1>5, <1>9
  <2>2. ring'[e] \in Seq(Frame) /\ Piece(NumbersOf(ring'[e]), NumbersOf(more))
    BY <1>1, <1>6, <2>1, KeepLastPiece
  <2>3. NumbersOf(ring'[e]) \in Seq(Nat) /\ NumbersOf(more) \in Seq(Nat)
    BY <1>6, <2>2, NumbersProperties
  <2>4. Tail(waiting) \in Seq(Nat)
    BY <1>2, HeadTailProperties
  <2>5. InOrder(got[e], NumbersOf(ring'[e]), Tail(waiting), sent[b],
                lost[e] \cup (ToSet(NumbersOf(more)) \ ToSet(NumbersOf(ring'[e]))))
    BY <1>1, <1>6, <1>7, <2>2, <2>3, <2>4, Loses
  <2>6. ToSet(NumbersOf(more)) = ToSet(all) \cup {frame.number}
    <3>1. frame.number \in Nat /\ Append(all, frame.number) = all \o <<frame.number>>
      BY <1>2, AppendIsConcat DEF Frame
    <3>2. ToSet(<<frame.number>>) = {frame.number} /\ <<frame.number>> \in Seq(Nat)
      BY <3>1 DEF ToSet
    <3>3. ToSet(all \o <<frame.number>>) = ToSet(all) \cup ToSet(<<frame.number>>)
      BY <1>2, <3>2, Joined
    <3> QED BY <1>6, <3>1, <3>2, <3>3
  <2> QED BY <1>5, <2>2, <2>5, <2>6 DEF waiting
<1> QED BY <1>8, <1>9

\* Sending takes one frame from what is pending, and it alone.
LEMMA OrderPumpTx ==
    ASSUME OrderInv, NEW b \in Boards, WiredPumpTx(b)
    PROVE  OrderInv'
<1>0. PICK refused \in SUBSET EdgesOutOf(b) : PumpTx(b, refused)
  BY DEF WiredPumpTx
<1>1. /\ phase[b] = "send" /\ got' = got /\ sent' = sent /\ ringLen' = ringLen
      /\ phase' = [phase EXCEPT ![b] = IF Len(pending[b]) = 1 THEN "drain" ELSE "send"]
      /\ pending' = [pending EXCEPT ![b] = Tail(pending[b])]
  BY <1>0 DEF WiredPumpTx, GoTo, PumpTx
<1>2. /\ phase \in [Boards -> {"drain", "poll", "send"}]
      /\ pending \in [Boards -> Seq(Frame)] /\ sent \in [Boards -> Nat]
      /\ ring \in [Edges -> Seq(Frame)] /\ got \in [Edges -> Seq(Nat)]
  BY DEF OrderInv, WireTypeOK
<1>3. pending[b] \in Seq(Frame) /\ pending[b] # <<>>
  BY <1>1, <1>2 DEF OrderInv
<1>4. /\ Tail(pending[b]) \in Seq(Frame) /\ Len(Tail(pending[b])) = Len(pending[b]) - 1
      /\ Len(pending[b]) \in Nat \ {0}
      /\ NumbersOf(Tail(pending[b])) = Tail(NumbersOf(pending[b]))
  BY <1>3, HeadTailProperties, EmptySeq, NumbersOfTail
<1>5. ASSUME NEW e \in Edges
      PROVE  /\ ring'[e] \in Seq(Frame)
             /\ InOrder(got[e], NumbersOf(ring'[e]), NumbersOf(pending'[e[1]]), sent[e[1]], lost'[e])
  <2>1. CASE e[1] = b
    <3>1. NumbersOf(pending'[e[1]]) = Tail(NumbersOf(pending[b]))
      BY <1>1, <1>2, <1>4, <2>1
    <3>2. /\ ring'[e] \in Seq(Frame)
          /\ InOrder(got[e], NumbersOf(ring'[e]), Tail(NumbersOf(pending[b])), sent[b], lost'[e])
      BY <1>0, <1>3, <2>1, SendOnEdge
    <3> QED BY <2>1, <3>1, <3>2
  <2>2. CASE e[1] # b
    <3>1. ring'[e] = ring[e] /\ lost'[e] = lost[e]
      BY <1>0, <2>2 DEF PumpTx, EdgesOutOf
    <3>2. pending'[e[1]] = pending[e[1]]
      BY <1>1, <1>2, <2>2, EdgesAssumption DEF EdgesAssumption
    <3> QED BY <1>2, <3>1, <3>2 DEF OrderInv
  <2> QED BY <2>1, <2>2
<1>6. WireTypeOK'
  <2>1. ring' = [e \in Edges |-> ring'[e]]
    BY <1>0 DEF PumpTx
  <2>2. ring' \in [Edges -> Seq(Frame)]
    BY <1>5, <2>1
  <2> QED BY <1>1, <1>2, <1>4, <2>2 DEF OrderInv, WireTypeOK
<1>7. ASSUME NEW c \in Boards, phase'[c] = "send" PROVE pending'[c] # <<>>
  <2>1. CASE c # b
    BY <1>1, <1>2, <1>7, <2>1 DEF OrderInv
  <2>2. CASE c = b
    <3>1. Len(pending[b]) # 1 /\ pending'[c] = Tail(pending[b])
      BY <1>1, <1>2, <1>7, <2>2
    <3>2. Len(Tail(pending[b])) # 0
      BY <1>4, <3>1
    <3> QED BY <3>1, <3>2, EmptySeq
  <2> QED BY <2>1, <2>2
<1> QED BY <1>1, <1>5, <1>6, <1>7 DEF OrderInv

\* The order survives every step.
LEMMA OrderNext == TypeOK' /\ OrderInv /\ [WiredNext]_wiredVars => OrderInv'
<1>1. SUFFICES ASSUME TypeOK', OrderInv, [WiredNext]_wiredVars PROVE OrderInv'
  OBVIOUS
<1>2. CASE UNCHANGED wireVars
  BY <1>1, <1>2 DEF wireVars, OrderInv, WireTypeOK
<1>3. ASSUME NEW b \in Boards, WiredReceive(b) \/ WiredPoll(b) PROVE OrderInv'
  BY <1>1, <1>3, OrderReceive, OrderPoll
<1>4. ASSUME NEW b \in Boards, WiredPumpRx(b) \/ WiredPumpTx(b) PROVE OrderInv'
  BY <1>1, <1>4, OrderPumpRx, OrderPumpTx
<1> QED BY <1>1, <1>2, <1>3, <1>4 DEF WiredNext, WiredNode, WiredPass, WiredArbiter,
        WiredDie, wiredVars

\* Before anything runs nothing was driven.
LEMMA OrderInit == WiredInit => OrderInv
<1>1. SUFFICES ASSUME WiredInit PROVE OrderInv
  OBVIOUS
<1>2. WireTypeOK /\ \A b \in Boards : phase[b] = "drain"
  BY <1>1, EmptySeq DEF WiredInit, WireInit, WireTypeOK
<1>3. NumbersOf(<<>>) = <<>> /\ ToSet(<<>>) = {}
  BY DEF NumbersOf, ToSet
<1>4. InOrder(<<>>, <<>>, <<>>, 0, {})
  <2>1. Rising(<<>>) /\ Before(<<>>, <<>>)
    BY DEF Rising, Before
  <2>2. 1..0 = {}
    OBVIOUS
  <2> QED BY <1>3, <2>1, <2>2 DEF InOrder
<1>5. ASSUME NEW e \in Edges
      PROVE  InOrder(got[e], NumbersOf(ring[e]), NumbersOf(pending[e[1]]), sent[e[1]], lost[e])
  <2>1. got[e] = <<>> /\ ring[e] = <<>> /\ pending[e[1]] = <<>> /\ sent[e[1]] = 0 /\ lost[e] = {}
    BY <1>1, EdgesAssumption DEF WiredInit, WireInit, EdgesAssumption
  <2> QED BY <1>3, <1>4, <2>1
<1> QED BY <1>2, <1>5 DEF OrderInv

\* The parts in order are one line in order.
LEMMA OrderOnLine == OrderInv => FramesInOrder
<1>1. SUFFICES ASSUME OrderInv, NEW e \in Edges
               PROVE  LET line == got[e] \o NumbersOf(ring[e]) \o NumbersOf(pending[e[1]])
                      IN  Rising(line) /\ ToSet(line) = 1..sent[e[1]] \ lost[e]
  BY DEF FramesInOrder
<1> DEFINE r == got[e]
           all == NumbersOf(ring[e])
           w == NumbersOf(pending[e[1]])
<1>2. r \in Seq(Nat) /\ all \in Seq(Nat) /\ w \in Seq(Nat)
  <2>1. e[1] \in Boards
    BY EdgesAssumption DEF EdgesAssumption
  <2> QED BY <1>1, <2>1, NumbersProperties DEF OrderInv, WireTypeOK
<1>3. InOrder(r, all, w, sent[e[1]], lost[e])
  BY <1>1 DEF OrderInv
<1> HIDE DEF r, all, w
<1>4. /\ Rising(r) /\ Rising(all) /\ Rising(w)
      /\ Before(r, all) /\ Before(r, w) /\ Before(all, w)
      /\ ToSet(r) \cup ToSet(all) \cup ToSet(w) = 1..sent[e[1]] \ lost[e]
  BY <1>3 DEF InOrder
<1>5. r \o all \in Seq(Nat) /\ ToSet(r \o all) = ToSet(r) \cup ToSet(all)
  BY <1>2, Joined
<1>6. Rising(r \o all)
  BY <1>2, <1>4, JoinRises
<1>7. Before(r \o all, w)
  BY <1>2, <1>4, JoinBefore
<1>8. Rising(r \o all \o w)
  BY <1>2, <1>4, <1>5, <1>6, <1>7, JoinRises
<1>9. ToSet(r \o all \o w) = ToSet(r \o all) \cup ToSet(w)
  BY <1>2, <1>5, Joined
<1> QED BY <1>4, <1>5, <1>8, <1>9 DEF r, all, w

\* The order, and the types of the frames, hold always.
LEMMA OrderInvariant == WiredSpec => []OrderInv
<1>1. ClusterInv => TypeOK
  BY DEF ClusterInv
<1> QED BY <1>1, OrderInit, OrderNext, WiredKeepsClusterInv, PTL DEF WiredSpec

\* Every edge keeps the order of what its sender drove, and accounts for every frame,
\* whatever is stepped, reset, overwritten or refused: for any boards, edges and sizes.
THEOREM FramesAreInOrder == WiredSpec => []FramesInOrder
BY OrderInvariant, OrderOnLine, PTL

-----------------------------------------------------------------------------
(* So frames have their types, and those on short edges are on time.       *)

\* What the virtual-time ceiling promises a guest that talks to another board, for any
\* boards, edges, ring lengths, margin and thresholds, and whatever is stepped, reset,
\* lost or refused.
THEOREM FramesOnTime == WiredSpec => FrameOnTime
<1>1. WireTypeOK' /\ ClusterInv /\ ClusterInv' /\ WireInv /\ [WiredNext]_wiredVars => WireInv'
  BY WiredNextInv
<1>2. OrderInv => WireTypeOK
  BY DEF OrderInv
<1>3. WireInv /\ [WiredNext]_wiredVars =>
        [\A e \in ShortEdges : \A i \in 1..(Len(got'[e]) - Len(got[e])) :
            LET slack == Margin + resetSlack + stepSlack
            IN  /\ ring[e][i].end <= now[e[2]] + slack
                /\ now[e[2]] <= ring[e][i].end + slack]_wiredVars
  <2>1. SUFFICES ASSUME WireInv, [WiredNext]_wiredVars, NEW e \in ShortEdges,
                        NEW i \in 1..(Len(got'[e]) - Len(got[e]))
                 PROVE  /\ ring[e][i].end <= now[e[2]] + Slack
                        /\ now[e[2]] <= ring[e][i].end + Slack
    BY DEF Slack
  <2>2. ring[e][i] \in OnTime(e)
    BY <2>1, ReceivedFromEdge
  <2> QED BY <2>2 DEF OnTime
<1>4. WiredSpec => []WireInv
  BY <1>1, <1>2, WiredInitInv, OrderInvariant, WiredKeepsClusterInv, PTL DEF WiredSpec
<1> QED BY <1>3, <1>4, PTL DEF WiredSpec, FrameOnTime
=============================================================================
