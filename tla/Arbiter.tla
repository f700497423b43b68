------------------------------ MODULE Arbiter ------------------------------
(***************************************************************************)
(* The cluster arbiter (sim-cluster/src/arbiter.rs): the Ready barrier,    *)
(* then a loop that drains the host commands, drains the node messages and *)
(* publishes its status.  One action is one host command, or one pass of   *)
(* step_time_sync with the status written after it.                        *)
(*                                                                         *)
(* s2a is not a queue here: its sender is unconstrained, so a command the  *)
(* arbiter takes is any command.  A command dropped by a full s2a queue is *)
(* one that was never taken.                                               *)
(***************************************************************************)
EXTENDS ControlBus

CONSTANTS HostOps,     \* host commands the server issues in this instance
          UntilTimes,  \* `until_ns` values a Start may carry
          MaxCommands, \* bound: host commands taken
          MaxStartups  \* bound: StartupRecord publications

ASSUME ArbiterAssumption ==
    /\ HostOps \subseteq {"Start", "Stop", "Reset", "Step", "Shutdown"}
    /\ UntilTimes \subseteq Nat
    /\ MaxCommands \in Nat /\ MaxStartups \in Nat

VARIABLES stage,      \* "await": Ready barrier; "session"; "failed"; "exited"
          peers,      \* PeerState of every board
          reports,    \* TimeCeiling
          allowed,    \* last ceiling computed
          untilCap,   \* virtual-time cap of the last Start, or NoLimit
          running,    \* the arbiter's view: the cluster runs
          gdb,        \* GdbStepPhase
          stopReason, \* last_stop_reason
          status,     \* last status published to the server
          startups,   \* StartupRecord publications so far
          commands,   \* host commands taken so far
          resetSlack  \* ghost: by how much Resets may have overstated the reports

arbiterVars == <<stage, peers, reports, allowed, untilCap, running, gdb,
                 stopReason, status, startups, commands, resetSlack>>

PeerState == {"AwaitingReady", "Ready", "Running", "Stopped"}

NoStep == [phase |-> "None"]
WaitInsn(b) == [phase |-> "WaitInsn", board |-> b]
CatchUp(reason) == [phase |-> "CatchUp", reason |-> reason]
GdbStepPhase ==
    {NoStep} \cup {WaitInsn(b) : b \in Boards} \cup {CatchUp(r) : r \in StopReason}

Status == [running : BOOLEAN, time : Nat, reason : StopReason \cup {NoReason}]

ArbiterTypeOK ==
    /\ stage \in {"await", "session", "failed", "exited"}
    /\ peers \in [Boards -> PeerState]
    /\ reports \in Reports
    /\ allowed \in Nat
    /\ untilCap \in Nat \cup {NoLimit}
    /\ running \in BOOLEAN
    /\ gdb \in GdbStepPhase
    /\ stopReason \in StopReason \cup {NoReason}
    /\ status \in Status
    /\ startups \in Nat
    /\ commands \in Nat
    /\ resetSlack \in Nat

ArbiterInit ==
    /\ stage = "await"
    /\ peers = [b \in Boards |-> "AwaitingReady"]
    /\ reports = [b \in Boards |-> 0]
    /\ allowed = Margin
    /\ untilCap = NoLimit
    /\ running = FALSE
    /\ gdb = NoStep
    /\ stopReason = NoReason
    /\ status = [running |-> FALSE, time |-> 0, reason |-> NoReason]
    /\ startups = 1
    /\ commands = 0
    /\ resetSlack = 0

-----------------------------------------------------------------------------
(* The messages of one board's queue q that matter to a pass. *)

ReadyIn(q) == \E i \in DOMAIN q : q[i].type = "Ready"
TimesIn(q) == {i \in DOMAIN q : q[i].type = "TimeReport"}
StopsIn(q) == {i \in DOMAIN q : q[i].type = "HostStop"}

LastStop(q) == q[Max(StopsIn(q))].reason

\* Mutant: the map is rebuilt from the messages of this pass.
ReportsOfThisPass ==
    [b \in Boards |-> IF TimesIn(n2a[b]) = {} THEN 0 ELSE n2a[b][Max(TimesIn(n2a[b]))].at]

\* `ceiling.report` over every TimeReport of a drained queue: the last wins.
ReportsAfter ==
    [b \in Boards |-> IF TimesIn(n2a[b]) = {} THEN reports[b]
                      ELSE n2a[b][Max(TimesIn(n2a[b]))].at]

Drained == [b \in Boards |-> <<>>]

\* PeerState::on_start_broadcast.
StartedPeers ==
    [b \in Boards |-> IF peers[b] = "AwaitingReady" THEN peers[b] ELSE "Running"]

StoppedPeers == [b \in Boards |-> "Stopped"]

-----------------------------------------------------------------------------
(* The Ready barrier: await_ready. *)

\* Mutant: one board opens the session.
AnyReady(ps) == \E b \in Boards : ps[b] = "Ready"

AllReady(ps) == \A b \in Boards : ps[b] = "Ready"

\* StartupRecord again, while some board has not answered.
RepublishStartup ==
    /\ stage = "await"
    /\ startups < MaxStartups
    /\ \E b \in Boards : peers[b] = "AwaitingReady"
    /\ Broadcast(<<StartupRecord>>)
    /\ startups' = startups + 1
    /\ UNCHANGED <<n2a, stage, peers, reports, allowed, untilCap, running, gdb,
                   stopReason, status, commands, resetSlack>>

\* Drain n2a; the barrier is complete when every board is Ready.
AwaitReady ==
    /\ stage = "await"
    /\ n2a # Drained
    /\ peers' = [b \in Boards |-> IF ReadyIn(n2a[b]) THEN "Ready" ELSE peers[b]]
    /\ n2a' = Drained
    /\ stage' = IF AllReady(peers') THEN "session" ELSE stage
    /\ UNCHANGED <<a2n, reports, allowed, untilCap, running, gdb, stopReason,
                   status, startups, commands, resetSlack>>

-----------------------------------------------------------------------------
(* Host commands: the inner loop of run_host_session. *)

TakeCommand(op) ==
    /\ stage = "session"
    /\ op \in HostOps
    /\ commands < MaxCommands
    /\ commands' = commands + 1
    /\ UNCHANGED <<n2a, status, startups>>

\* apply_start, `until` at or behind now: stay stopped, or stop.
HostStartBehind(until) ==
    /\ TakeCommand("Start")
    /\ until # NoLimit /\ until <= VirtualTime(reports)
    /\ IF running
       THEN Broadcast(<<ClusterStop("Until")>>) /\ peers' = StoppedPeers
       ELSE UNCHANGED <<a2n, peers>>
    /\ running' = FALSE
    /\ untilCap' = NoLimit
    /\ gdb' = NoStep
    /\ stopReason' = IF stopReason = NoReason THEN "Until" ELSE stopReason
    /\ UNCHANGED <<stage, reports, allowed, resetSlack>>

\* apply_start: resume a stopped cluster or retarget a running one.
HostStart(until) ==
    /\ TakeCommand("Start")
    /\ until = NoLimit \/ until > VirtualTime(reports)
    /\ untilCap' = until
    /\ allowed' = AllowedNsUntil(reports, until)
    /\ Broadcast(<<Start(allowed')>>)
    /\ peers' = StartedPeers
    /\ running' = TRUE
    /\ gdb' = NoStep
    /\ stopReason' = NoReason
    /\ UNCHANGED <<stage, reports, resetSlack>>

\* Stop; a Stop of a cluster that is not running does nothing.
HostStopCluster ==
    /\ TakeCommand("Stop")
    /\ running
    /\ Broadcast(<<ClusterStop("ExternalStop")>>)
    /\ peers' = StoppedPeers
    /\ running' = FALSE
    /\ untilCap' = NoLimit
    /\ gdb' = NoStep
    /\ stopReason' = "ExternalStop"
    /\ UNCHANGED <<stage, reports, allowed, resetSlack>>

\* Mutant: the margin is added twice.
ResetReportsPastCeiling == AdvanceTo(reports, allowed + Margin)

\* allowed_after_reset: every report is raised to the old ceiling, so that
\* boards that already sit there may leave it.
ResetReports ==
    LET vt == VirtualTime(reports)
    IN  AdvanceTo(reports, IF allowed > vt THEN allowed ELSE vt)

HostReset ==
    /\ TakeCommand("Reset")
    /\ reports' = ResetReports
    /\ allowed' = AllowedNs(reports')
    /\ Broadcast(<<ClusterStop("ExternalStop"), Reset, Start(allowed')>>)
    /\ peers' = [b \in Boards |-> "Running"]
    /\ running' = TRUE
    /\ untilCap' = NoLimit
    /\ gdb' = NoStep
    /\ stopReason' = NoReason
    /\ resetSlack' = resetSlack + Margin
    /\ UNCHANGED stage

\* apply_gdb_step: stop the cluster if it runs, then one instruction on b.
HostStep(b) ==
    /\ TakeCommand("Step")
    /\ Broadcast(IF running THEN <<ClusterStop("ExternalStop"), GdbStep(b)>>
                 ELSE <<GdbStep(b)>>)
    /\ IF running
       THEN peers' = StoppedPeers /\ untilCap' = NoLimit /\ stopReason' = "ExternalStop"
       ELSE UNCHANGED <<peers, untilCap, stopReason>>
    /\ running' = FALSE
    /\ gdb' = WaitInsn(b)
    /\ UNCHANGED <<stage, reports, allowed, resetSlack>>

HostCommand ==
    \/ \E until \in UntilTimes \cup {NoLimit} :
          HostStartBehind(until) \/ HostStart(until)
    \/ HostStopCluster
    \/ HostReset
    \/ \E b \in Boards : HostStep(b)

-----------------------------------------------------------------------------
(* One pass of the session loop after the host commands: step_time_sync    *)
(* drains n2a, and write_status publishes what has changed.                *)

\* Boards whose HostStop stops the cluster: all but one a GDB step waits for.
Stoppers == {b \in Boards : StopsIn(n2a[b]) # {} /\ gdb # WaitInsn(b)}

\* Mutant: only a plain step answers, not a breakpoint hit while stepping.
InsnDoneByStep(b) ==
    gdb = WaitInsn(b) /\ StopsIn(n2a[b]) # {} /\ LastStop(n2a[b]) = "Step"

InsnDone(b) == gdb = WaitInsn(b) /\ StopsIn(n2a[b]) # {}

\* Mutant: the host is shown the ceiling.
WriteStatusCeiling ==
    status' = [running |-> running', time |-> allowed',
               reason |-> IF running' THEN NoReason ELSE stopReason']

WriteStatus ==
    status' = [running |-> running', time |-> VirtualTime(reports'),
               reason |-> IF running' THEN NoReason ELSE stopReason']

Sync ==
    /\ stage = "session"
    /\ reports' = ReportsAfter
    /\ n2a' = Drained
    /\ UNCHANGED <<stage, startups, commands, resetSlack>>

StopCluster(reason) ==
    /\ peers' = StoppedPeers
    /\ running' = FALSE
    /\ untilCap' = NoLimit
    /\ gdb' = NoStep
    /\ stopReason' = reason

\* A HostStop: stop everybody.  Of several, the one read last names the reason.
SyncHostStop ==
    /\ Sync
    /\ \E b \in Stoppers :
          /\ StopCluster(LastStop(n2a[b]))
          /\ Broadcast(<<ClusterStop(LastStop(n2a[b]))>>)
    /\ WriteStatus
    /\ UNCHANGED allowed

\* The stepped board retired its instruction: run the others up to its time.
SyncInsnDone ==
    /\ Stoppers = {}
    /\ \E b \in Boards :
          /\ InsnDone(b)
          /\ Sync
          /\ untilCap' = ReportsAfter[b]
          /\ allowed' = AllowedNsUntil(ReportsAfter, ReportsAfter[b])
          /\ Broadcast(<<Start(allowed')>>)
          /\ gdb' = CatchUp(LastStop(n2a[b]))
    /\ peers' = StartedPeers
    /\ running' = TRUE
    /\ stopReason' = NoReason
    /\ WriteStatus

NewAllowed ==
    IF \E b \in Boards : TimesIn(n2a[b]) # {}
    THEN AllowedNsUntil(ReportsAfter, untilCap) ELSE allowed

\* Mutant: the new ceiling goes out as a Start.
AllowedMsgStarts ==
    IF NewAllowed # allowed THEN <<Start(NewAllowed)>> ELSE <<>>

AllowedMsg == IF NewAllowed # allowed THEN <<Allowed(NewAllowed)>> ELSE <<>>

\* Mutants: the cap counts as reached when the ceiling is there; when it has been
\* passed.
ReachedUntilByCeiling == untilCap # NoLimit /\ NewAllowed >= untilCap
ReachedUntilPassed == untilCap # NoLimit /\ VirtualTime(ReportsAfter) > untilCap

ReachedUntil == untilCap # NoLimit /\ VirtualTime(ReportsAfter) >= untilCap

NoStops == Stoppers = {} /\ \A b \in Boards : ~ InsnDone(b)

\* Time reports only: publish the new ceiling if it differs.
SyncTime ==
    /\ NoStops /\ ~ ReachedUntil
    /\ Sync
    /\ allowed' = NewAllowed
    /\ Broadcast(AllowedMsg)
    /\ UNCHANGED <<peers, running, untilCap, gdb, stopReason>>
    /\ WriteStatus

\* Time reports that reach the cap: publish the ceiling, then stop everybody.
SyncUntil ==
    /\ NoStops /\ ReachedUntil
    /\ Sync
    /\ LET reason == IF gdb.phase = "CatchUp" THEN gdb.reason ELSE "Until"
       IN  StopCluster(reason) /\ Broadcast(AllowedMsg \o <<ClusterStop(reason)>>)
    /\ allowed' = NewAllowed
    /\ WriteStatus

StepTimeSync == SyncHostStop \/ SyncInsnDone \/ SyncTime \/ SyncUntil
=============================================================================
