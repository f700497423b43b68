------------------------------ MODULE Cluster ------------------------------
(***************************************************************************)
(* A simulation cluster: one arbiter and its board nodes, joined by the    *)
(* control bus.  Processes interleave freely; the host may send any        *)
(* command at any time once the session runs.                              *)
(***************************************************************************)
EXTENDS Arbiter, BoardNode

vars == <<busVars, arbiterVars, nodeVars>>

Init ==
    /\ ArbiterInit
    /\ NodeInit
    /\ a2n = [b \in Boards |-> <<StartupRecord>>]
    /\ n2a = [b \in Boards |-> <<>>]

ArbiterStep ==
    /\ RepublishStartup \/ AwaitReady \/ HostCommand \/ StepTimeSync
    /\ UNCHANGED nodeVars

\* stop_children, then the arbiter process ends.
StopChildren(end) ==
    /\ stage' = end
    /\ alive' = [b \in Boards |-> FALSE]
    /\ UNCHANGED <<busVars, peers, reports, allowed, untilCap, running, gdb,
                   stopReason, status, startups, resetSlack, nodeState, sim, now,
                   ceiling, lastReport, stepSlack, faults>>

\* The Ready deadline passes with a board missing.
ReadyTimeout ==
    /\ stage = "await"
    /\ ~ AllReady(peers)
    /\ StopChildren("failed")
    /\ UNCHANGED commands

HostShutdown ==
    /\ stage = "session"
    /\ "Shutdown" \in HostOps
    /\ commands < MaxCommands
    /\ commands' = commands + 1
    /\ StopChildren("exited")

Next ==
    \/ ArbiterStep
    \/ ReadyTimeout
    \/ HostShutdown
    \/ \E b \in Boards : NodeStep(b) /\ UNCHANGED arbiterVars

Spec == Init /\ [][Next]_vars

\* Every loop keeps turning: run_host_session polls without blocking, and
\* run_node drains its messages and then polls its guest.
Fairness ==
    /\ WF_vars((AwaitReady \/ StepTimeSync) /\ UNCHANGED nodeVars)
    /\ \A b \in Boards :
          /\ WF_vars(ReceiveMessage(b) /\ UNCHANGED arbiterVars)
          /\ WF_vars(Poll(b) /\ UNCHANGED arbiterVars)

FairSpec == Spec /\ Fairness

TypeOK == BusTypeOK /\ ArbiterTypeOK /\ NodeTypeOK

-----------------------------------------------------------------------------
(* Safety. *)

\* Conservative time synchronisation (`margin_ns`): no board's clock is more
\* than the margin ahead of another's, plus the slack of host Resets, which
\* raise the ceiling past boards that have not moved (allowed_after_reset), and
\* of GDB steps, which retire an instruction past the ceiling.
SkewBounded == \A a, b \in Boards : now[a] <= now[b] + Margin + resetSlack + stepSlack

\* The virtual time write_status shows the host is one that every board has
\* simulated, up to what Resets have skipped.
StatusTimeSimulated == \A b \in Boards : status.time <= now[b] + resetSlack

\* The Ready barrier: no board simulates before every board has attached.
NoRunBeforeBarrier ==
    (\E b \in Boards : nodeState[b] = "Running")
        => \A b \in Boards : nodeState[b] # "AwaitingStartup"

\* Stop, Start, Reset and GDB step leave nobody behind: a live node that has
\* read all its messages runs exactly if the arbiter says the cluster runs.
ViewsAgree ==
    stage = "session" =>
        \A b \in Boards : alive[b] /\ a2n[b] = <<>> =>
            (nodeState[b] = "Running" <=> running)

\* gdb_step, until_cap and running belong together: the arbiter waits for the
\* instruction only while the cluster is stopped, and catches up only while it
\* runs under a cap; there is no cap on a stopped cluster.
StepPhaseConsistent ==
    /\ gdb.phase = "WaitInsn" => ~ running
    /\ gdb.phase = "CatchUp" => running /\ untilCap # NoLimit
    /\ untilCap # NoLimit => running

-----------------------------------------------------------------------------
(* Action properties. *)

\* Without Resets the status the host polls never goes back in time, even when
\* reports arrive after a stop.
StatusTimeMonotone == [][status'.time >= status.time]_status

\* When the arbiter itself ends a run, because the cap was reached and not
\* because a board stopped, every board has simulated up to the cap: this is
\* what a host `start` with `until_ns`, and the catch-up of a GDB step, wait for.
CapReachedByAll ==
    [][ running /\ ~ running' /\ commands' = commands /\ Stoppers = {}
        => \A b \in Boards : now[b] + resetSlack >= untilCap ]_vars

\* A GDB step moves one board: while the arbiter waits for the instruction of
\* board b, another board that has read what was sent to it stands still.
OnlySteppedMoves ==
    [][ \A a, b \in Boards :
          gdb = WaitInsn(b) /\ gdb' = gdb /\ a # b /\ a2n[a] = <<>>
            => now'[a] = now[a] ]_vars

-----------------------------------------------------------------------------
(* The inductive invariant behind SkewBounded, StatusTimeSimulated and         *)
(* NoRunBeforeBarrier: what is in flight is as true as what has been read.     *)

\* How far any board may be allowed to run, as far as board b is concerned.
Reach(b) == now[b] + Margin + resetSlack

HonestReports(b) ==
    {m \in ControlToArbiter : m.type = "TimeReport" => m.at <= now[b] + resetSlack}

SafeLimits ==
    {m \in ControlToNode : m.type \in {"Start", "Allowed"} =>
                              \A b \in Boards : m.allowed <= Reach(b)}

\* Every report, read or not, is at or behind its board's clock.
ReportsHonest ==
    \A b \in Boards : reports[b] <= now[b] + resetSlack
                       /\ n2a[b] \in Seq(HonestReports(b))

\* Every ceiling, computed, sent or applied, is within reach of every board.
CeilingsSafe ==
    /\ \A b \in Boards : allowed <= Reach(b) /\ a2n[b] \in Seq(SafeLimits)
    /\ \A b, c \in Boards : ceiling[c] <= Reach(b)

\* Before the session nobody was told to run; a node that has not read its
\* StartupRecord has sent nothing, so the barrier waits for it.
BarrierHolds ==
    /\ stage \in {"await", "failed"} =>
          \A b \in Boards : a2n[b] \in Seq({StartupRecord}) /\ nodeState[b] # "Running"
    /\ \A b \in Boards : nodeState[b] = "AwaitingStartup" =>
          /\ n2a[b] = <<>> /\ peers[b] = "AwaitingReady"
          /\ stage \in {"await", "failed"}

ClusterInv ==
    /\ TypeOK /\ ReportsHonest /\ CeilingsSafe /\ BarrierHolds
    /\ SkewBounded /\ StatusTimeSimulated /\ StepPhaseConsistent

-----------------------------------------------------------------------------
(* Refinement. *)

Conservative ==
    INSTANCE ConservativeSync
    WITH clock <- now, skipped <- resetSlack, overrun <- stepSlack,
         shown <- status.time

\* Messages, queues and stale reports together behave as if every board could
\* see every clock and stay within the margin (`margin_ns`) of the slowest, and
\* write_status could too.
ConservativelySynchronised == Conservative!Spec

-----------------------------------------------------------------------------
(* Liveness, under FairSpec. *)

\* A stopped cluster comes to rest: every live node stops, unless the host or a
\* GDB step starts the cluster again.
StopReachesNodes ==
    (stage = "session" /\ ~ running)
        ~> (stage # "session" \/ running
            \/ \A b \in Boards : alive[b] => nodeState[b] = "Stopped")

\* A run without a cap never stalls at the ceiling: every board gets as far as
\* the bound lets it, unless the run ends or is capped.
RunAdvances ==
    (running /\ untilCap = NoLimit)
        ~> (~ running \/ untilCap # NoLimit \/ \A b \in Boards : now[b] = Horizon)

\* A run capped at u ends, be it a host Start or the catch-up of a GDB step,
\* once all boards have read the Start and none of them is at or past the cap
\* without having reported so: such a board is never polled, so never reports.
CappedRunEnds ==
    \A u \in 1..Horizon :
        (running /\ untilCap = u
            /\ \A b \in Boards : a2n[b] = <<>> /\ (now[b] < u \/ ReportsAfter[b] >= u))
        ~> (~ running \/ untilCap # u)

\* The stepped board answers a GDB step.
StepAnswered == gdb.phase = "WaitInsn" ~> gdb.phase # "WaitInsn"

=============================================================================
