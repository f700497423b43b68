----------------------------- MODULE BoardNode -----------------------------
(***************************************************************************)
(* A board node (sim-cluster/src/board_runtime.rs): the loop of run_node,  *)
(* with the NodeState machine of lifecycle.rs and the part of the kernel's *)
(* Simulator (sim-kernel/src/sim.rs) that the control plane sees: whether  *)
(* it runs, its clock and its ceiling.                                     *)
(*                                                                         *)
(* What the guest computes is left out: a poll advances the clock by some  *)
(* amount up to the ceiling.  The data planes, probes and actions a node   *)
(* also serves do not touch this state.                                    *)
(***************************************************************************)
EXTENDS ControlBus

CONSTANTS Threshold, \* topology `headroom_threshold_ns`
          Horizon,   \* bound: no clock passes this time
          MaxFaults  \* bound: failed polls, failed steps and dead nodes

ASSUME NodeAssumption ==
    /\ Threshold \in Nat
    /\ Horizon \in Nat /\ MaxFaults \in Nat

VARIABLES nodeState,  \* NodeState
          sim,        \* Simulator::state, "Stopped" or "Running"
          now,        \* the entity's virtual clock
          ceiling,    \* Simulator::allowed, or NoLimit before the first Start
          lastReport, \* last_time_report, or NoLimit
          alive,      \* the process exists
          stepSlack,  \* ghost: by how much GDB steps may have passed ceilings
          faults      \* faults so far

nodeVars == <<nodeState, sim, now, ceiling, lastReport, alive, stepSlack, faults>>

NodeState == {"AwaitingStartup", "Stopped", "Running"}

NodeTypeOK ==
    /\ nodeState \in [Boards -> NodeState]
    /\ sim \in [Boards -> {"Stopped", "Running"}]
    /\ now \in [Boards -> Nat]
    /\ ceiling \in [Boards -> Nat \cup {NoLimit}]
    /\ lastReport \in [Boards -> Nat \cup {NoLimit}]
    /\ alive \in [Boards -> BOOLEAN]
    /\ stepSlack \in Nat
    /\ faults \in Nat

NodeInit ==
    /\ nodeState = [b \in Boards |-> "AwaitingStartup"]
    /\ sim = [b \in Boards |-> "Stopped"]
    /\ now = [b \in Boards |-> 0]
    /\ ceiling = [b \in Boards |-> NoLimit]
    /\ lastReport = [b \in Boards |-> NoLimit]
    /\ alive = [b \in Boards |-> TRUE]
    /\ stepSlack = 0
    /\ faults = 0

-----------------------------------------------------------------------------
(* Control messages: NodeState::on_message and its effect.  A message that *)
(* no other action takes is logged and dropped.                            *)

Receive(b, type) ==
    /\ alive[b]
    /\ a2n[b] # <<>>
    /\ Head(a2n[b]).type = type
    /\ a2n' = [a2n EXCEPT ![b] = Tail(@)]
    /\ UNCHANGED alive

EnterState(b, state) == nodeState' = [nodeState EXCEPT ![b] = state]

ReceiveStartup(b) ==
    /\ Receive(b, "StartupRecord")
    /\ IF nodeState[b] = "Running"
       THEN UNCHANGED <<nodeState, n2a>>
       ELSE EnterState(b, "Stopped") /\ Send(b, <<Ready>>)
    /\ UNCHANGED <<sim, now, ceiling, lastReport, stepSlack, faults>>

\* Only the edge into Running starts the simulator.
ReceiveStart(b) ==
    /\ Receive(b, "Start")
    /\ IF nodeState[b] = "AwaitingStartup"
       THEN UNCHANGED <<nodeState, ceiling, sim>>
       ELSE /\ EnterState(b, "Running")
            /\ ceiling' = [ceiling EXCEPT ![b] = Head(a2n[b]).allowed]
            /\ sim' = [sim EXCEPT ![b] =
                         IF nodeState[b] = "Running" THEN @ ELSE "Running"]
    /\ UNCHANGED <<n2a, now, lastReport, stepSlack, faults>>

ReceiveAllowed(b) ==
    /\ Receive(b, "Allowed")
    /\ ceiling' = IF nodeState[b] = "AwaitingStartup" THEN ceiling
                  ELSE [ceiling EXCEPT ![b] = Head(a2n[b]).allowed]
    /\ UNCHANGED <<n2a, nodeState, sim, now, lastReport, stepSlack, faults>>

\* Mutant: a node whose guest already stopped ignores the stop.
ReceiveClusterStopIfRunning(b) ==
    /\ Receive(b, "ClusterStop")
    /\ IF sim[b] = "Running" \/ nodeState[b] = "AwaitingStartup"
       THEN EnterState(b, "Stopped") /\ sim' = [sim EXCEPT ![b] = "Stopped"]
       ELSE UNCHANGED <<nodeState, sim>>
    /\ UNCHANGED <<n2a, now, ceiling, lastReport, stepSlack, faults>>

ReceiveClusterStop(b) ==
    /\ Receive(b, "ClusterStop")
    /\ EnterState(b, "Stopped")
    /\ sim' = IF nodeState[b] = "Running" THEN [sim EXCEPT ![b] = "Stopped"] ELSE sim
    /\ UNCHANGED <<n2a, now, ceiling, lastReport, stepSlack, faults>>

\* Guest and devices restart; the clock keeps its value.
ReceiveReset(b) ==
    /\ Receive(b, "Reset")
    /\ lastReport' = IF nodeState[b] = "Stopped"
                     THEN [lastReport EXCEPT ![b] = NoLimit] ELSE lastReport
    /\ UNCHANGED <<n2a, nodeState, sim, now, ceiling, stepSlack, faults>>

\* GdbStep for another board, or before startup.
IgnoreGdbStep(b) ==
    /\ Receive(b, "GdbStep")
    /\ Head(a2n[b]).board # b \/ nodeState[b] = "AwaitingStartup"
    /\ IF nodeState[b] = "AwaitingStartup" THEN UNCHANGED <<nodeState, sim>>
       ELSE /\ EnterState(b, "Stopped")
            /\ sim' = IF nodeState[b] = "Running" THEN [sim EXCEPT ![b] = "Stopped"]
                      ELSE sim
    /\ UNCHANGED <<n2a, now, ceiling, lastReport, stepSlack, faults>>

TakesGdbStep(b) ==
    /\ Receive(b, "GdbStep")
    /\ Head(a2n[b]).board = b /\ nodeState[b] # "AwaitingStartup"
    /\ EnterState(b, "Stopped")
    /\ UNCHANGED ceiling

\* A step retires one instruction whatever the ceiling says, and idles up to
\* the ceiling if that is later; before the first Start there is no ceiling and
\* it idles for one quantum.
StepTargets(b) ==
    {t \in now[b]..Horizon : t <= ceiling[b] \/ t <= now[b] + StepSpan}

\* perform_local_step: always reports its time, then why it stopped.
PerformStep(b) ==
    /\ TakesGdbStep(b)
    /\ \E t \in StepTargets(b), reason \in GuestStop \cup {"Step"} :
          /\ now' = [now EXCEPT ![b] = t]
          /\ lastReport' = [lastReport EXCEPT ![b] = t]
          /\ Send(b, <<TimeReport(t), HostStop(reason)>>)
          /\ stepSlack' = IF t <= ceiling[b] THEN stepSlack ELSE stepSlack + StepSpan
    /\ sim' = [sim EXCEPT ![b] = "Stopped"]
    /\ UNCHANGED faults

\* The step times out (the simulator is left running) or is refused by the
\* kernel: nothing is sent.
FailStep(b) ==
    /\ TakesGdbStep(b)
    /\ faults < MaxFaults
    /\ faults' = faults + 1
    /\ \E s \in {"Stopped", "Running"} :
          sim' = [sim EXCEPT ![b] = IF nodeState[b] = "Running" THEN "Stopped" ELSE s]
    /\ UNCHANGED <<n2a, now, lastReport, stepSlack>>

ReceiveMessage(b) ==
    \/ ReceiveStartup(b) \/ ReceiveStart(b) \/ ReceiveAllowed(b)
    \/ ReceiveClusterStop(b) \/ ReceiveReset(b)
    \/ IgnoreGdbStep(b) \/ PerformStep(b) \/ FailStep(b)

-----------------------------------------------------------------------------
(* The guest: sim.poll() and the report that follows it. *)

\* A node at its ceiling skips the poll, and with it the report.
CanPoll(b) ==
    /\ alive[b] /\ nodeState[b] = "Running" /\ sim[b] = "Running"
    /\ now[b] < ceiling[b]

\* Mutant: a headroom one short of the threshold is not reported.
ReportMsgLate(b, t) ==
    IF ceiling[b] - t + 1 < Threshold /\ lastReport[b] # t THEN <<TimeReport(t)>> ELSE <<>>

\* maybe_time_report at time t: the message it sends, if any.
ReportMsg(b, t) ==
    LET headroom == IF ceiling[b] > t THEN ceiling[b] - t ELSE 0
    IN  IF headroom < Threshold /\ lastReport[b] # t THEN <<TimeReport(t)>> ELSE <<>>

ReportAt(b, t, msgs) ==
    /\ now' = [now EXCEPT ![b] = t]
    /\ lastReport' = [lastReport EXCEPT ![b] =
                        IF ReportMsg(b, t) # <<>> THEN t ELSE @]
    /\ Send(b, ReportMsg(b, t) \o msgs)
    /\ UNCHANGED <<a2n, nodeState, ceiling, alive, stepSlack, faults>>

\* Mutant: a poll ends at the first instruction past the ceiling.
PollPast(b) ==
    /\ CanPoll(b)
    /\ \E t \in now[b]..Horizon : t <= ceiling[b] + 1 /\ ReportAt(b, t, <<>>)
    /\ UNCHANGED sim

\* The guest runs for a while; an event or a solver step takes no time.
Poll(b) ==
    /\ CanPoll(b)
    /\ \E t \in now[b]..Horizon : t <= ceiling[b] /\ ReportAt(b, t, <<>>)
    /\ UNCHANGED sim

\* The guest hits a breakpoint or unmapped memory.
PollStop(b) ==
    /\ CanPoll(b)
    /\ \E t \in now[b]..Horizon, reason \in GuestStop :
          t <= ceiling[b] /\ ReportAt(b, t, <<HostStop(reason)>>)
    /\ sim' = [sim EXCEPT ![b] = "Stopped"]

\* The kernel refuses to run (instruction period beyond the quantum): the
\* simulator stops and nobody is told.
PollError(b) ==
    /\ CanPoll(b)
    /\ faults < MaxFaults
    /\ faults' = faults + 1
    /\ sim' = [sim EXCEPT ![b] = "Stopped"]
    /\ UNCHANGED <<busVars, nodeState, now, ceiling, lastReport, alive, stepSlack>>

\* run_node returns an error, or the process is killed.
Die(b) ==
    /\ alive[b]
    /\ faults < MaxFaults
    /\ faults' = faults + 1
    /\ alive' = [alive EXCEPT ![b] = FALSE]
    /\ UNCHANGED <<busVars, nodeState, sim, now, ceiling, lastReport, stepSlack>>

NodeStep(b) ==
    ReceiveMessage(b) \/ Poll(b) \/ PollStop(b) \/ PollError(b) \/ Die(b)
=============================================================================
