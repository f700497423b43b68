------------------------------ MODULE Machine ------------------------------
(***************************************************************************)
(* A CPU board (sim-kernel/src/machine.rs) under its Simulator: one poll   *)
(* fires the due events, runs the CPU up to the next deadline, the ceiling *)
(* or the end of the quantum, and fires what has become due.               *)
(*                                                                         *)
(* The simulation is single threaded, but a poll is a loop over events     *)
(* that run device code; `phase` tells how far it is.  Commands are taken  *)
(* between polls.  What CPU and devices compute is left open: how many     *)
(* instructions a quantum retires, why it ends, which event a device       *)
(* schedules or cancels, and what the guest makes of the CPU clock.        *)
(***************************************************************************)
EXTENDS Simulator, EventHeap

CONSTANTS MaxQuantum, \* SimConfig::max_quantum
          Periods,    \* instruction periods; 0 stands for a stopped clock
          Delays,     \* how far ahead devices schedule
          MaxEvents,  \* bound: events scheduled
          Horizon     \* bound: no quantum starts after this time

ASSUME MachineAssumption ==
    /\ MaxQuantum \in Nat \ {0}
    /\ Periods \subseteq Nat /\ Delays \subseteq Nat
    /\ MaxEvents \in Nat /\ Horizon \in Nat

VARIABLES phase,    \* where in a poll: Idle between polls
          queue,    \* the EventQueue of `ctl`
          lastInsn, \* last_insn_at
          period,   \* Cpu::instruction_period
          lastFired \* ghost: deadline of the event fired last

machineVars == <<queue, lastInsn, period, lastFired>>
vars == <<simVars, phase, machineVars>>

TypeOK ==
    /\ SimTypeOK
    /\ phase \in {"Idle", "FireBefore", "Run", "FireAfter"}
    /\ queue \in Queue
    /\ lastInsn \in Nat /\ period \in Periods
    /\ lastFired \in Nat

Init ==
    /\ SimInit
    /\ phase = "Idle"
    /\ queue = EmptyQueue
    /\ lastInsn = 0 /\ period \in Periods
    /\ lastFired = 0

-----------------------------------------------------------------------------
(* Devices.  Code that runs in a quantum or an event may cancel an event and *)
(* schedule one; devices read the time from `ctl`, which is the clock at the *)
(* start of the quantum.                                                     *)

Touched(q) ==
    LET left == {q} \cup {Cancelled(q, id) : id \in q.live}
    IN  left \cup {Scheduled(r, now + d) : r \in {s \in left : s.next < MaxEvents},
                                           d \in Delays}

\* Machine::reset, outside a poll: devices drop their events.
Reset ==
    /\ phase = "Idle"
    /\ \E dropped \in SUBSET queue.live : queue' = CancelledAll(queue, dropped)
    /\ lastInsn' = now
    /\ UNCHANGED <<simVars, phase, period, lastFired>>

Command == phase = "Idle" /\ SimCommand /\ UNCHANGED <<phase, machineVars>>

-----------------------------------------------------------------------------
(* fire_due_events. *)

Firing == phase \in {"FireBefore", "FireAfter"}

PollBegins ==
    /\ phase = "Idle" /\ state = "Running" /\ now <= Horizon
    /\ phase' = "FireBefore"
    /\ UNCHANGED <<simVars, machineVars>>

PopAndFire ==
    \E e \in queue.heap :
        /\ IsDue(queue, e, now)
        /\ queue' \in Touched(Popped(queue, e))
        /\ lastFired' = e.at

Fire ==
    /\ Firing /\ PopAndFire
    /\ UNCHANGED <<simVars, phase, lastInsn, period>>

\* The event asks to stop: the rest waits for the next poll.
FireStop(reason) ==
    /\ Firing /\ PopAndFire
    /\ CommitStop(reason)
    /\ phase' = "Idle"
    /\ UNCHANGED <<allowed, now, lastInsn, period>>

FiredBefore ==
    /\ phase = "FireBefore" /\ NothingDue(queue, now)
    /\ queue' = WithoutStale(queue)
    /\ phase' = "Run"
    /\ UNCHANGED <<simVars, lastInsn, period, lastFired>>

FiredAfter ==
    /\ phase = "FireAfter" /\ NothingDue(queue, now)
    /\ queue' = WithoutStale(queue)
    /\ Progressed
    /\ phase' = "Idle"
    /\ UNCHANGED <<allowed, now, lastInsn, period, lastFired>>

-----------------------------------------------------------------------------
(* The quantum. *)

\* budget_ns: up to the next deadline, the ceiling or max_quantum.
IsBudget(span) ==
    /\ span <= Budget(MaxQuantum)
    /\ \A e \in queue.heap : now + span <= e.at
    /\ span = Budget(MaxQuantum) \/ \E e \in queue.heap : now + span = e.at

\* max_instructions >= k: the budget counts from the last retired instruction,
\* and a single step runs one instruction whatever the budget.
Fits(k, span) ==
    /\ period # 0
    /\ IF stepOnce THEN k <= 1 ELSE lastInsn + k * period <= now + span

\* Mutant: the check is missing.
InsnTooLongUnchecked == FALSE

InsnTooLong == period > MaxQuantum

\* The kernel reports InstructionPeriodExceedsQuantum.
Refuse ==
    /\ phase = "Run" /\ InsnTooLong
    /\ StopRunning
    /\ phase' = "Idle"
    /\ UNCHANGED <<allowed, now, machineVars>>

\* Mutant: time too short for an instruction is not spent.
IdleQuantumOfStoppedClock ==
    /\ phase = "Run" /\ period = 0
    /\ \E span \in 1..MaxQuantum : IsBudget(span) /\ now' = now + span
    /\ phase' = "FireAfter"
    /\ UNCHANGED <<state, stepOnce, allowed, queue, lastInsn, period, lastFired>>

\* No instruction fits, or the clock is stopped: time passes all the same.
IdleQuantum ==
    /\ phase = "Run" /\ ~ InsnTooLong
    /\ \E span \in 1..MaxQuantum :
          /\ IsBudget(span) /\ ~ Fits(1, span)
          /\ now' = now + span
    /\ phase' = "FireAfter"
    /\ UNCHANGED <<state, stepOnce, allowed, queue, lastInsn, period, lastFired>>

\* There is no time to pass either, or the engine returns without having
\* retired an instruction (an interrupt).
NothingToDo ==
    /\ phase = "Run" /\ ~ InsnTooLong
    /\ \E span \in 0..MaxQuantum : IsBudget(span) /\ (span = 0 \/ Fits(1, span))
    /\ NoProgress
    /\ phase' = "Idle"
    /\ UNCHANGED <<allowed, now, machineVars>>

\* Mutant: instruction time counts from the clock, not the last instruction.
RetireByInsn(k, span) ==
    /\ Fits(k, span)
    /\ lastInsn' = now + k * period
    /\ now' = lastInsn'
    /\ queue' \in Touched(queue) /\ period' \in Periods

\* The CPU runs k instructions; the clock gets to the end of the budget, or of
\* a stepped instruction that is longer.
Retire(k, span) ==
    /\ Fits(k, span)
    /\ lastInsn' = lastInsn + k * period
    /\ now' = IF lastInsn' > now + span THEN lastInsn' ELSE now + span
    /\ IF k = 0 THEN UNCHANGED <<queue, period>>
                ELSE queue' \in Touched(queue) /\ period' \in Periods

Quantum(ks) ==
    /\ phase = "Run" /\ ~ InsnTooLong
    /\ \E span \in 0..MaxQuantum, k \in ks :
          IsBudget(span) /\ Fits(1, span) /\ Retire(k, span)
    /\ UNCHANGED <<allowed, lastFired>>

\* At most the instructions of the time since the last one.
InsnCounts == 0..(now + MaxQuantum - lastInsn)

RunQuantum ==
    /\ Quantum(InsnCounts \ {0})
    /\ phase' = "FireAfter"
    /\ UNCHANGED <<state, stepOnce>>

\* The CPU stops, or the bus trapped: events that became due wait for the next
\* poll.
RunQuantumStop(reason) ==
    /\ Quantum(InsnCounts)
    /\ CommitStop(reason)
    /\ phase' = "Idle"

CpuStop == {"Halt", "Breakpoint", "Unmapped"}
EventStop == {"Halt", "ExternalStop"}

Poll ==
    \/ PollBegins \/ FiredBefore \/ Refuse \/ IdleQuantum \/ NothingToDo \/ RunQuantum
    \/ \E reason \in CpuStop : RunQuantumStop(reason)
    \/ Fire \/ FiredAfter
    \/ \E reason \in EventStop : FireStop(reason)

Next == Command \/ Reset \/ Poll

Spec == Init /\ [][Next]_vars

\* The simulation thread polls a running entity over and over, and the CPU does
\* not return for ever without having retired anything.
FairSpec ==
    /\ Spec /\ WF_vars(Poll)
    /\ SF_vars(RunQuantum \/ \E reason \in CpuStop : RunQuantumStop(reason))

-----------------------------------------------------------------------------
(* Properties. *)

\* The heap stays consistent with what devices schedule and cancel while events
\* fire; instruction time never overtakes the clock; once the due events have
\* fired, what is left lies ahead.
MachineConsistent ==
    /\ TypeOK
    /\ Consistent(queue)
    /\ lastInsn <= now
    /\ stepOnce => state # "Stopped"
    /\ phase # "Idle" => state = "Running"
    /\ phase = "Run" => \A e \in queue.heap : e.at > now

\* An event is never late by more than one quantum, although devices schedule
\* from inside a quantum with the time of its start and nothing shortens the
\* quantum that is under way; stops between deadline and firing included.
EventsTimely == \A e \in LivePending(queue) : now <= e.at + MaxQuantum

\* Events fire in the order of their deadlines, whatever was scheduled in
\* between: nothing is left behind the one that fired last.
FiredInOrder ==
    /\ lastFired <= now
    /\ \A e \in LivePending(queue) : lastFired <= e.at

MachineInv == MachineConsistent /\ EventsTimely /\ FiredInOrder

\* No quantum jumps over an event that was pending when it began, unless it is
\* a single step.
DeadlineNotPassed ==
    [][ phase = "Run" /\ ~ stepOnce =>
          \A e \in LivePending(queue) : now' <= e.at ]_vars

Clock ==
    INSTANCE GuestClock
    WITH Overrun <- MaxQuantum, ceiling <- allowed, clock <- now,
         stepping <- IF ~ stepOnce THEN "no"
                     ELSE IF phase = "FireAfter" THEN "done" ELSE "pending"

\* The board node may rely on GuestClock.
KeepsGuestClock == Clock!Spec

\* A running board gets to its ceiling (FairSpec).
ReachesCeiling ==
    \A t \in Ceilings :
        (state = "Running" /\ ~ stepOnce /\ allowed = t)
            ~> (now >= t \/ state # "Running" \/ stepOnce \/ allowed # t)

\* A single step is over some time, if the thread goes on polling, unless the CPU
\* clock is stopped and the clock at the ceiling (FairSpec).
StepEnds ==
    (stepOnce /\ state = "Running" /\ now <= Horizon)
        ~> (\/ ~ stepOnce \/ state # "Running"
            \/ period = 0 /\ allowed # NoLimit /\ allowed <= now)

=============================================================================
