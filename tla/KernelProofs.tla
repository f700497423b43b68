---------------------------- MODULE KernelProofs ----------------------------
(***************************************************************************)
(* The kernel's plant and its event queue.  The plant, for any time step   *)
(* and any ceilings: its solver runs exactly on its grid, and the board    *)
(* node may rely on GuestClock.  The event queue, under any sequence of    *)
(* calls: its parts stay consistent and it answers as PendingEvents does.  *)
(***************************************************************************)
EXTENDS Plant, EventQueue, EventHeapProofs

-----------------------------------------------------------------------------
(* The plant: OnGrid is inductive. *)

\* Grid points are Dt apart.
LEMMA NextGridPoint ==
    ASSUME NEW n \in Nat
    PROVE  n * Dt \in Nat /\ (n + 1) * Dt = n * Dt + Dt /\ 0 * Dt = 0
BY PlantAssumption

LEMMA BudgetBounds ==
    ASSUME now \in Nat, allowed \in Nat \cup {NoLimit}, NEW span \in Nat
    PROVE  /\ Budget(span) \in 0..span
           /\ Budget(span) = 0 \/ allowed = NoLimit \/ now + Budget(span) <= allowed
BY DEF Budget, NoLimit

LEMMA InitIsOnGrid == Init => OnGrid
<1> SUFFICES ASSUME Init PROVE OnGrid
  OBVIOUS
<1>1. /\ now = 0 /\ nextStepAt = 0 /\ solved = 0 /\ resetAt = 0
      /\ state = "Stopped" /\ stepOnce = FALSE /\ allowed = NoLimit
  BY DEF Init, SimInit
<1>2. SimTypeOK
  BY <1>1 DEF SimTypeOK, SimState
<1>3. 0 * Dt = 0
  BY NextGridPoint
<1> QED BY <1>1, <1>2, <1>3 DEF OnGrid

LEMMA ControlIsTyped ==
    ASSUME OnGrid, SimCommand
    PROVE  SimTypeOK' /\ (stepOnce' => state' # "Stopped") /\ UNCHANGED now
<1>1. SimTypeOK /\ (stepOnce => state # "Stopped")
  BY DEF OnGrid
<1>2. CASE Start \/ Step \/ Stop \/ Quit
  <2>1. /\ state' \in SimState /\ stepOnce' \in BOOLEAN /\ UNCHANGED <<allowed, now>>
        /\ stepOnce' => state' # "Stopped"
    BY <1>1, <1>2 DEF Start, Step, Stop, Quit, SimTypeOK, SimState
  <2> QED BY <1>1, <2>1 DEF SimTypeOK
<1>3. CASE \E tick \in Ceilings : SetAllowed(tick)
  <2>1. UNCHANGED <<state, stepOnce, now>> /\ allowed' \in Nat
    BY <1>3, CeilingsAssumption DEF SetAllowed
  <2> QED BY <1>1, <2>1 DEF SimTypeOK
<1> QED BY <1>2, <1>3 DEF SimCommand

LEMMA PollIsTyped ==
    ASSUME OnGrid, now' \in Nat, UNCHANGED allowed, Progressed \/ NoProgress
    PROVE  SimTypeOK' /\ (stepOnce' => state' # "Stopped")
<1>1. SimTypeOK /\ (stepOnce => state # "Stopped")
  BY DEF OnGrid
<1>2. CASE UNCHANGED <<state, stepOnce>>
  BY <1>1, <1>2 DEF SimTypeOK
<1>3. CASE StopRunning
  BY <1>1, <1>3 DEF StopRunning, SimTypeOK, SimState
<1> QED BY <1>2, <1>3 DEF Progressed, NoProgress

\* What Advance makes of the clock.
LEMMA AdvanceBounds ==
    ASSUME OnGrid, Advance
    PROVE  /\ now' \in Nat /\ now < now' /\ now' <= nextStepAt
           /\ allowed = NoLimit \/ now' <= allowed
<1> DEFINE left == nextStepAt - now
<1>1. /\ now \in Nat /\ nextStepAt \in Nat /\ left \in Nat
      /\ allowed \in Nat \cup {NoLimit}
  BY DEF OnGrid, SimTypeOK
<1>2. now' = now + Budget(left) /\ Budget(left) > 0
  BY DEF Advance
<1> HIDE DEF left
<1>3. /\ Budget(left) \in 0..left
      /\ Budget(left) = 0 \/ allowed = NoLimit \/ now + Budget(left) <= allowed
  BY <1>1, BudgetBounds
<1> QED BY <1>1, <1>2, <1>3 DEF left, NoLimit

LEMMA StepKeepsGrid == ASSUME OnGrid, [Next]_vars PROVE OnGrid'
<1> DEFINE done == solved * Dt
<1>1. /\ SimTypeOK /\ now \in Nat /\ nextStepAt \in Nat /\ solved \in Nat /\ resetAt \in Nat
      /\ nextStepAt = resetAt + done
      /\ now <= nextStepAt /\ resetAt <= now
      /\ solved > 0 => nextStepAt - Dt <= now
      /\ solved = 0 => now = resetAt
      /\ Dt \in Nat \ {0}
  BY PlantAssumption DEF OnGrid, SimTypeOK
<1>2. done \in Nat /\ (solved + 1) * Dt = done + Dt /\ 0 * Dt = 0
  BY <1>1, NextGridPoint
<1>3. solved = 0 => done = 0
  BY <1>2
<1>4. CASE Command
  <2>1. UNCHANGED <<now, nextStepAt, solved, resetAt>> /\ SimTypeOK'
        /\ (stepOnce' => state' # "Stopped")
    BY <1>4, ControlIsTyped DEF Command, plantVars
  <2> QED BY <1>1, <2>1 DEF OnGrid
<1>5. CASE Reset
  <2>1. /\ nextStepAt' = now /\ solved' = 0 /\ resetAt' = now
        /\ UNCHANGED <<state, stepOnce, allowed, now>>
    BY <1>5 DEF Reset, simVars
  <2>2. SimTypeOK' /\ (stepOnce' => state' # "Stopped")
    BY <1>1, <2>1 DEF SimTypeOK, OnGrid
  <2> QED BY <1>1, <1>2, <2>1, <2>2 DEF OnGrid
<1>6. CASE Advance
  <2>1. /\ UNCHANGED <<allowed, nextStepAt, solved, resetAt>> /\ Progressed
    BY <1>6 DEF Advance, Polled, plantVars
  <2>2. now' \in Nat /\ now < now' /\ now' <= nextStepAt
    BY <1>6, AdvanceBounds
  <2>3. solved # 0
    BY <1>1, <1>3, <2>2
  <2>4. SimTypeOK' /\ (stepOnce' => state' # "Stopped")
    BY <2>1, <2>2, PollIsTyped
  <2> HIDE DEF done
  <2>5. nextStepAt' = resetAt' + solved' * Dt
    BY <1>1, <2>1 DEF done
  <2> QED BY <1>1, <2>1, <2>2, <2>3, <2>4, <2>5 DEF OnGrid
<1>7. CASE Stalled
  <2>1. UNCHANGED <<allowed, now, nextStepAt, solved, resetAt>> /\ NoProgress
    BY <1>7 DEF Stalled, Polled, plantVars
  <2>2. SimTypeOK' /\ (stepOnce' => state' # "Stopped")
    BY <1>1, <2>1, PollIsTyped
  <2> QED BY <1>1, <2>1, <2>2 DEF OnGrid
<1>8. CASE Solve
  <2>1. /\ UNCHANGED <<allowed, now, resetAt>> /\ Progressed
        /\ nextStepAt' = nextStepAt + Dt /\ solved' = solved + 1 /\ now >= nextStepAt
    BY <1>8 DEF Solve, Polled
  <2>2. SimTypeOK' /\ (stepOnce' => state' # "Stopped")
    BY <1>1, <2>1, PollIsTyped
  <2>3. solved' * Dt = done + Dt
    BY <1>2, <2>1
  <2>4. nextStepAt' = resetAt' + solved' * Dt
    BY <1>1, <1>2, <2>1, <2>3
  <2> HIDE DEF done
  <2>5. /\ nextStepAt' \in Nat /\ solved' \in Nat /\ solved' > 0
        /\ resetAt' \in Nat /\ resetAt' <= now'
        /\ now' <= nextStepAt' /\ nextStepAt' - Dt <= now'
    BY <1>1, <2>1
  <2>6. solved' # 0
    BY <2>5
  <2> QED BY <2>2, <2>4, <2>5, <2>6 DEF OnGrid
<1>9. CASE UNCHANGED vars
  <2>1. UNCHANGED <<state, stepOnce, allowed, now, nextStepAt, solved, resetAt>>
    BY <1>9 DEF vars, simVars, plantVars
  <2> QED BY <2>1 DEF OnGrid, SimTypeOK
<1> QED BY <1>4, <1>5, <1>6, <1>7, <1>8, <1>9 DEF Next, Poll

\* The solver runs at the time of the reset and once every Dt after it, however
\* ceilings, stops and single steps cut the time.
THEOREM SolvesOnGrid == Spec => []OnGrid
BY InitIsOnGrid, StepKeepsGrid, PTL DEF Spec

-----------------------------------------------------------------------------
(* The plant keeps GuestClock. *)

LEMMA CommandIsCommand == ASSUME OnGrid, Command PROVE Clock!Command
<1>1. state # "Quit" /\ UNCHANGED now
  BY DEF Command, SimCommand, Start, Step, Stop, Quit, SetAllowed
<1>2. CASE Start
  BY <1>1, <1>2 DEF Start, Clock!Command
<1>3. CASE Step
  BY <1>1, <1>3 DEF Step, Clock!Command
<1>4. CASE Stop
  BY <1>1, <1>4 DEF Stop, Clock!Command
<1>5. CASE Quit
  BY <1>1, <1>5 DEF Quit, Clock!Command
<1>6. CASE \E tick \in Ceilings : SetAllowed(tick)
  BY <1>1, <1>6, CeilingsAssumption DEF SetAllowed, Clock!Command
<1> QED BY <1>2, <1>3, <1>4, <1>5, <1>6 DEF Command, SimCommand

LEMMA PollIsRun ==
    ASSUME OnGrid, Advance \/ Solve
    PROVE  Clock!Run \/ Clock!StepUnit
<1>1. /\ state = "Running" /\ UNCHANGED allowed
      /\ IF stepOnce THEN StopRunning ELSE UNCHANGED <<state, stepOnce>>
  BY DEF Advance, Solve, Polled, Progressed
<1>2. /\ now' >= now
      /\ now' = now \/ allowed = NoLimit \/ now' <= allowed
  <2>1. now \in Nat
    BY DEF OnGrid, SimTypeOK
  <2>2. CASE Advance
    BY <2>1, <2>2, AdvanceBounds
  <2>3. CASE Solve
    BY <2>1, <2>3 DEF Solve
  <2> QED BY <2>2, <2>3
<1>3. CASE stepOnce
  BY <1>1, <1>2, <1>3 DEF StopRunning, Clock!StepUnit, Clock!BelowCeiling, Clock!StopHere
<1>4. CASE ~ stepOnce
  BY <1>1, <1>2, <1>4 DEF Clock!Run, Clock!BelowCeiling, Clock!StopHere
<1> QED BY <1>3, <1>4

\* The plant implements GuestClock, and never passes its ceiling.
THEOREM PlantKeepsGuestClock == Spec => KeepsGuestClock
<1>1. Init => Clock!Init
  BY DEF Init, SimInit, Clock!Init
<1>2. OnGrid /\ [Next]_vars => [Clock!Next]_Clock!vars
  <2>1. SUFFICES ASSUME OnGrid, [Next]_vars PROVE [Clock!Next]_Clock!vars
    OBVIOUS
  <2>2. CASE Command
    BY <2>1, <2>2, CommandIsCommand DEF Clock!Next
  <2>3. CASE Advance \/ Solve
    BY <2>1, <2>3, PollIsRun DEF Clock!Next
  <2>4. CASE Reset \/ Stalled \/ UNCHANGED vars
    BY <2>4 DEF Reset, Stalled, Polled, NoProgress, vars, simVars, plantVars, Clock!vars
  <2> QED BY <2>1, <2>2, <2>3, <2>4 DEF Next, Poll
<1> QED BY <1>1, <1>2, SolvesOnGrid, PTL DEF Spec, KeepsGuestClock, Clock!Spec

-----------------------------------------------------------------------------
(* The event queue. *)

\* One call keeps the queue consistent.
LEMMA CallKeepsInv == QueueInv /\ [QueueNext]_queueVars => QueueInv'
<1>1. SUFFICES ASSUME Good(queue), [QueueNext]_queueVars PROVE Good(queue')
  BY DEF QueueInv, Good
<1>2. ASSUME NEW at \in Times, Schedule(at) PROVE Good(queue')
  BY <1>1, <1>2, ScheduledIsGood, EventAssumption DEF Schedule
<1>3. ASSUME NEW id \in 1..MaxEvents, Cancel(id) PROVE Good(queue')
  BY <1>1, <1>3, CancelledIsGood DEF Cancel
<1>4. ASSUME queue' = WithoutStale(queue) PROVE Good(queue')
  BY <1>1, <1>4, WithoutStaleIsGood
<1>5. ASSUME NEW time \in Times, PopDue(time) PROVE Good(queue')
  BY <1>1, <1>5, PoppedIsGood DEF PopDue, IsDue
<1>6. CASE UNCHANGED queueVars
  BY <1>1, <1>6 DEF queueVars
<1> QED BY <1>1, <1>2, <1>3, <1>4, <1>5, <1>6 DEF QueueNext, NextDeadline, PopNothing

\* Heap, map and marks stay consistent: `cancel` leaves entries behind, but none
\* is ever taken for a live event and none outlives its mark.
THEOREM QueueStaysConsistent == QueueSpec => []QueueInv
<1>1. QueueInit => QueueInv
  BY EmptyIsGood DEF QueueInit, QueueInv, Good
<1> QED BY <1>1, CallKeepsInv, PTL DEF QueueSpec

\* One call is a call of PendingEvents with the same answer.
LEMMA CallImplements ==
    ASSUME QueueInv, QueueNext
    PROVE  Pending!Next
<1> DEFINE pending == LivePending(queue)
<1>0. Good(queue) /\ queue.next \in Nat
  BY DEF QueueInv, Good, Queue
<1>1. ASSUME NEW at \in Times, Schedule(at) PROVE Pending!Schedule(at)
  <2>1. /\ LivePending(queue') = pending \cup {[at |-> at, id |-> queue.next + 1]}
        /\ queue'.next = queue.next + 1
    BY <1>0, <1>1, ScheduledIsGood, EventAssumption DEF Schedule, Scheduled, Good, Queue
  <2> QED BY <1>1, <2>1 DEF Schedule, Pending!Schedule
<1>2. ASSUME NEW id \in 1..MaxEvents, Cancel(id) PROVE Pending!Cancel(id)
  <2>1. /\ LivePending(queue') = {e \in pending : e.id # id}
        /\ queue'.next = queue.next
        /\ id \in queue.live <=> \E e \in pending : e.id = id
    BY <1>0, <1>2, CancelledIsGood DEF Cancel
  <2> HIDE DEF pending
  <2>2. (id \in queue.live) = (\E e \in pending : e.id = id)
    <3>1. CASE id \in queue.live
      <4>1. (id \in queue.live) = TRUE
        BY <3>1
      <4>2. (\E e \in pending : e.id = id) = TRUE
        BY <2>1, <3>1
      <4> QED BY <4>1, <4>2
    <3>2. CASE id \notin queue.live
      <4>1. (id \in queue.live) = FALSE
        BY <3>2
      <4>2. (\E e \in pending : e.id = id) = FALSE
        BY <2>1, <3>2
      <4> QED BY <4>1, <4>2
    <3> QED BY <3>1, <3>2
  <2>3. result' = <<"cancel", id, \E e \in pending : e.id = id>>
    BY <1>2, <2>2 DEF Cancel
  <2> USE DEF pending
  <2> QED BY <2>1, <2>3 DEF Pending!Cancel
<1>3. ASSUME queue' = WithoutStale(queue)
      PROVE  LivePending(queue') = pending /\ queue'.next = queue.next
  BY <1>0, <1>3, WithoutStaleIsGood
<1>4. ASSUME NEW e, IsFront(queue, e)
      PROVE  e \in pending /\ Pending!Earliest(e)
  BY <1>0, <1>4, FrontIsEarliest DEF Pending!Earliest, Before
<1>5. ASSUME NextDeadline PROVE Pending!NextDeadline
  <2>1. LivePending(queue') = pending /\ queue'.next = queue.next
    BY <1>3, <1>5 DEF NextDeadline
  <2>2. CASE \E e \in queue.heap : IsFront(queue, e) /\ result' = <<"next_deadline", e.at>>
    BY <1>4, <2>1, <2>2 DEF Pending!NextDeadline
  <2>3. CASE queue'.heap = {} /\ result' = <<"no_deadline">>
    <3>1. pending = {}
      BY <1>0, <1>5, <2>3, WithoutStaleIsGood DEF NextDeadline
    <3> QED BY <2>1, <2>3, <3>1 DEF Pending!NextDeadline
  <2> QED BY <1>5, <2>2, <2>3 DEF NextDeadline
<1>6. ASSUME NEW time \in Times, PopDue(time)
      PROVE  \E e \in pending : Pending!PopDue(e, time)
  <2>1. PICK e \in queue.heap : /\ IsFront(queue, e) /\ e.at <= time
                                /\ queue' = Popped(queue, e)
                                /\ result' = <<"pop_due", e.id>>
    BY <1>6 DEF PopDue, IsDue
  <2>2. LivePending(queue') = pending \ {e} /\ queue'.next = queue.next
    BY <1>0, <2>1, PoppedIsGood
  <2>3. e \in pending /\ Pending!Earliest(e)
    BY <1>4, <2>1
  <2> QED BY <2>1, <2>2, <2>3 DEF Pending!PopDue
<1>7. ASSUME NEW time \in Times, PopNothing(time) PROVE Pending!PopNothing(time)
  <2>1. \A e \in pending : e.at > time
    <3>1. \A e \in WithoutStale(queue).heap : e.at > time
      BY <1>0, <1>7, NothingDueAhead, EventAssumption DEF PopNothing
    <3>2. pending \subseteq WithoutStale(queue).heap
      BY <1>0, WithoutStaleIsGood
    <3> QED BY <3>1, <3>2
  <2>2. LivePending(queue') = pending /\ queue'.next = queue.next
    BY <1>3, <1>7 DEF PopNothing
  <2> QED BY <1>7, <2>1, <2>2 DEF PopNothing, Pending!PopNothing
<1> QED BY <1>1, <1>2, <1>5, <1>6, <1>7 DEF QueueNext, Pending!Next

\* The queue implements PendingEvents: nothing a device or the machine can ask
\* tells the lazy deletion from an immediate one, events come out earliest
\* first, and a due event is not withheld.
THEOREM QueueImplements == QueueSpec => QueueIsPendingEvents
<1>1. QueueInit => Pending!Init
  BY EmptyIsGood DEF QueueInit, Pending!Init, EmptyQueue
<1>2. QueueInv /\ [QueueNext]_queueVars => [Pending!Next]_(Pending!pendingVars)
  <2>1. ASSUME QueueInv, QueueNext PROVE Pending!Next
    BY <2>1, CallImplements
  <2>2. UNCHANGED queueVars => UNCHANGED Pending!pendingVars
    BY DEF queueVars, Pending!pendingVars, LivePending
  <2> QED BY <2>1, <2>2
<1> QED BY <1>1, <1>2, QueueStaysConsistent, PTL
        DEF QueueSpec, QueueIsPendingEvents, Pending!Spec
=============================================================================
