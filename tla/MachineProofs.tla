--------------------------- MODULE MachineProofs ---------------------------
(***************************************************************************)
(* The machine, for any quantum, instruction periods and device delays:    *)
(* events come in order and no more than a quantum late, quanta end at     *)
(* deadlines and ceilings, and the board node may rely on GuestClock.      *)
(***************************************************************************)
EXTENDS Machine, EventHeapProofs

-----------------------------------------------------------------------------
(* What one action does. *)

\* Device code keeps the queue consistent and schedules nothing in the past.
LEMMA TouchedIsGood ==
    ASSUME NEW q, Good(q), now \in Nat, NEW r \in Touched(q)
    PROVE  /\ Good(r)
           /\ \A e \in LivePending(r) : e \in LivePending(q) \/ e.at >= now
<1> DEFINE left == {q} \cup {Cancelled(q, id) : id \in q.live}
<1>1. ASSUME NEW s \in left
      PROVE  Good(s) /\ LivePending(s) \subseteq LivePending(q)
  <2>1. CASE s = q
    BY <2>1
  <2>2. CASE \E id \in q.live : s = Cancelled(q, id)
    <3>1. PICK id \in q.live : s = Cancelled(q, id)
      BY <2>2
    <3> QED BY <3>1, CancelledIsGood
  <2> QED BY <1>1, <2>1, <2>2
<1>2. r \in left \/ \E s \in left, d \in Delays : r = Scheduled(s, now + d)
  BY DEF Touched
<1>3. CASE r \in left
  BY <1>1, <1>3
<1>4. CASE \E s \in left, d \in Delays : r = Scheduled(s, now + d)
  <2>1. PICK s \in left, d \in Delays : r = Scheduled(s, now + d)
    BY <1>4
  <2>2. now + d \in Nat /\ now + d >= now
    BY MachineAssumption
  <2>3. /\ Good(r)
        /\ LivePending(r) = LivePending(s) \cup {[at |-> now + d, id |-> s.next + 1]}
    BY <1>1, <2>1, <2>2, ScheduledIsGood
  <2> QED BY <1>1, <2>2, <2>3
<1> QED BY <1>2, <1>3, <1>4

\* The budget of a quantum ends before the next deadline and the ceiling.
LEMMA SpanBounds ==
    ASSUME TypeOK, NEW span \in 0..MaxQuantum, IsBudget(span)
    PROVE  /\ now + span \in Nat /\ now + span <= now + MaxQuantum /\ now <= now + span
           /\ \A e \in queue.heap : now + span <= e.at
           /\ span = 0 \/ allowed = NoLimit \/ now + span <= allowed
BY MachineAssumption DEF TypeOK, SimTypeOK, IsBudget, Budget, NoLimit

\* A quantum retires its instructions within its budget; a single step may pass
\* it, by less than the longest quantum.
LEMMA RetireBounds ==
    ASSUME MachineInv, phase = "Run", ~ InsnTooLong,
           NEW span \in 0..MaxQuantum, IsBudget(span),
           NEW k \in InsnCounts, Retire(k, span)
    PROVE  /\ lastInsn' \in Nat /\ now' \in Nat /\ period' \in Periods
           /\ lastInsn' <= now' /\ now + span <= now' /\ now' <= now + MaxQuantum
           /\ ~ stepOnce => now' = now + span
           /\ Good(queue')
           /\ \A e \in LivePending(queue') : e \in LivePending(queue) \/ e.at >= now
<1>1. /\ now \in Nat /\ lastInsn \in Nat /\ period \in Nat /\ MaxQuantum \in Nat
      /\ lastInsn <= now /\ period <= MaxQuantum /\ stepOnce \in BOOLEAN
  BY MachineAssumption
     DEF MachineInv, MachineConsistent, TypeOK, SimTypeOK, InsnTooLong
<1>2. /\ now + span \in Nat /\ now + span <= now + MaxQuantum /\ now <= now + span
  BY SpanBounds DEF MachineInv, MachineConsistent
<1>3. k \in Nat
  BY <1>1 DEF InsnCounts
<1> DEFINE spent == k * period
<1>4. spent \in Nat
  BY <1>1, <1>3
<1>5. /\ ~ stepOnce => lastInsn + spent <= now + span
      /\ stepOnce => spent <= period
  <2>1. stepOnce => k = 0 \/ k = 1
    BY <1>3 DEF Retire, Fits
  <2>2. k = 0 => spent = 0
    BY <1>1
  <2>3. k = 1 => spent = period
    BY <1>1
  <2>4. ~ stepOnce => lastInsn + spent <= now + span
    BY DEF Retire, Fits
  <2> QED BY <1>1, <2>1, <2>2, <2>3, <2>4
<1>6. /\ lastInsn' = lastInsn + spent
      /\ now' = IF lastInsn' > now + span THEN lastInsn' ELSE now + span
  BY DEF Retire
<1> HIDE DEF spent
<1>7. /\ lastInsn' \in Nat /\ now' \in Nat
      /\ lastInsn' <= now' /\ now + span <= now' /\ now' <= now + MaxQuantum
      /\ ~ stepOnce => now' = now + span
  BY <1>1, <1>2, <1>3, <1>4, <1>5, <1>6
<1>8. Good(queue)
  BY DEF MachineInv, MachineConsistent, TypeOK, Good
<1>9. /\ period' \in Periods /\ Good(queue')
      /\ \A e \in LivePending(queue') : e \in LivePending(queue) \/ e.at >= now
  <2>1. CASE k = 0
    BY <1>8, <2>1 DEF Retire, MachineInv, MachineConsistent, TypeOK
  <2>2. CASE k # 0
    BY <1>1, <1>8, <2>2, TouchedIsGood DEF Retire
  <2> QED BY <2>1, <2>2
<1> QED BY <1>7, <1>9

\* Firing one event leaves what lies at or after it.
LEMMA FireBounds ==
    ASSUME MachineInv, PopAndFire
    PROVE  /\ Good(queue') /\ lastFired' \in Nat /\ lastFired' <= now
           /\ \A e \in LivePending(queue') :
                 lastFired' <= e.at /\ (e \in LivePending(queue) \/ e.at >= now)
<1>1. Good(queue) /\ now \in Nat
  BY DEF MachineInv, MachineConsistent, TypeOK, SimTypeOK, Good
<1>2. PICK e \in queue.heap : /\ IsFront(queue, e) /\ e.at <= now
                              /\ queue' \in Touched(Popped(queue, e))
                              /\ lastFired' = e.at
  BY DEF PopAndFire, IsDue
<1>3. /\ Good(Popped(queue, e))
      /\ LivePending(Popped(queue, e)) = LivePending(queue) \ {e}
  BY <1>1, <1>2, PoppedIsGood
<1>4. /\ Good(queue')
      /\ \A f \in LivePending(queue') : f \in LivePending(queue) \ {e} \/ f.at >= now
  BY <1>1, <1>2, <1>3, TouchedIsGood
<1>5. \A f \in LivePending(queue) \ {e} : e.at <= f.at
  <2>1. \A f \in LivePending(queue) : f.at \in Nat
    BY <1>1 DEF Good, Queue, Entry, LivePending
  <2>2. e.at \in Nat
    BY <1>1 DEF Good, Queue, Entry
  <2>3. \A f \in LivePending(queue) \ {e} : Before(e, f)
    BY <1>1, <1>2, FrontIsEarliest
  <2> QED BY <2>1, <2>2, <2>3 DEF Before
<1>6. e.at \in Nat /\ \A f \in queue'.heap : f.at \in Nat
  BY <1>1, <1>4 DEF Good, Queue, Entry
<1>7. ASSUME NEW f \in LivePending(queue')
      PROVE  e.at <= f.at
  BY <1>1, <1>2, <1>4, <1>5, <1>6 DEF LivePending
<1> QED BY <1>2, <1>4, <1>6, <1>7

-----------------------------------------------------------------------------
(* The invariant. *)

\* What an action that leaves clock and pending events alone has to show.
LEMMA QuietKeepsInv ==
    ASSUME MachineInv, UNCHANGED <<now, lastFired>>,
           Good(queue'), LivePending(queue') \subseteq LivePending(queue),
           SimTypeOK', phase' \in {"Idle", "FireBefore", "Run", "FireAfter"},
           period' \in Periods, lastInsn' \in Nat, lastInsn' <= now,
           stepOnce' => state' # "Stopped",
           phase' # "Idle" => state' = "Running",
           phase' = "Run" => \A e \in queue'.heap : e.at > now
    PROVE  MachineInv'
<1>1. EventsTimely' /\ FiredInOrder'
  BY DEF MachineInv, EventsTimely, FiredInOrder
<1>2. TypeOK'
  BY DEF MachineInv, MachineConsistent, TypeOK, Good
<1> QED BY <1>1, <1>2 DEF MachineInv, MachineConsistent, Good

LEMMA InitIsConsistent == Init => MachineInv
<1> SUFFICES ASSUME Init PROVE MachineInv
  OBVIOUS
<1>1. Good(queue) /\ LivePending(queue) = {}
  BY EmptyIsGood DEF Init
<1>2. /\ now = 0 /\ lastInsn = 0 /\ lastFired = 0
      /\ phase = "Idle" /\ stepOnce = FALSE /\ state = "Stopped"
      /\ period \in Periods /\ allowed = NoLimit
  BY DEF Init, SimInit
<1>3. SimTypeOK
  BY <1>2 DEF SimTypeOK, SimState
<1>4. TypeOK
  BY <1>1, <1>2, <1>3 DEF TypeOK, Good
<1>5. MachineConsistent
  BY <1>1, <1>2, <1>4 DEF MachineConsistent, Good
<1>6. EventsTimely /\ FiredInOrder
  BY <1>1, <1>2 DEF EventsTimely, FiredInOrder
<1> QED BY <1>5, <1>6 DEF MachineInv

\* Actions that neither fire nor run.
LEMMA QuietActions ==
    ASSUME MachineInv,
           Command \/ Reset \/ PollBegins \/ FiredBefore \/ FiredAfter
             \/ Refuse \/ NothingToDo \/ UNCHANGED vars
    PROVE  MachineInv'
<1>1. /\ Good(queue) /\ SimTypeOK /\ period \in Periods
      /\ lastInsn \in Nat /\ lastInsn <= now /\ now \in Nat
      /\ stepOnce => state # "Stopped"
      /\ phase # "Idle" => state = "Running"
      /\ phase \in {"Idle", "FireBefore", "Run", "FireAfter"}
      /\ phase = "Run" => \A e \in queue.heap : e.at > now
  BY DEF MachineInv, MachineConsistent, TypeOK, SimTypeOK, Good
<1>2. ASSUME Command PROVE MachineInv'
  <2>1. SimTypeOK' /\ (stepOnce' => state' # "Stopped")
    <3>1. CASE Start \/ Step \/ Stop \/ Quit
      <4>1. /\ state' \in SimState /\ stepOnce' \in BOOLEAN /\ UNCHANGED <<allowed, now>>
            /\ stepOnce' => state' # "Stopped"
        BY <1>1, <3>1 DEF Start, Step, Stop, Quit, SimTypeOK, SimState
      <4> QED BY <1>1, <4>1 DEF SimTypeOK
    <3>2. CASE \E tick \in Ceilings : SetAllowed(tick)
      <4>1. UNCHANGED <<state, stepOnce, now>> /\ allowed' \in Nat
        BY <3>2, CeilingsAssumption DEF SetAllowed
      <4> QED BY <1>1, <4>1 DEF SimTypeOK
    <3> QED BY <1>2, <3>1, <3>2 DEF Command, SimCommand
  <2>2. UNCHANGED <<now, phase, queue, lastInsn, period, lastFired>> /\ phase = "Idle"
    BY <1>2 DEF Command, SimCommand, Start, Step, Stop, Quit, SetAllowed, machineVars
  <2> QED BY <1>1, <2>1, <2>2, QuietKeepsInv
<1>3. ASSUME Reset PROVE MachineInv'
  <2>1. PICK dropped \in SUBSET queue.live : queue' = CancelledAll(queue, dropped)
    BY <1>3 DEF Reset
  <2>2. Good(queue') /\ LivePending(queue') \subseteq LivePending(queue)
    BY <1>1, <2>1, CancelAllIsGood
  <2>3. /\ UNCHANGED <<now, lastFired, phase, period, state, stepOnce>>
        /\ SimTypeOK' /\ lastInsn' = now /\ phase = "Idle"
    BY <1>1, <1>3 DEF Reset, simVars, SimTypeOK
  <2> QED BY <1>1, <2>2, <2>3, QuietKeepsInv
<1>4. ASSUME PollBegins PROVE MachineInv'
  <2>1. /\ UNCHANGED <<now, lastFired, queue, lastInsn, period, state, stepOnce>>
        /\ SimTypeOK' /\ phase' = "FireBefore" /\ state = "Running"
    BY <1>1, <1>4 DEF PollBegins, simVars, machineVars, SimTypeOK
  <2> QED BY <1>1, <2>1, QuietKeepsInv
<1>5. ASSUME FiredBefore PROVE MachineInv'
  <2>1. /\ UNCHANGED <<now, lastFired, lastInsn, period, state, stepOnce>>
        /\ SimTypeOK' /\ phase' = "Run" /\ phase = "FireBefore"
    BY <1>1, <1>5 DEF FiredBefore, simVars, SimTypeOK
  <2>2. queue' = WithoutStale(queue) /\ NothingDue(queue, now)
    BY <1>5 DEF FiredBefore
  <2>3. Good(queue') /\ LivePending(queue') = LivePending(queue)
    BY <1>1, <2>2, WithoutStaleIsGood
  <2>4. \A e \in queue'.heap : e.at > now
    BY <1>1, <2>2, NothingDueAhead
  <2> QED BY <1>1, <2>1, <2>3, <2>4, QuietKeepsInv
<1>6. ASSUME FiredAfter PROVE MachineInv'
  <2>1. UNCHANGED <<now, allowed, lastFired, lastInsn, period>> /\ phase' = "Idle"
    BY <1>6 DEF FiredAfter
  <2>2. SimTypeOK' /\ (stepOnce' => state' # "Stopped")
    BY <1>1, <1>6, <2>1 DEF FiredAfter, Progressed, StopRunning, SimTypeOK, SimState
  <2>3. Good(queue') /\ LivePending(queue') = LivePending(queue)
    BY <1>1, <1>6, WithoutStaleIsGood DEF FiredAfter
  <2> QED BY <1>1, <2>1, <2>2, <2>3, QuietKeepsInv
<1>7. ASSUME Refuse PROVE MachineInv'
  <2>1. /\ UNCHANGED <<now, allowed, lastFired, queue, lastInsn, period>>
        /\ phase' = "Idle" /\ state' = "Stopped" /\ stepOnce' = FALSE
    BY <1>7 DEF Refuse, StopRunning, machineVars
  <2>2. SimTypeOK'
    BY <1>1, <2>1 DEF SimTypeOK, SimState
  <2> QED BY <1>1, <2>1, <2>2, QuietKeepsInv
<1>8. ASSUME NothingToDo PROVE MachineInv'
  <2>1. /\ UNCHANGED <<now, allowed, state, stepOnce, lastFired, queue, lastInsn, period>>
        /\ phase' = "Idle"
    BY <1>8 DEF NothingToDo, NoProgress, machineVars
  <2>2. SimTypeOK'
    BY <1>1, <2>1 DEF SimTypeOK
  <2> QED BY <1>1, <2>1, <2>2, QuietKeepsInv
<1>9. ASSUME UNCHANGED vars PROVE MachineInv'
  <2>1. /\ UNCHANGED <<now, allowed, state, stepOnce, phase, lastFired, queue, lastInsn,
                       period>>
    BY <1>9 DEF vars, simVars, machineVars
  <2>2. SimTypeOK'
    BY <1>1, <2>1 DEF SimTypeOK
  <2> QED BY <1>1, <2>1, <2>2, QuietKeepsInv
<1> QED BY <1>2, <1>3, <1>4, <1>5, <1>6, <1>7, <1>8, <1>9

\* Firing an event, with or without a stop.
LEMMA FireActions ==
    ASSUME MachineInv, Fire \/ \E reason \in EventStop : FireStop(reason)
    PROVE  MachineInv'
<1>1. /\ Firing /\ PopAndFire
      /\ UNCHANGED <<allowed, now, lastInsn, period>>
      /\ \/ UNCHANGED <<state, stepOnce, phase>>
         \/ phase' = "Idle" /\ (UNCHANGED <<state, stepOnce>> \/ StopRunning)
  <2>1. CASE Fire
    BY <2>1 DEF Fire, simVars
  <2>2. CASE \E reason \in EventStop : FireStop(reason)
    BY <2>2 DEF FireStop, CommitStop, Progressed
  <2> QED BY <2>1, <2>2
<1>2. /\ Good(queue') /\ lastFired' \in Nat /\ lastFired' <= now
      /\ \A e \in LivePending(queue') :
            lastFired' <= e.at /\ (e \in LivePending(queue) \/ e.at >= now)
  BY <1>1, FireBounds
<1>3. now \in Nat /\ MaxQuantum \in Nat
  BY MachineAssumption DEF MachineInv, MachineConsistent, TypeOK, SimTypeOK
<1>4. EventsTimely'
  <2>1. SUFFICES ASSUME NEW e \in LivePending(queue') PROVE now <= e.at + MaxQuantum
    BY <1>1 DEF EventsTimely
  <2>2. CASE e \in LivePending(queue)
    BY <2>2 DEF MachineInv, EventsTimely
  <2>3. CASE e.at >= now
    <3>1. e.at \in Nat
      BY <1>2, <2>1 DEF Good, Queue, Entry, LivePending
    <3> QED BY <1>3, <2>3, <3>1
  <2> QED BY <1>2, <2>1, <2>2, <2>3
<1>5. FiredInOrder'
  BY <1>1, <1>2 DEF FiredInOrder
<1>6. MachineConsistent'
  <2>1. SimTypeOK' /\ (stepOnce' => state' # "Stopped")
    <3>1. SimTypeOK /\ (stepOnce => state # "Stopped")
      BY DEF MachineInv, MachineConsistent, TypeOK
    <3>2. CASE UNCHANGED <<state, stepOnce>>
      BY <1>1, <3>1, <3>2 DEF SimTypeOK
    <3>3. CASE StopRunning
      BY <1>1, <3>1, <3>3 DEF StopRunning, SimTypeOK, SimState
    <3> QED BY <1>1, <3>2, <3>3
  <2>2. TypeOK'
    BY <1>1, <1>2, <2>1 DEF MachineInv, MachineConsistent, TypeOK, Good
  <2>3. /\ phase' # "Run" /\ lastInsn' <= now'
        /\ phase' # "Idle" => state' = "Running"
    BY <1>1 DEF Firing, MachineInv, MachineConsistent
  <2> QED BY <1>2, <2>1, <2>2, <2>3 DEF MachineConsistent, Good
<1> QED BY <1>4, <1>5, <1>6 DEF MachineInv

\* A quantum: whatever becomes due in it is late by no more than its length.
LEMMA QuantumActions ==
    ASSUME MachineInv,
           IdleQuantum \/ RunQuantum \/ \E reason \in CpuStop : RunQuantumStop(reason)
    PROVE  MachineInv'
<1>1. /\ phase = "Run" /\ UNCHANGED <<allowed, lastFired>>
      /\ \/ phase' = "FireAfter" /\ UNCHANGED <<state, stepOnce>>
         \/ phase' = "Idle" /\ (UNCHANGED <<state, stepOnce>> \/ StopRunning)
  <2>1. CASE IdleQuantum
    BY <2>1 DEF IdleQuantum
  <2>2. CASE RunQuantum
    BY <2>2 DEF RunQuantum, Quantum
  <2>3. CASE \E reason \in CpuStop : RunQuantumStop(reason)
    BY <2>3 DEF RunQuantumStop, Quantum, CommitStop, Progressed
  <2> QED BY <2>1, <2>2, <2>3
<1>2. /\ now \in Nat /\ MaxQuantum \in Nat /\ TypeOK /\ Good(queue) /\ state = "Running"
      /\ \A e \in queue.heap : e.at > now
  BY <1>1, MachineAssumption DEF MachineInv, MachineConsistent, TypeOK, SimTypeOK, Good
<1>3. /\ lastInsn' \in Nat /\ now' \in Nat /\ period' \in Periods
      /\ lastInsn' <= now' /\ now <= now' /\ now' <= now + MaxQuantum
      /\ Good(queue')
      /\ \A e \in LivePending(queue') : e \in LivePending(queue) \/ e.at >= now
  <2>1. CASE IdleQuantum
    <3>1. PICK span \in 1..MaxQuantum : IsBudget(span) /\ now' = now + span
      BY <2>1 DEF IdleQuantum
    <3>2. span \in 0..MaxQuantum
      BY <1>2
    <3>3. now + span \in Nat /\ now + span <= now + MaxQuantum /\ now <= now + span
      BY <1>2, <3>1, <3>2, SpanBounds
    <3>4. UNCHANGED <<queue, lastInsn, period>>
      BY <2>1 DEF IdleQuantum
    <3>5. lastInsn \in Nat /\ lastInsn <= now /\ period \in Periods
      BY DEF MachineInv, MachineConsistent, TypeOK
    <3> QED BY <1>2, <3>1, <3>3, <3>4, <3>5
  <2>2. CASE RunQuantum \/ \E reason \in CpuStop : RunQuantumStop(reason)
    <3>1. PICK span \in 0..MaxQuantum, k \in InsnCounts :
             ~ InsnTooLong /\ IsBudget(span) /\ Retire(k, span)
      BY <2>2 DEF RunQuantum, RunQuantumStop, Quantum
    <3>2. now <= now + span /\ now + span \in Nat
      BY <1>2, <3>1, SpanBounds
    <3>3. /\ lastInsn' \in Nat /\ now' \in Nat /\ period' \in Periods
          /\ lastInsn' <= now' /\ now + span <= now' /\ now' <= now + MaxQuantum
          /\ Good(queue')
          /\ \A e \in LivePending(queue') : e \in LivePending(queue) \/ e.at >= now
      BY <1>1, <3>1, RetireBounds
    <3> QED BY <1>2, <3>2, <3>3
  <2> QED BY <2>1, <2>2
<1>4. ASSUME NEW e \in LivePending(queue')
      PROVE  e.at \in Nat /\ e.at >= now
  <2>1. e.at \in Nat
    BY <1>3 DEF Good, Queue, Entry, LivePending
  <2>2. CASE e \in LivePending(queue)
    BY <1>2, <2>1, <2>2 DEF LivePending
  <2> QED BY <1>3, <2>1, <2>2
<1>5. EventsTimely'
  BY <1>2, <1>3, <1>4 DEF EventsTimely
<1>6. FiredInOrder'
  <2>1. lastFired \in Nat /\ lastFired <= now
    BY DEF MachineInv, MachineConsistent, TypeOK, FiredInOrder
  <2> QED BY <1>1, <1>2, <1>3, <1>4, <2>1 DEF FiredInOrder
<1>7. MachineConsistent'
  <2>1. SimTypeOK' /\ (stepOnce' => state' # "Stopped")
    BY <1>1, <1>2, <1>3
       DEF StopRunning, MachineInv, MachineConsistent, TypeOK, SimTypeOK, SimState
  <2>2. TypeOK'
    BY <1>1, <1>2, <1>3, <2>1 DEF TypeOK, Good
  <2> QED BY <1>1, <1>2, <1>3, <2>1, <2>2 DEF MachineConsistent, Good
<1> QED BY <1>5, <1>6, <1>7 DEF MachineInv

\* The inductive invariant: without MachineConsistent, in particular that all
\* that is left after firing lies ahead, lateness could add up over quanta.
THEOREM MachineInvariant == Spec => []MachineInv
<1>1. MachineInv /\ [Next]_vars => MachineInv'
  <2>1. SUFFICES ASSUME MachineInv, [Next]_vars PROVE MachineInv'
    OBVIOUS
  <2> QED BY <2>1, QuietActions, FireActions, QuantumActions DEF Next, Poll
<1> QED BY <1>1, InitIsConsistent, PTL DEF Spec

\* Heap, clock and run state of a machine stay consistent.
THEOREM MachineStaysConsistent == Spec => []MachineConsistent
BY MachineInvariant, PTL DEF MachineInv

\* No event is late by more than one quantum.
THEOREM NoEventLate == Spec => []EventsTimely
BY MachineInvariant, PTL DEF MachineInv

\* Events fire in the order of their deadlines.
THEOREM EventsInOrder == Spec => []FiredInOrder
BY MachineInvariant, PTL DEF MachineInv

-----------------------------------------------------------------------------
(* What a step promises. *)

\* Of all actions only a quantum moves the clock, within its bounds.
LEMMA QuantumMoves ==
    ASSUME MachineInv,
           IdleQuantum \/ RunQuantum \/ \E reason \in CpuStop : RunQuantumStop(reason)
    PROVE  /\ phase = "Run" /\ state = "Running" /\ UNCHANGED allowed
           /\ now' \in Nat /\ now <= now' /\ now' <= now + MaxQuantum
           /\ ~ stepOnce => /\ \A e \in queue.heap : now' <= e.at
                            /\ now' = now \/ allowed = NoLimit \/ now' <= allowed
           /\ \/ phase' = "FireAfter" /\ UNCHANGED <<state, stepOnce>>
              \/ phase' = "Idle" /\ StopRunning
              \/ phase' = "Idle" /\ ~ stepOnce /\ UNCHANGED <<state, stepOnce>>
<1>1. /\ phase = "Run" /\ state = "Running" /\ UNCHANGED allowed
      /\ TypeOK /\ now \in Nat /\ MaxQuantum \in Nat
  <2>1. phase = "Run" /\ UNCHANGED allowed
    BY DEF IdleQuantum, RunQuantum, RunQuantumStop, Quantum
  <2> QED BY <2>1, MachineAssumption DEF MachineInv, MachineConsistent, TypeOK, SimTypeOK
<1>2. PICK span \in 0..MaxQuantum :
         /\ IsBudget(span) /\ now' \in Nat
         /\ now + span <= now' /\ now' <= now + MaxQuantum
         /\ ~ stepOnce => now' = now + span
  <2>1. CASE IdleQuantum
    <3>1. PICK span \in 1..MaxQuantum : IsBudget(span) /\ now' = now + span
      BY <2>1 DEF IdleQuantum
    <3>2. span \in 0..MaxQuantum
      BY <1>1
    <3>3. now + span \in Nat /\ now + span <= now + MaxQuantum
      BY <1>1, <3>1, <3>2, SpanBounds
    <3> QED BY <3>1, <3>2, <3>3
  <2>2. CASE RunQuantum \/ \E reason \in CpuStop : RunQuantumStop(reason)
    <3>1. PICK span \in 0..MaxQuantum, k \in InsnCounts :
             ~ InsnTooLong /\ IsBudget(span) /\ Retire(k, span)
      BY <2>2 DEF RunQuantum, RunQuantumStop, Quantum
    <3> QED BY <1>1, <3>1, RetireBounds
  <2> QED BY <2>1, <2>2
<1>3. /\ now + span \in Nat /\ now <= now + span
      /\ \A e \in queue.heap : now + span <= e.at
      /\ span = 0 \/ allowed = NoLimit \/ now + span <= allowed
  BY <1>1, <1>2, SpanBounds
<1>4. now <= now'
  BY <1>1, <1>2, <1>3
<1>5. ASSUME ~ stepOnce
      PROVE  /\ \A e \in queue.heap : now' <= e.at
             /\ now' = now \/ allowed = NoLimit \/ now' <= allowed
  BY <1>1, <1>2, <1>3, <1>5
<1>6. \/ phase' = "FireAfter" /\ UNCHANGED <<state, stepOnce>>
      \/ phase' = "Idle" /\ StopRunning
      \/ phase' = "Idle" /\ ~ stepOnce /\ UNCHANGED <<state, stepOnce>>
  <2>1. CASE IdleQuantum
    BY <2>1 DEF IdleQuantum
  <2>2. CASE RunQuantum
    BY <2>2 DEF RunQuantum
  <2>3. CASE \E reason \in CpuStop : RunQuantumStop(reason)
    BY <2>3 DEF RunQuantumStop, CommitStop, Progressed
  <2> QED BY <2>1, <2>2, <2>3
<1> QED BY <1>1, <1>2, <1>4, <1>5, <1>6

LEMMA OnlyQuantumMoves ==
    ASSUME Command \/ Reset \/ PollBegins \/ FiredBefore \/ FiredAfter \/ Fire
             \/ Refuse \/ NothingToDo \/ UNCHANGED vars
             \/ \E reason \in EventStop : FireStop(reason)
    PROVE  UNCHANGED now
BY DEF Command, SimCommand, Start, Step, Stop, Quit, SetAllowed, Reset, PollBegins,
       FiredBefore, FiredAfter, Fire, FireStop, Refuse, NothingToDo, vars, simVars

\* No quantum jumps over an event that was pending when it began.
THEOREM QuantumEndsAtDeadline == Spec => DeadlineNotPassed
<1>1. ASSUME MachineInv, [Next]_vars, phase = "Run", ~ stepOnce,
             NEW e \in LivePending(queue)
      PROVE  now' <= e.at
  <2>1. e \in queue.heap
    BY DEF LivePending
  <2>2. CASE IdleQuantum \/ RunQuantum \/ \E reason \in CpuStop : RunQuantumStop(reason)
    BY <1>1, <2>1, <2>2, QuantumMoves
  <2>3. CASE UNCHANGED now
    <3>1. now \in Nat /\ e.at \in Nat /\ e.at > now
      BY <1>1, <2>1
         DEF MachineInv, MachineConsistent, TypeOK, SimTypeOK, Queue, Entry
    <3> QED BY <2>3, <3>1
  <2> QED BY <1>1, <2>2, <2>3, OnlyQuantumMoves DEF Next, Poll
<1>2. MachineInv /\ [Next]_vars =>
         [ phase = "Run" /\ ~ stepOnce =>
             \A e \in LivePending(queue) : now' <= e.at ]_vars
  BY <1>1
<1> QED BY <1>2, MachineInvariant, PTL DEF Spec, DeadlineNotPassed

-----------------------------------------------------------------------------
(* The machine keeps what GuestClock promises. *)

LEMMA CommandIsCommand == ASSUME MachineInv, Command PROVE Clock!Command
<1>1. /\ phase = "Idle" /\ UNCHANGED <<phase, now>> /\ state # "Quit"
      /\ stepOnce \in BOOLEAN
  BY DEF Command, SimCommand, Start, Step, Stop, Quit, SetAllowed,
         MachineInv, MachineConsistent, TypeOK, SimTypeOK
<1>2. CASE Start
  BY <1>1, <1>2 DEF Start, Clock!Command
<1>3. CASE Step
  BY <1>1, <1>3 DEF Step, Clock!Command
<1>4. CASE Stop
  BY <1>1, <1>4 DEF Stop, Clock!Command
<1>5. CASE Quit
  BY <1>1, <1>5 DEF Quit, Clock!Command
<1>6. CASE \E tick \in Ceilings : SetAllowed(tick)
  BY <1>1, <1>6, CeilingsAssumption DEF SetAllowed, Clock!Command
<1> QED BY <1>2, <1>3, <1>4, <1>5, <1>6 DEF Command, SimCommand

\* Between quanta the phases of a poll are not visible, but for the end of a
\* step and for a stop.
LEMMA PhasesAreSteps ==
    ASSUME MachineInv,
           Reset \/ PollBegins \/ FiredBefore \/ FiredAfter \/ Fire
             \/ Refuse \/ NothingToDo \/ UNCHANGED vars
             \/ \E reason \in EventStop : FireStop(reason)
    PROVE  [Clock!Next]_Clock!vars
<1>1. stepOnce \in BOOLEAN /\ now \in Nat /\ (phase # "Idle" => state = "Running")
  BY DEF MachineInv, MachineConsistent, TypeOK, SimTypeOK
<1>2. UNCHANGED <<allowed, now>>
  BY DEF Reset, PollBegins, FiredBefore, FiredAfter, Fire, FireStop, Refuse, NothingToDo,
         vars, simVars
<1>3. \/ /\ UNCHANGED <<state, stepOnce>>
         /\ stepOnce => ((phase = "FireAfter") <=> (phase' = "FireAfter"))
      \/ state = "Running" /\ StopRunning
  <2>1. CASE Reset \/ PollBegins \/ FiredBefore \/ Fire \/ UNCHANGED vars
    BY <2>1 DEF Reset, PollBegins, FiredBefore, Fire, vars, simVars
  <2>2. CASE FiredAfter
    BY <1>1, <2>2 DEF FiredAfter, Progressed
  <2>3. CASE Refuse \/ NothingToDo
    BY <1>1, <2>3 DEF Refuse, NothingToDo, NoProgress
  <2>4. CASE \E reason \in EventStop : FireStop(reason)
    BY <1>1, <2>4 DEF FireStop, Firing, CommitStop, Progressed
  <2> QED BY <2>1, <2>2, <2>3, <2>4
<1>4. CASE /\ UNCHANGED <<state, stepOnce>>
           /\ stepOnce => ((phase = "FireAfter") <=> (phase' = "FireAfter"))
  BY <1>1, <1>2, <1>4 DEF Clock!vars
<1>5. CASE state = "Running" /\ StopRunning
  <2>1. CASE ~ stepOnce
    BY <1>1, <1>2, <1>5, <2>1
       DEF StopRunning, Clock!Next, Clock!Run, Clock!StopHere, Clock!BelowCeiling
  <2>2. CASE stepOnce /\ phase # "FireAfter"
    BY <1>1, <1>2, <1>5, <2>2
       DEF StopRunning, Clock!Next, Clock!StepUnit, Clock!StopHere, Clock!BelowCeiling
  <2>3. CASE stepOnce /\ phase = "FireAfter"
    BY <1>2, <1>5, <2>3 DEF StopRunning, Clock!Next, Clock!StepDone, Clock!StopHere
  <2> QED BY <2>1, <2>2, <2>3
<1> QED BY <1>3, <1>4, <1>5

LEMMA QuantumIsRun ==
    ASSUME MachineInv,
           IdleQuantum \/ RunQuantum \/ \E reason \in CpuStop : RunQuantumStop(reason)
    PROVE  Clock!Run \/ Clock!StepUnit
<1>1. /\ phase = "Run" /\ state = "Running" /\ UNCHANGED allowed
      /\ now' \in Nat /\ now <= now' /\ now' <= now + MaxQuantum
      /\ ~ stepOnce => now' = now \/ allowed = NoLimit \/ now' <= allowed
      /\ \/ phase' = "FireAfter" /\ UNCHANGED <<state, stepOnce>>
         \/ phase' = "Idle" /\ StopRunning
         \/ phase' = "Idle" /\ ~ stepOnce /\ UNCHANGED <<state, stepOnce>>
  BY QuantumMoves
<1>2. now \in Nat
  BY DEF MachineInv, MachineConsistent, TypeOK, SimTypeOK
<1>3. CASE ~ stepOnce
  <2>1. now' >= now
    BY <1>1, <1>2
  <2> QED BY <1>1, <1>3, <2>1
          DEF Clock!Run, Clock!BelowCeiling, Clock!StopHere, StopRunning
<1>4. CASE stepOnce
  <2>1. now' >= now
    BY <1>1, <1>2
  <2> QED BY <1>1, <1>4, <2>1
          DEF Clock!StepUnit, Clock!BelowCeiling, Clock!StopHere, StopRunning
<1> QED BY <1>3, <1>4

\* The machine implements GuestClock: what the cluster's board node takes for
\* granted of its entity.
THEOREM MachineKeepsGuestClock == Spec => KeepsGuestClock
<1>1. Init => Clock!Init
  BY DEF Init, SimInit, Clock!Init
<1>2. MachineInv /\ [Next]_vars => [Clock!Next]_Clock!vars
  <2>1. SUFFICES ASSUME MachineInv, [Next]_vars PROVE [Clock!Next]_Clock!vars
    OBVIOUS
  <2>2. CASE Command
    BY <2>1, <2>2, CommandIsCommand DEF Clock!Next
  <2>3. CASE IdleQuantum \/ RunQuantum \/ \E reason \in CpuStop : RunQuantumStop(reason)
    BY <2>1, <2>3, QuantumIsRun DEF Clock!Next
  <2>4. CASE Reset \/ PollBegins \/ FiredBefore \/ FiredAfter \/ Fire
               \/ Refuse \/ NothingToDo \/ UNCHANGED vars
               \/ \E reason \in EventStop : FireStop(reason)
    BY <2>1, <2>4, PhasesAreSteps
  <2> QED BY <2>1, <2>2, <2>3, <2>4 DEF Next, Poll
<1> QED BY <1>1, <1>2, MachineInvariant, PTL DEF Spec, KeepsGuestClock, Clock!Spec
=============================================================================
