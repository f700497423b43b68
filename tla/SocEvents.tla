----------------------------- MODULE SocEvents ------------------------------
(***************************************************************************)
(* What the on-chip peripherals share: the virtual time and the event      *)
(* queue of `EventCtl` (as PendingEvents, which EventQueue is proved to     *)
(* implement), f_clk, and the request lines to the interrupt controller.    *)
(* The state `s` of the chip is a record with one field per unit; an        *)
(* operator of a unit takes it and returns the state after the call.       *)
(***************************************************************************)
EXTENDS Interrupts, ClockTree

NoEvent == 0

\* Generations wrap; so few are needed to tell two apart.
Generations == 4
NextGeneration(g) == (g + 1) % Generations

\* An event [at, id, unit, ch, generation] names the closure it holds: the unit,
\* the channel, the generation it was made for, and `at`, the deadline that the
\* closure keeps as well.
\* EventCtl::schedule; the new id is s'.issued.
Schedule(s, at, unit, ch, generation) ==
    [s EXCEPT !.issued = @ + 1,
              !.pending = @ \cup {[at |-> at, id |-> s.issued + 1, unit |-> unit,
                                   ch |-> ch, generation |-> generation]}]

\* EventCtl::cancel.
Cancel(s, id) == [s EXCEPT !.pending = {e \in @ : e.id # id}]

Popped(s, e) == [s EXCEPT !.pending = @ \ {e}]

EarliestOf(events, e) ==
    \A f \in events \ {e} : e.at < f.at \/ (e.at = f.at /\ e.id < f.id)

Live(s, id) == \E e \in s.pending : e.id = id

Hz(s) == FClk(s.clock)

\* SourcePort::drive on a line that wiring() connects to the controller.
Interrupt(s, line) == [s EXCEPT !.irq = Raised(@, line)]

\* The first deadline after `now` on the grid of `period` that starts at `at`.
FirstAfter(now, at, period) ==
    IF at + period > now THEN at + period
    ELSE at + period * ((now - at) \div period + 1)
=============================================================================
