------------------------------- MODULE Plant -------------------------------
(***************************************************************************)
(* A plant (sim-kernel/src/plant.rs) under its Simulator: a model solved   *)
(* on a fixed grid of virtual time.  One poll either advances the clock to *)
(* the next grid point, as far as the ceiling lets it, or, at the grid     *)
(* point, runs the solver once; the clock then stands still.               *)
(***************************************************************************)
EXTENDS Simulator

CONSTANTS Dt,      \* Model::dt
          Horizon  \* bound: no poll starts after this time

ASSUME PlantAssumption == Dt \in Nat \ {0} /\ Horizon \in Nat

VARIABLES nextStepAt, \* next_step_at
          solved,     \* ghost: solver runs since the last reset
          resetAt     \* ghost: time of the last reset

plantVars == <<nextStepAt, solved, resetAt>>
vars == <<simVars, plantVars>>

Init == SimInit /\ nextStepAt = 0 /\ solved = 0 /\ resetAt = 0

Command == SimCommand /\ UNCHANGED plantVars

Reset ==
    /\ nextStepAt' = now
    /\ solved' = 0 /\ resetAt' = now
    /\ UNCHANGED simVars

Polled == state = "Running" /\ now <= Horizon /\ UNCHANGED allowed

Advance ==
    /\ Polled /\ Budget(nextStepAt - now) > 0
    /\ now' = now + Budget(nextStepAt - now)
    /\ Progressed
    /\ UNCHANGED plantVars

Stalled ==
    /\ Polled /\ now < nextStepAt /\ Budget(nextStepAt - now) = 0
    /\ NoProgress
    /\ UNCHANGED <<now, plantVars>>

\* Mutant: the grid restarts from the ceiling.
SolveFromCeiling ==
    /\ Polled /\ now >= nextStepAt
    /\ nextStepAt' = (IF allowed > now THEN allowed ELSE now) + Dt
    /\ solved' = solved + 1
    /\ Progressed
    /\ UNCHANGED <<now, resetAt>>

Solve ==
    /\ Polled /\ now >= nextStepAt
    /\ nextStepAt' = nextStepAt + Dt
    /\ solved' = solved + 1
    /\ Progressed
    /\ UNCHANGED <<now, resetAt>>

Poll == Advance \/ Stalled \/ Solve

Next == Command \/ Reset \/ Poll

Spec == Init /\ [][Next]_vars

-----------------------------------------------------------------------------
(* Properties. *)

\* The solver runs once at the time of the reset and once every Dt after it,
\* however ceilings, stops and single steps cut the time in between: whenever
\* the clock stands at time t it has run for every grid point before t.
OnGrid ==
    /\ SimTypeOK
    /\ nextStepAt \in Nat /\ solved \in Nat /\ resetAt \in Nat
    /\ nextStepAt = resetAt + solved * Dt
    /\ now <= nextStepAt /\ resetAt <= now
    /\ solved > 0 => nextStepAt - Dt <= now
    /\ solved = 0 => now = resetAt
    /\ stepOnce => state # "Stopped"

Clock ==
    INSTANCE GuestClock
    WITH Overrun <- 0, ceiling <- allowed, clock <- now,
         stepping <- IF stepOnce THEN "pending" ELSE "no"

\* The board node may rely on GuestClock; a plant never passes its ceiling.
KeepsGuestClock == Clock!Spec

=============================================================================
