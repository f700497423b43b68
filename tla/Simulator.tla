----------------------------- MODULE Simulator -----------------------------
(***************************************************************************)
(* The kernel's control of one entity (sim-kernel/src/sim.rs): commands    *)
(* and the bookkeeping around Entity::poll.  Machine and Plant are the two *)
(* entities; each extends this module with what its poll does.             *)
(***************************************************************************)
EXTENDS Integers

CONSTANT Ceilings \* the ticks SetAllowed is called with

ASSUME CeilingsAssumption == Ceilings \subseteq Nat

NoLimit == -1     \* `allowed` is None

VARIABLES state,    \* SimState
          stepOnce, \* step_once
          allowed,  \* the multi-board ceiling
          now       \* virtual time of the entity

simVars == <<state, stepOnce, allowed, now>>

SimState == {"Stopped", "Running", "Quit"}

SimTypeOK ==
    /\ state \in SimState /\ stepOnce \in BOOLEAN
    /\ allowed \in Nat \cup {NoLimit} /\ now \in Nat

SimInit == state = "Stopped" /\ stepOnce = FALSE /\ allowed = NoLimit /\ now = 0

-----------------------------------------------------------------------------
(* Simulator::command.  After Quit every command is answered by Quit. *)

Start ==
    /\ state # "Quit"
    /\ state' = "Running" /\ stepOnce' = FALSE
    /\ UNCHANGED <<allowed, now>>

Step ==
    /\ state # "Quit"
    /\ state' = "Running" /\ stepOnce' = TRUE
    /\ UNCHANGED <<allowed, now>>

Stop ==
    /\ state # "Quit"
    /\ state' = "Stopped" /\ stepOnce' = FALSE
    /\ UNCHANGED <<allowed, now>>

Quit ==
    /\ state # "Quit"
    /\ state' = "Quit"
    /\ UNCHANGED <<stepOnce, allowed, now>>

\* The ceiling may also be lowered, even below the clock.
SetAllowed(tick) ==
    /\ state # "Quit"
    /\ allowed' = tick
    /\ UNCHANGED <<state, stepOnce, now>>

SimCommand == Start \/ Step \/ Stop \/ Quit \/ \E tick \in Ceilings : SetAllowed(tick)

-----------------------------------------------------------------------------
(* Simulator::poll: the budget it hands out, and what it makes of the result. *)

\* A span of at most `span` that ends before the ceiling.
Budget(span) ==
    IF allowed = NoLimit \/ now + span <= allowed THEN span
    ELSE IF allowed > now THEN allowed - now ELSE 0

NoProgress == UNCHANGED <<state, stepOnce>>

StopRunning == state' = "Stopped" /\ stepOnce' = FALSE

Progressed == IF stepOnce THEN StopRunning ELSE UNCHANGED <<state, stepOnce>>

\* Mutant: an idle guest is no progress for a single step either.
CommitStopIdle(reason) == IF reason = "Halt" THEN NoProgress ELSE StopRunning

\* commit_stop: an idle guest (Halt) is progress, not a stop.
CommitStop(reason) == IF reason = "Halt" THEN Progressed ELSE StopRunning
=============================================================================
