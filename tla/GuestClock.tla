---------------------------- MODULE GuestClock -----------------------------
(***************************************************************************)
(* What a board node relies on in its simulated entity, be it a CPU board  *)
(* or a plant: the clock moves only while the entity runs, and not past    *)
(* the ceiling; a single step moves it once, past the ceiling by at most   *)
(* Overrun, and then stops; and Quit is final.                             *)
(***************************************************************************)
EXTENDS Integers

CONSTANTS Overrun, \* how far a single step may pass the ceiling
          NoLimit  \* no ceiling was set

VARIABLES state,    \* "Stopped", "Running" or "Quit"
          stepping, \* "no"; a single step is "pending"; its unit was "done"
          ceiling,
          clock

vars == <<state, stepping, ceiling, clock>>

Init == state = "Stopped" /\ stepping = "no" /\ ceiling = NoLimit /\ clock = 0

\* The control plane, between two units of execution.
Command ==
    /\ state # "Quit" /\ stepping # "done"
    /\ \/ state' = "Running" /\ stepping' \in {"no", "pending"} /\ UNCHANGED ceiling
       \/ state' = "Stopped" /\ stepping' = "no" /\ UNCHANGED ceiling
       \/ state' = "Quit" /\ UNCHANGED <<stepping, ceiling>>
       \/ ceiling' \in Nat /\ UNCHANGED <<state, stepping>>
    /\ UNCHANGED clock

StopHere == state' = "Stopped" /\ stepping' = "no"

BelowCeiling == clock' = clock \/ ceiling = NoLimit \/ clock' <= ceiling

\* One unit of execution, after which the entity may stop.
Run ==
    /\ state = "Running" /\ stepping = "no"
    /\ clock' >= clock /\ BelowCeiling
    /\ StopHere \/ UNCHANGED <<state, stepping>>
    /\ UNCHANGED ceiling

StepUnit ==
    /\ state = "Running" /\ stepping = "pending"
    /\ clock' >= clock /\ (BelowCeiling \/ clock' <= clock + Overrun)
    /\ StopHere \/ (stepping' = "done" /\ UNCHANGED state)
    /\ UNCHANGED ceiling

StepDone ==
    /\ state = "Running" /\ stepping = "done"
    /\ StopHere
    /\ UNCHANGED <<ceiling, clock>>

Next == Command \/ Run \/ StepUnit \/ StepDone

Spec == Init /\ [][Next]_vars
=============================================================================
