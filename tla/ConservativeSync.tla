-------------------------- MODULE ConservativeSync --------------------------
(***************************************************************************)
(* What the cluster promises about virtual time, without messages: every   *)
(* board may look at every clock.  A clock moves only while it stays       *)
(* within the margin of the slowest one; a host Reset and a GDB step relax *)
(* that by what they are allowed to skip, once and for good; and the time  *)
(* the host is shown is one that every board has reached.                  *)
(***************************************************************************)
EXTENDS Naturals

CONSTANTS Boards, Margin, StepSpan

VARIABLES clock,    \* virtual time of each board
          skipped,  \* what Resets have skipped
          overrun,  \* what GDB steps have run past the margin
          shown     \* virtual time the host is shown

vars == <<clock, skipped, overrun, shown>>

Init ==
    /\ clock = [b \in Boards |-> 0]
    /\ skipped = 0 /\ overrun = 0 /\ shown = 0

\* Board b runs, never ahead of the slowest board by more than it may.
Run(b) ==
    /\ clock' = [clock EXCEPT ![b] = clock'[b]]
    /\ clock'[b] >= clock[b]
    /\ \A c \in Boards : clock'[b] <= clock[c] + Margin + skipped + overrun
    /\ UNCHANGED <<skipped, overrun, shown>>

\* One instruction of board b, however far behind the others are.
Step(b) ==
    /\ clock' = [clock EXCEPT ![b] = clock'[b]]
    /\ clock'[b] >= clock[b] /\ clock'[b] <= clock[b] + StepSpan
    /\ overrun' = overrun + StepSpan
    /\ UNCHANGED <<skipped, shown>>

Reset ==
    /\ skipped' = skipped + Margin
    /\ UNCHANGED <<clock, overrun, shown>>

\* The host learns a time that every board has reached, or that was skipped.
Show ==
    /\ \A b \in Boards : shown' <= clock[b] + skipped
    /\ UNCHANGED <<clock, skipped, overrun>>

Next == Reset \/ Show \/ \E b \in Boards : Run(b) \/ Step(b)

Spec == Init /\ [][Next]_vars
=============================================================================
