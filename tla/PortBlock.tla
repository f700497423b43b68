----------------------------- MODULE PortBlock ------------------------------
(***************************************************************************)
(* The digital ports (peripherals/gpio.rs) and the package pins they are    *)
(* wired to (g23.rs).  A pin has a direction, a level latch and the level   *)
(* last driven on its wire; drive happens only for output pins whose latch  *)
(* a level write changes.  Pull-up, analog and drive strength registers     *)
(* have no effect and are left out.                                         *)
(***************************************************************************)
EXTENDS Integers

CONSTANTS Pins,
          InputOnly,  \* mode bits that read 1 whatever is written (P10.7, P12.3, P15.7, P13.7)
          OutputOnly, \* P13.0: PM13 is no register
          TiedLow     \* level bits that cannot be set (P10.7, P13.1, P15.7)

ASSUME PinsAssumption ==
    InputOnly \subseteq Pins /\ OutputOnly \subseteq Pins \ InputOnly /\ TiedLow \subseteq Pins

ResetGpio(g) == [g EXCEPT !.inputs = Pins \ OutputOnly, !.high = {}]

WithMode(g, inputs) == [g EXCEPT !.inputs = (inputs \cup InputOnly) \ OutputOnly]

LevelOf(g, p) == IF p \in g.high THEN "high" ELSE "low"

\* write_level and publish_level_changes.
WithLevel(g, data) ==
    LET r == [g EXCEPT !.high = (@ \cap g.inputs) \cup ((data \ TiedLow) \ g.inputs)]
    IN  [r EXCEPT !.wire = [p \in Pins |-> IF (p \in r.high) # (p \in g.high)
                                           THEN LevelOf(r, p) ELSE @[p]]]

\* on_pin: a level from outside; HiZ is ignored.
WithInput(g, p, level) ==
    IF p \notin g.inputs \/ level = "hiz" THEN g
    ELSE [g EXCEPT !.high = IF level = "high" THEN @ \cup {p} ELSE @ \ {p}]

GpioWrites(g) ==
    {WithMode(g, m) : m \in SUBSET Pins} \cup {WithLevel(g, d) : d \in SUBSET Pins}
=============================================================================
