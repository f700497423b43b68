------------------------------ MODULE MCBench ------------------------------
(* An instance of Bench for TLC: the bounds of each scene.                   *)
EXTENDS Bench

MCNone == [what \in Counted |-> 0]
MCLimits ==
    "hold" :> [MCNone EXCEPT !["invokes"] = 2, !["commands"] = 2, !["time"] = 2]
    @@ "live" :> [MCNone EXCEPT !["invokes"] = 1, !["commands"] = 1, !["watches"] = 1, !["time"] = 1]
    @@ "uart" :> [MCNone EXCEPT !["words"] = 3, !["reads"] = 2, !["timeouts"] = 1, !["fails"] = 1,
                                !["time"] = 1]
    @@ "csv" :> [MCNone EXCEPT !["words"] = 2, !["exports"] = 2, !["timeouts"] = 1]
MCHolds == [s \in AllScenes |-> IF s = "hold" THEN {0, 1} ELSE {1}]
=============================================================================
