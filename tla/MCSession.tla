----------------------------- MODULE MCSession -----------------------------
(* An instance of Session for TLC: the bounds of each scene.                 *)
EXTENDS Session, TLC

MCNone == [connects |-> 1, requests |-> 0, gdb |-> 0, gaveUp |-> 1, failures |-> 0, time |-> 0, lines |-> 0,
           stops |-> 0, exits |-> FALSE, commands |-> {}]
MCLimits ==
    "viewers" :> [MCNone EXCEPT !.connects = 3, !.requests = 1, !.commands = {"delete"}]
    @@ "status" :> [MCNone EXCEPT !.requests = 1, !.commands = {"start"}, !.time = 1]
    @@ "log" :> [MCNone EXCEPT !.lines = 2, !.exits = TRUE]
    @@ "gdb" :> [MCNone EXCEPT !.connects = 0, !.gdb = 3, !.gaveUp = 0, !.failures = 1,
                             !.stops = 1]
    @@ "delete" :> [MCNone EXCEPT !.requests = 1, !.commands = {"delete"}, !.gdb = 2, !.gaveUp = 0]

\* A client that starts the simulation while GDB attaches.
MCRace == [MCLimits EXCEPT !["delete"].commands = {"start"}]
=============================================================================
