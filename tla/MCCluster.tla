----------------------------- MODULE MCCluster -----------------------------
(* Instances of Cluster for TLC. *)
EXTENDS Cluster, TLC

Symmetric == Permutations(Boards)

\* The host may do anything but shut down.
AllOps == {"Start", "Stop", "Reset", "Step"}

PauseOps == {"Start", "Stop"}
RunOps == {"Start", "Stop", "Step"}
ResetOps == {"Start", "Reset"}
EndOps == {"Start", "Reset", "Step", "Shutdown"}
=============================================================================
