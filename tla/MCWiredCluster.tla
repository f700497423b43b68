--------------------------- MODULE MCWiredCluster ---------------------------
(* An instance of WiredCluster for TLC: board "a" talks to board "b".        *)
EXTENDS WiredCluster, TLC

MCEdges == {<<"a", "b">>}
MCOps == {"Start", "Step", "Reset"}
=============================================================================
