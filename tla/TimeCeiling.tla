---------------------------- MODULE TimeCeiling ----------------------------
(***************************************************************************)
(* The arbiter's virtual-time ceiling (sim-cluster/src/time_sync.rs).      *)
(*                                                                         *)
(* A TimeCeiling value is the function `reports` from boards to the last   *)
(* virtual time each one reported.  The operators below are the methods of *)
(* the Rust type, over that function.                                      *)
(***************************************************************************)
EXTENDS Integers, FiniteSets, FiniteSetsExt

CONSTANTS Boards,   \* topology board ids; topology.rs rejects an empty list
          Margin    \* topology `margin_ns`, the virtual-time skew margin

ASSUME BoardsAssumption == IsFiniteSet(Boards) /\ Boards # {}
ASSUME MarginAssumption == Margin \in Nat

NoLimit == -1       \* `None` of an Option<u64>

Reports == [Boards -> Nat]

\* `virtual_time_ns`: minimum reported virtual time across boards.
VirtualTime(reports) == Min({reports[b] : b \in Boards})

\* `allowed_ns`: the natural ceiling.
AllowedNs(reports) == VirtualTime(reports) + Margin

\* `allowed_ns_until`: the natural ceiling, hard-capped at `until` if there
\* is one.
AllowedNsUntil(reports, until) ==
    IF until # NoLimit /\ until < AllowedNs(reports)
    THEN until ELSE AllowedNs(reports)

\* `advance_to`: raise every report to at least `now`.
AdvanceTo(reports, now) ==
    [b \in Boards |-> IF reports[b] < now THEN now ELSE reports[b]]
=============================================================================
