----------------------------- MODULE EventHeap ------------------------------
(***************************************************************************)
(* The data of the virtual-time event queue (sim-kernel/src/event.rs): a   *)
(* min-heap of deadlines beside a map of the events that still live.  `cancel` leaves  *)
(* the heap entry behind; `drop_stale` discards such entries when they     *)
(* reach the front.                                                        *)
(*                                                                         *)
(* next_id and next_seq are always equal and are one number here.  The     *)
(* heap is a set: its order is the one of Scheduled::cmp.                  *)
(***************************************************************************)
EXTENDS Naturals

Entry == [at : Nat, id : Nat]

Queue == [heap : SUBSET Entry, live : SUBSET Nat, cancelled : SUBSET Nat, next : Nat]

EmptyQueue == [heap |-> {}, live |-> {}, cancelled |-> {}, next |-> 0]

\* Scheduled::cmp.
Before(e, f) == e.at < f.at \/ (e.at = f.at /\ e.id < f.id)

Scheduled(q, at) ==
    [q EXCEPT !.next = @ + 1,
              !.heap = @ \cup {[at |-> at, id |-> q.next + 1]},
              !.live = @ \cup {q.next + 1}]

\* cancel, of each of some events that still live.
CancelledAll(q, ids) == [q EXCEPT !.live = @ \ ids, !.cancelled = @ \cup ids]

\* Mutant: the event is marked but its body stays in the map.
CancelledKeepsBody(q, id) == [q EXCEPT !.cancelled = @ \cup {id}]

Cancelled(q, id) == CancelledAll(q, {id} \cap q.live)

Stale(q, e) == e.id \in q.cancelled \/ e.id \notin q.live

\* The entries at the front of the heap that drop_stale removes.
StalePrefix(q) ==
    {e \in q.heap : \A f \in q.heap : f = e \/ Before(f, e) => Stale(q, f)}

WithoutStale(q) ==
    [q EXCEPT !.heap = @ \ StalePrefix(q),
              !.cancelled = @ \ {e.id : e \in StalePrefix(q)}]

\* heap.peek() once the stale entries are gone.
IsFront(q, e) ==
    /\ e \in WithoutStale(q).heap
    /\ \A f \in WithoutStale(q).heap : f = e \/ Before(e, f)

\* Mutant: a due event is found by scanning, not at the front.
IsDueAnywhere(q, e, now) == e \in WithoutStale(q).heap /\ ~ Stale(q, e) /\ e.at <= now

\* pop_due has something to hand out, namely e.
IsDue(q, e, now) == IsFront(q, e) /\ e.at <= now

NothingDue(q, now) == \A e \in q.heap : ~ IsDue(q, e, now)

Popped(q, e) ==
    [WithoutStale(q) EXCEPT !.heap = @ \ {e}, !.live = @ \ {e.id}]

-----------------------------------------------------------------------------
(* Heap, map and marks agree: every entry is either alive or marked cancelled, *)
(* no id occurs twice or is reused, and no mark or body outlives its entry.    *)

Consistent(q) ==
    /\ q.live \cap q.cancelled = {}
    /\ q.live \cup q.cancelled = {e.id : e \in q.heap}
    /\ \A e, f \in q.heap : e.id = f.id => e = f
    /\ \A e \in q.heap : e.id \in 1..q.next

LivePending(q) == {e \in q.heap : e.id \in q.live}
=============================================================================
