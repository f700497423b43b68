----------------------------- MODULE EventQueue -----------------------------
(***************************************************************************)
(* The event queue (sim-kernel/src/event.rs) under any sequence of calls,  *)
(* with what each call returns.                                            *)
(***************************************************************************)
EXTENDS EventHeap

CONSTANTS Times,     \* the deadlines and clock values that occur
          MaxEvents  \* bound: events scheduled

ASSUME EventAssumption == Times \subseteq Nat /\ MaxEvents \in Nat

VARIABLES queue, \* the EventQueue
          result \* what the last call returned

queueVars == <<queue, result>>

QueueInit == queue = EmptyQueue /\ result = <<"new">>

Schedule(at) ==
    /\ queue.next < MaxEvents
    /\ queue' = Scheduled(queue, at)
    /\ result' = <<"schedule", queue'.next>>

Cancel(id) ==
    /\ queue' = Cancelled(queue, id)
    /\ result' = <<"cancel", id, id \in queue.live>>

NextDeadline ==
    /\ queue' = WithoutStale(queue)
    /\ \/ \E e \in queue.heap : IsFront(queue, e) /\ result' = <<"next_deadline", e.at>>
       \/ queue'.heap = {} /\ result' = <<"no_deadline">>

PopDue(now) ==
    \E e \in queue.heap :
        /\ IsDue(queue, e, now)
        /\ queue' = Popped(queue, e)
        /\ result' = <<"pop_due", e.id>>

PopNothing(now) ==
    /\ NothingDue(queue, now)
    /\ queue' = WithoutStale(queue)
    /\ result' = <<"none_due">>

QueueNext ==
    \/ \E at \in Times : Schedule(at)
    \/ \E id \in 1..MaxEvents : Cancel(id)
    \/ NextDeadline
    \/ \E now \in Times : PopDue(now) \/ PopNothing(now)

QueueSpec == QueueInit /\ [][QueueNext]_queueVars

-----------------------------------------------------------------------------
(* Properties. *)

\* Heap, map and marks keep their types and agree.
QueueInv == queue \in Queue /\ Consistent(queue)

Pending == INSTANCE PendingEvents
           WITH pending <- LivePending(queue), issued <- queue.next

\* The lazy deletion of `cancel` and `drop_stale` is invisible: the answers are
\* those of PendingEvents.
QueueIsPendingEvents == Pending!Spec
=============================================================================
