--------------------------- MODULE PendingEvents ---------------------------
(***************************************************************************)
(* What the event queue promises its users: a set of pending events, each  *)
(* with its deadline and a number that tells the order of scheduling.      *)
(* Cancelling removes exactly the named event and says whether it was      *)
(* there; popping hands out the earliest due event, each once, in          *)
(* scheduling order for equal deadlines; and an event that is due is never *)
(* withheld.                                                               *)
(***************************************************************************)
EXTENDS Naturals

CONSTANTS Times,    \* the deadlines and clock values that occur
          MaxEvents \* bound: events scheduled

VARIABLES pending, \* records [at, id]
          issued,  \* how many events have been scheduled
          result   \* what the last call returned

pendingVars == <<pending, issued, result>>

Earliest(e) ==
    \A f \in pending \ {e} : e.at < f.at \/ (e.at = f.at /\ e.id < f.id)

Init == pending = {} /\ issued = 0 /\ result = <<"new">>

Schedule(at) ==
    /\ issued' = issued + 1
    /\ pending' = pending \cup {[at |-> at, id |-> issued']}
    /\ result' = <<"schedule", issued'>>

Cancel(id) ==
    /\ pending' = {e \in pending : e.id # id}
    /\ result' = <<"cancel", id, \E e \in pending : e.id = id>>
    /\ UNCHANGED issued

NextDeadline ==
    /\ \/ \E e \in pending : Earliest(e) /\ result' = <<"next_deadline", e.at>>
       \/ pending = {} /\ result' = <<"no_deadline">>
    /\ UNCHANGED <<pending, issued>>

PopDue(e, now) ==
    /\ Earliest(e) /\ e.at <= now
    /\ pending' = pending \ {e}
    /\ result' = <<"pop_due", e.id>>
    /\ UNCHANGED issued

PopNothing(now) ==
    /\ \A e \in pending : e.at > now
    /\ result' = <<"none_due">>
    /\ UNCHANGED <<pending, issued>>

Next ==
    \/ \E at \in Times : Schedule(at)
    \/ \E id \in 1..MaxEvents : Cancel(id)
    \/ NextDeadline
    \/ \E now \in Times : PopNothing(now) \/ \E e \in pending : PopDue(e, now)

Spec == Init /\ [][Next]_pendingVars
=============================================================================
