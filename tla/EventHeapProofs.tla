-------------------------- MODULE EventHeapProofs --------------------------
(***************************************************************************)
(* The operations of the event queue keep heap, map and marks consistent,  *)
(* and what each of them does to the set of pending events.                *)
(***************************************************************************)
EXTENDS EventHeap, Integers, WellFoundedInduction, TLAPS

\* A nonempty set of naturals has a least element, so the heap has a front.
LEMMA NatHasMin ==
    ASSUME NEW S \in SUBSET Nat, S # {}
    PROVE  \E x \in S : \A y \in S : x <= y
<1>1. IsWellFoundedOn(OpToRel(<, Nat), Nat)
  BY NatLessThanWellFounded
<1>2. PICK x \in S : \A y \in S : ~ (<<y, x>> \in OpToRel(<, Nat))
  BY <1>1, WFMin
<1>3. \A y \in S : ~ (y < x)
  BY <1>2 DEF OpToRel
<1> QED BY <1>3

Good(q) == q \in Queue /\ Consistent(q)

\* EventQueue::new.
LEMMA EmptyIsGood == Good(EmptyQueue) /\ LivePending(EmptyQueue) = {}
BY DEF Good, EmptyQueue, Queue, Entry, Consistent, LivePending

\* In a consistent queue, stale means not alive.
LEMMA StaleIsDead ==
    ASSUME NEW q, Good(q), NEW e \in q.heap
    PROVE  /\ e \in Entry /\ e.id \in q.live \cup q.cancelled
           /\ Stale(q, e) <=> e \notin LivePending(q)
BY DEF Good, Queue, Consistent, Stale, LivePending

\* `schedule` adds one pending event, with a number none has had before.
LEMMA ScheduledIsGood ==
    ASSUME NEW q, Good(q), NEW at \in Nat
    PROVE  /\ Good(Scheduled(q, at))
           /\ LivePending(Scheduled(q, at)) =
                 LivePending(q) \cup {[at |-> at, id |-> q.next + 1]}
<1> DEFINE r == Scheduled(q, at)
           new == [at |-> at, id |-> q.next + 1]
<1>1. /\ q.next \in Nat /\ q.heap \subseteq Entry
      /\ q.live \subseteq Nat /\ q.cancelled \subseteq Nat
  BY DEF Good, Queue
<1>2. new \in Entry /\ \A e \in q.heap : e.id # q.next + 1
  BY <1>1 DEF Good, Consistent, Entry
<1>3. /\ r.heap = q.heap \cup {new} /\ r.live = q.live \cup {q.next + 1}
      /\ r.cancelled = q.cancelled /\ r.next = q.next + 1
  BY DEF Scheduled, Good, Queue
<1>4. r \in Queue
  <2>1. /\ q.heap \cup {new} \in SUBSET Entry /\ q.live \cup {q.next + 1} \in SUBSET Nat
        /\ q.next + 1 \in Nat
    BY <1>1, <1>2
  <2> HIDE DEF new
  <2>2. Scheduled(q, at) = [q EXCEPT !.next = q.next + 1, !.heap = q.heap \cup {new},
                                     !.live = q.live \cup {q.next + 1}]
    BY DEF Scheduled, Good, Queue, new
  <2> QED BY <2>1, <2>2 DEF Good, Queue
<1>5. q.next + 1 \notin q.live \cup q.cancelled
  BY <1>2 DEF Good, Consistent
<1>6. Consistent(r)
  <2>1. r.live \cap r.cancelled = {}
    BY <1>3, <1>5 DEF Good, Consistent
  <2>2. r.live \cup r.cancelled = {e.id : e \in r.heap}
    <3>1. {e.id : e \in r.heap} = {e.id : e \in q.heap} \cup {q.next + 1}
      <4>1. new.id = q.next + 1 /\ r.heap = q.heap \cup {new}
        BY <1>3
      <4> HIDE DEF new, r
      <4> QED BY <4>1
    <3> QED BY <1>3, <3>1 DEF Good, Consistent
  <2>3. \A e, f \in r.heap : e.id = f.id => e = f
    BY <1>2, <1>3 DEF Good, Consistent
  <2>4. \A e \in r.heap : e.id \in 1..r.next
    BY <1>1, <1>3 DEF Good, Consistent
  <2> QED BY <2>1, <2>2, <2>3, <2>4 DEF Consistent
<1>7. LivePending(r) = LivePending(q) \cup {new}
  BY <1>2, <1>3 DEF LivePending
<1> QED BY <1>4, <1>6, <1>7 DEF Good

\* `cancel`, or the cancellations of a device reset, remove the pending events
\* they name and no other.
LEMMA CancelAllIsGood ==
    ASSUME NEW q, Good(q), NEW ids \in SUBSET q.live
    PROVE  /\ Good(CancelledAll(q, ids))
           /\ LivePending(CancelledAll(q, ids)) = {e \in LivePending(q) : e.id \notin ids}
           /\ CancelledAll(q, ids).next = q.next
<1> DEFINE r == CancelledAll(q, ids)
<1>1. /\ r.heap = q.heap /\ r.live = q.live \ ids
      /\ r.cancelled = q.cancelled \cup ids /\ r.next = q.next
  BY DEF Good, Queue, CancelledAll
<1>2. r \in Queue
  <2>1. q.live \ ids \in SUBSET Nat /\ q.cancelled \cup ids \in SUBSET Nat
    BY DEF Good, Queue
  <2> QED BY <2>1 DEF Good, Queue, CancelledAll
<1>3. Consistent(r)
  <2>1. r.live \cap r.cancelled = {} /\ r.live \cup r.cancelled = q.live \cup q.cancelled
    BY <1>1 DEF Good, Consistent
  <2> QED BY <1>1, <2>1 DEF Good, Consistent
<1>4. LivePending(r) = {e \in LivePending(q) : e.id \notin ids}
  BY <1>1 DEF LivePending
<1> QED BY <1>1, <1>2, <1>3, <1>4 DEF Good

\* `cancel` removes the pending event it names, if there is one.
LEMMA CancelledIsGood ==
    ASSUME NEW q, Good(q), NEW id
    PROVE  /\ Good(Cancelled(q, id))
           /\ LivePending(Cancelled(q, id)) = {e \in LivePending(q) : e.id # id}
           /\ Cancelled(q, id).next = q.next
           /\ id \in q.live <=> \E e \in LivePending(q) : e.id = id
<1> DEFINE ids == {id} \cap q.live
<1>1. id \in q.live <=> \E e \in LivePending(q) : e.id = id
  BY DEF Good, Consistent, LivePending
<1>2. \A e \in LivePending(q) : e.id \notin ids <=> e.id # id
  BY DEF LivePending
<1>3. ids \in SUBSET q.live
  OBVIOUS
<1> HIDE DEF ids
<1>4. /\ Good(CancelledAll(q, ids)) /\ CancelledAll(q, ids).next = q.next
      /\ LivePending(CancelledAll(q, ids)) = {e \in LivePending(q) : e.id \notin ids}
  BY <1>3, CancelAllIsGood
<1>5. Cancelled(q, id) = CancelledAll(q, ids)
  BY DEF Cancelled, ids
<1> QED BY <1>1, <1>2, <1>4, <1>5

-----------------------------------------------------------------------------
(* The front of the heap. *)

\* `drop_stale` changes nothing that a user could see.
LEMMA WithoutStaleIsGood ==
    ASSUME NEW q, Good(q)
    PROVE  /\ Good(WithoutStale(q))
           /\ WithoutStale(q).heap \subseteq q.heap
           /\ LivePending(q) \subseteq WithoutStale(q).heap
           /\ LivePending(WithoutStale(q)) = LivePending(q)
           /\ WithoutStale(q).live = q.live /\ WithoutStale(q).next = q.next
<1> DEFINE r == WithoutStale(q)
           P == StalePrefix(q)
           ids == {e.id : e \in P}
<1>1. P \subseteq q.heap /\ \A e \in P : e \notin LivePending(q)
  BY StaleIsDead DEF StalePrefix
<1>2. /\ r.heap = q.heap \ P /\ r.cancelled = q.cancelled \ ids
      /\ r.live = q.live /\ r.next = q.next
  BY DEF WithoutStale, Good, Queue
<1>3. r \in Queue
  <2>1. q.heap \ P \in SUBSET Entry /\ q.cancelled \ ids \in SUBSET Nat
    BY DEF Good, Queue
  <2> HIDE DEF P, ids
  <2>2. WithoutStale(q) = [q EXCEPT !.heap = q.heap \ P, !.cancelled = q.cancelled \ ids]
    BY DEF WithoutStale, Good, Queue, P, ids
  <2> QED BY <2>1, <2>2 DEF Good, Queue
<1>4. ids \cap q.live = {}
  BY <1>1 DEF LivePending
<1> HIDE DEF P, r
<1>5. \A e \in r.heap : e.id \notin ids
  BY <1>1, <1>2 DEF Good, Consistent
<1>6. Consistent(r)
  <2>1. r.live \cap r.cancelled = {}
    BY <1>2 DEF Good, Consistent
  <2>2. r.live \cup r.cancelled \subseteq {e.id : e \in r.heap}
    <3>1. SUFFICES ASSUME NEW i \in r.live \cup r.cancelled
                   PROVE  \E e \in r.heap : e.id = i
      OBVIOUS
    <3>2. PICK e \in q.heap : e.id = i
      BY <1>2 DEF Good, Consistent
    <3>3. i \notin ids
      BY <1>2, <1>4
    <3>4. e \notin P
      BY <3>2, <3>3
    <3> QED BY <1>2, <3>2, <3>4
  <2>3. {e.id : e \in r.heap} \subseteq r.live \cup r.cancelled
    <3>1. SUFFICES ASSUME NEW e \in r.heap PROVE e.id \in r.live \cup r.cancelled
      OBVIOUS
    <3>2. e.id \in q.live \cup q.cancelled
      BY <1>2 DEF Good, Consistent
    <3> QED BY <1>2, <1>5, <3>2
  <2>4. /\ \A e, f \in r.heap : e.id = f.id => e = f
        /\ \A e \in r.heap : e.id \in 1..r.next
    BY <1>2 DEF Good, Consistent
  <2> QED BY <2>1, <2>2, <2>3, <2>4 DEF Consistent
<1>7. LivePending(r) = LivePending(q) /\ LivePending(q) \subseteq r.heap
  BY <1>1, <1>2 DEF LivePending
<1> QED BY <1>2, <1>3, <1>6, <1>7 DEF Good, r

\* A heap that is not empty has a front.
LEMMA FrontExists ==
    ASSUME NEW q, Good(q), q.heap # {}
    PROVE  \E e \in q.heap : \A f \in q.heap : f = e \/ Before(e, f)
<1>1. \A e \in q.heap : e.at \in Nat /\ e.id \in Nat
  BY DEF Good, Queue, Entry
<1> DEFINE ats == {e.at : e \in q.heap}
<1>2. PICK t \in ats : \A u \in ats : t <= u
  <2>1. ats \in SUBSET Nat /\ ats # {}
    BY <1>1
  <2> HIDE DEF ats
  <2> QED BY <2>1, NatHasMin
<1> DEFINE first == {e \in q.heap : e.at = t}
           ids == {e.id : e \in first}
<1>3. PICK i \in ids : \A j \in ids : i <= j
  <2>1. ids \in SUBSET Nat /\ ids # {}
    BY <1>1
  <2> HIDE DEF ids
  <2> QED BY <2>1, NatHasMin
<1>4. PICK e \in first : e.id = i
  OBVIOUS
<1>5. SUFFICES ASSUME NEW f \in q.heap, f # e PROVE Before(e, f)
  BY <1>4
<1>6. e \in q.heap /\ e.at = t /\ t <= f.at
  BY <1>2, <1>4
<1>7. f.at = t => i <= f.id /\ f.id # i
  BY <1>3, <1>4, <1>5 DEF Good, Consistent
<1> QED BY <1>1, <1>4, <1>6, <1>7 DEF Before

\* Once the stale entries are gone the front is a pending event, and the
\* earliest.
LEMMA FrontIsEarliest ==
    ASSUME NEW q, Good(q), NEW e, IsFront(q, e)
    PROVE  /\ e \in LivePending(q) /\ e \in q.heap
           /\ \A f \in LivePending(q) \ {e} : Before(e, f)
<1>1. e \in WithoutStale(q).heap /\ e \in q.heap /\ e \notin StalePrefix(q)
  BY WithoutStaleIsGood DEF IsFront, WithoutStale, Good, Queue
<1>2. e \in LivePending(q)
  <2>1. SUFFICES ASSUME e \notin LivePending(q) PROVE e \in StalePrefix(q)
    BY <1>1
  <2>2. SUFFICES ASSUME NEW f \in q.heap, f = e \/ Before(f, e) PROVE Stale(q, f)
    BY <1>1 DEF StalePrefix
  <2>3. CASE f = e
    BY <1>1, <2>1, <2>3, StaleIsDead
  <2>4. CASE f # e /\ Before(f, e)
    <3>1. e \in Entry /\ f \in Entry
      BY <1>1 DEF Good, Queue
    <3>2. ~ Before(e, f)
      BY <2>4, <3>1 DEF Before, Entry
    <3>3. f \in StalePrefix(q)
      BY <2>4, <3>2 DEF IsFront, WithoutStale, Good, Queue
    <3> QED BY <3>3 DEF StalePrefix
  <2> QED BY <2>2, <2>3, <2>4
<1>3. \A f \in LivePending(q) \ {e} : Before(e, f)
  BY WithoutStaleIsGood DEF IsFront
<1> QED BY <1>1, <1>2, <1>3

\* `pop_due` hands out the earliest pending event, removes it and no other.
LEMMA PoppedIsGood ==
    ASSUME NEW q, Good(q), NEW e, IsFront(q, e)
    PROVE  /\ Good(Popped(q, e))
           /\ LivePending(Popped(q, e)) = LivePending(q) \ {e}
           /\ Popped(q, e).next = q.next
<1> DEFINE w == WithoutStale(q)
           r == Popped(q, e)
<1>1. Good(w) /\ LivePending(w) = LivePending(q) /\ w.next = q.next
  BY WithoutStaleIsGood
<1>2. e \in w.heap /\ e.id \in w.live /\ e \in LivePending(w)
  BY <1>1, FrontIsEarliest DEF IsFront, LivePending
<1> HIDE DEF w
<1>3. /\ r.heap = w.heap \ {e} /\ r.live = w.live \ {e.id}
      /\ r.cancelled = w.cancelled /\ r.next = w.next
  BY <1>1 DEF Popped, Good, Queue, w
<1>4. r \in Queue
  <2>1. w.heap \ {e} \in SUBSET Entry /\ w.live \ {e.id} \in SUBSET Nat
    BY <1>1 DEF Good, Queue
  <2>2. Popped(q, e) = [w EXCEPT !.heap = w.heap \ {e}, !.live = w.live \ {e.id}]
    BY <1>1 DEF Popped, Good, Queue, w
  <2> QED BY <1>1, <2>1, <2>2 DEF Good, Queue
<1> HIDE DEF r
<1>5. \A f \in r.heap : f.id # e.id
  BY <1>1, <1>2, <1>3 DEF Good, Consistent
<1>6. Consistent(r)
  <2>1. r.live \cap r.cancelled = {}
    BY <1>1, <1>3 DEF Good, Consistent
  <2>2. r.live \cup r.cancelled \subseteq {f.id : f \in r.heap}
    <3>1. SUFFICES ASSUME NEW i \in r.live \cup r.cancelled
                   PROVE  \E f \in r.heap : f.id = i
      OBVIOUS
    <3>2. i \in w.live \cup w.cancelled /\ i # e.id
      BY <1>1, <1>2, <1>3 DEF Good, Consistent
    <3>3. PICK f \in w.heap : f.id = i
      BY <1>1, <3>2 DEF Good, Consistent
    <3> QED BY <1>3, <3>2, <3>3
  <2>3. {f.id : f \in r.heap} \subseteq r.live \cup r.cancelled
    <3>1. SUFFICES ASSUME NEW f \in r.heap PROVE f.id \in r.live \cup r.cancelled
      OBVIOUS
    <3>2. f.id \in w.live \cup w.cancelled
      BY <1>1, <1>3 DEF Good, Consistent
    <3> QED BY <1>3, <1>5, <3>2
  <2>4. /\ \A f, g \in r.heap : f.id = g.id => f = g
        /\ \A f \in r.heap : f.id \in 1..r.next
    BY <1>1, <1>3 DEF Good, Consistent
  <2> QED BY <2>1, <2>2, <2>3, <2>4 DEF Consistent
<1>7. LivePending(r) = LivePending(w) \ {e}
  BY <1>3, <1>5 DEF LivePending
<1> QED BY <1>1, <1>3, <1>4, <1>6, <1>7 DEF Good, r

\* When `pop_due` has nothing to hand out, everything left lies ahead.
LEMMA NothingDueAhead ==
    ASSUME NEW q, Good(q), NEW now \in Nat, NothingDue(q, now)
    PROVE  \A e \in WithoutStale(q).heap : e.at > now
<1> DEFINE w == WithoutStale(q)
<1>1. Good(w) /\ w.heap \subseteq q.heap
  BY WithoutStaleIsGood
<1>2. SUFFICES ASSUME NEW e \in w.heap PROVE e.at > now
  OBVIOUS
<1>3. PICK f \in w.heap : \A g \in w.heap : g = f \/ Before(f, g)
  <2>1. w.heap # {}
    BY <1>2
  <2> HIDE DEF w
  <2> QED BY <1>1, <2>1, FrontExists
<1>4. f \in q.heap /\ IsFront(q, f)
  BY <1>1, <1>3 DEF IsFront
<1>5. ~ (f.at <= now)
  BY <1>4 DEF NothingDue, IsDue
<1>6. e.at \in Nat /\ f.at \in Nat
  BY <1>1, <1>2, <1>3 DEF Good, Queue, Entry
<1>7. e.at >= f.at
  BY <1>3, <1>6 DEF Before
<1> QED BY <1>5, <1>6, <1>7
=============================================================================
