--------------------------- MODULE SessionProofs ---------------------------
(***************************************************************************)
(* The session layer, for every set of clients, every scene and any        *)
(* bounds: the stream that is open holds the simulation, and the log       *)
(* stream leaves nothing out that it could have had.                       *)
(***************************************************************************)
EXTENDS Session, SequenceTheorems, FiniteSetTheorems, TLAPS

-----------------------------------------------------------------------------
(* What is under way.                                                       *)

\* Requests that the worker has not run yet.
UnderWay == wire \cup ToSet(queue)

Viewers == {Viewer(c) : c \in Clients}

\* A handler has at most one request under way.
OneRequest(h) ==
    /\ \A job, other \in wire : job.from = h /\ other.from = h => job = other
    /\ \A job \in wire : job.from = h => \A i \in DOMAIN queue : queue[i].from # h
    /\ \A i, j \in DOMAIN queue : queue[i].from = h /\ queue[j].from = h => i = j

\* The values are of the kinds the code has them.
Shape ==
    /\ DOMAIN pc = Handlers /\ DOMAIN answer = Handlers /\ token \in [Clients -> Nat]
    /\ DOMAIN srv = {"exists", "child", "status", "viewer", "nextId", "logs", "nextSeq"}
    /\ srv.nextId \in Nat /\ srv.viewer \in 0..(srv.nextId - 1)
    /\ \E S : queue \in Seq(S)
    /\ \A job \in UnderWay : job = Job(job.from, job.kind, job.arg)

\* A viewer handler waits for the one request it has under way.
ViewersCall ==
    \A h \in Viewers :
        /\ \A job \in UnderWay : job.from = h =>
              pc[h] \in {"exists", "attach", "detach"} /\ job.kind = pc[h] /\ answer[h] = NoAnswer
        /\ OneRequest(h)

\* The client's stream is open, or its attach has been granted and it is not told yet.
Held(c) == pc[Viewer(c)] = "open" \/ (pc[Viewer(c)] = "attach" /\ answer[Viewer(c)].code = "ok")
HeldToken(c) == IF pc[Viewer(c)] = "open" THEN token[c] ELSE answer[Viewer(c)].value

\* Behind StreamHoldsViewer: a token that is held is the one the server has, nobody
\* else holds it, and no detach under way would give it back.
TokensHeld ==
    \A c \in Clients : Held(c) =>
        /\ HeldToken(c) \in 1..(srv.nextId - 1)
        /\ srv.exists => srv.viewer = HeldToken(c)
        /\ \A job \in UnderWay : job.kind = "detach" => job.arg # HeldToken(c)
        /\ \A d \in Clients : d # c /\ Held(d) => HeldToken(d) # HeldToken(c)

\* Detaches under way are for tokens that were given out.
DetachesKnown ==
    \A job \in UnderWay : job.kind = "detach" => job.arg \in 0..(srv.nextId - 1)

ViewerInv == Shape /\ ViewersCall /\ TokensHeld /\ DetachesKnown


-----------------------------------------------------------------------------
(* Names and requests.                                                      *)

\* A viewer handler is not any other handler, nor a caller that is gone.
LEMMA ViewerNames ==
    /\ Viewers \subseteq Handlers
    /\ \A c, d \in Clients : Viewer(c) = Viewer(d) => c = d
    /\ \A c, d \in Clients : Request(c) \in Handlers /\ Request(c) # Viewer(d)
    /\ {StatusReader, LogReader, Attach, Detach, Gdb} \subseteq Handlers
    /\ \A h \in {StatusReader, LogReader, Attach, Detach, Gdb} : h \notin Viewers
    /\ \A c \in Clients : Request(c) \notin Viewers
    /\ \A n : <<"gone", n>> \notin Viewers
<1>1. Viewers \subseteq Handlers
  BY DEF Viewers, Handlers
<1>2. \A c, d \in Clients : Viewer(c) = Viewer(d) => c = d
  BY DEF Viewer
<1>3. \A c, d \in Clients : Request(c) \in Handlers /\ Request(c) # Viewer(d)
  BY DEF Handlers, Viewer, Request
<1>4. {StatusReader, LogReader, Attach, Detach, Gdb} \subseteq Handlers
  BY DEF Handlers
<1>5. \A h \in Viewers : h[1] = "viewer"
  BY DEF Viewers, Viewer
<1>6. /\ StatusReader[1] # "viewer" /\ LogReader[1] # "viewer" /\ Attach[1] # "viewer"
      /\ Detach[1] # "viewer" /\ Gdb[1] # "viewer"
  BY DEF StatusReader, LogReader, Attach, Detach, Gdb
<1>7. \A c \in Clients : Request(c)[1] # "viewer"
  BY DEF Request
<1>8. \A n : <<"gone", n>>[1] # "viewer"
  OBVIOUS
<1> QED BY <1>1, <1>2, <1>3, <1>4, <1>5, <1>6, <1>7, <1>8

\* Nor is any handler a caller that is gone.
LEMMA HandlersStay == \A n : <<"gone", n>> \notin Handlers
<1>1. ASSUME NEW h \in Handlers PROVE h[1] # "gone"
  <2>1. \A c \in Clients : Viewer(c)[1] # "gone" /\ Request(c)[1] # "gone"
    BY DEF Viewer, Request
  <2>2. /\ StatusReader[1] # "gone" /\ LogReader[1] # "gone" /\ Attach[1] # "gone"
        /\ Detach[1] # "gone" /\ Gdb[1] # "gone"
    BY DEF StatusReader, LogReader, Attach, Detach, Gdb
  <2> QED BY <2>1, <2>2 DEF Handlers
<1>2. \A n : <<"gone", n>>[1] = "gone"
  OBVIOUS
<1> QED BY <1>1, <1>2

\* A request in the queue is under way.
LEMMA QueuedIsUnderWay ==
    ASSUME NEW S, queue \in Seq(S)
    PROVE  \A i \in DOMAIN queue : queue[i] \in UnderWay
BY DEF UnderWay, ToSet

\* What the clients hold does not change with what their streams wait for.
LEMMA SameHolds ==
    ASSUME \A h \in Viewers : pc'[h] = pc[h] /\ answer'[h] = answer[h],
           token' = token
    PROVE  \A c \in Clients : (Held(c)' <=> Held(c)) /\ HeldToken(c)' = HeldToken(c)
<1> SUFFICES ASSUME NEW c \in Clients
             PROVE  (Held(c)' <=> Held(c)) /\ HeldToken(c)' = HeldToken(c)
  OBVIOUS
<1>1. Viewer(c) \in Viewers
  BY DEF Viewers
<1>2. pc'[Viewer(c)] = pc[Viewer(c)] /\ answer'[Viewer(c)] = answer[Viewer(c)]
  BY <1>1
<1> QED BY <1>2 DEF Held, HeldToken

\* A step after which nobody holds more than before and no new detach is under way.
LEMMA LessHeld ==
    ASSUME ViewerInv, Shape', ViewersCall',
           \A c \in Clients : Held(c)' => Held(c) /\ HeldToken(c)' = HeldToken(c),
           srv'.nextId = srv.nextId, srv'.exists => srv.exists /\ srv'.viewer = srv.viewer,
           \A job \in UnderWay' : job.kind = "detach" =>
              \E old \in UnderWay : old.kind = "detach" /\ job.arg = old.arg
    PROVE  ViewerInv'
<1>1. TokensHeld'
  <2>1. SUFFICES ASSUME NEW c \in Clients, Held(c)'
                 PROVE  /\ HeldToken(c)' \in 1..(srv'.nextId - 1)
                        /\ srv'.exists => srv'.viewer = HeldToken(c)'
                        /\ \A job \in UnderWay' : job.kind = "detach" => job.arg # HeldToken(c)'
                        /\ \A d \in Clients : d # c /\ Held(d)' => HeldToken(d)' # HeldToken(c)'
    BY DEF TokensHeld
  <2>2. /\ HeldToken(c) \in 1..(srv.nextId - 1)
        /\ srv.exists => srv.viewer = HeldToken(c)
        /\ \A job \in UnderWay : job.kind = "detach" => job.arg # HeldToken(c)
        /\ \A d \in Clients : d # c /\ Held(d) => HeldToken(d) # HeldToken(c)
    BY <2>1 DEF ViewerInv, TokensHeld
  <2>3. \A job \in UnderWay' : job.kind = "detach" => job.arg # HeldToken(c)
    BY <2>2
  <2>4. \A d \in Clients : d # c /\ Held(d)' => HeldToken(d)' # HeldToken(c)
    BY <2>2
  <2> QED BY <2>1, <2>2, <2>3, <2>4
<1>2. DetachesKnown'
  BY DEF ViewerInv, DetachesKnown
<1> QED BY <1>1, <1>2 DEF ViewerInv

\* A step that neither moves a viewer, nor sends a detach, nor touches who holds the
\* simulation.
LEMMA QuietStep ==
    ASSUME ViewerInv, Shape',
           \A h \in Viewers : pc'[h] = pc[h] /\ answer'[h] = answer[h],
           token' = token, srv'.nextId = srv.nextId, srv'.viewer = srv.viewer,
           srv'.exists => srv.exists,
           \A job \in UnderWay' : job.from \in Viewers \/ job.kind = "detach" =>
              job \in UnderWay,
           \A h \in Viewers : OneRequest(h)'
    PROVE  ViewerInv'
<1>1. \A c \in Clients : (Held(c)' <=> Held(c)) /\ HeldToken(c)' = HeldToken(c)
  BY SameHolds
<1>2. ViewersCall'
  <2>1. SUFFICES ASSUME NEW h \in Viewers, NEW job \in UnderWay', job.from = h
                 PROVE  /\ pc'[h] \in {"exists", "attach", "detach"}
                        /\ job.kind = pc'[h] /\ answer'[h] = NoAnswer
    BY DEF ViewersCall
  <2>2. job \in UnderWay
    BY <2>1
  <2> QED BY <2>1, <2>2 DEF ViewerInv, ViewersCall
<1> QED BY <1>1, <1>2, LessHeld

-----------------------------------------------------------------------------
(* Requests sent, delivered and given up.                                   *)

\* A request of h joins those under way.
LEMMA SentShape ==
    ASSUME Shape, NEW h \in Handlers, NEW place, NEW kind, NEW arg,
           Call(h, place, kind, arg), token' \in [Clients -> Nat]
    PROVE  /\ Shape' /\ UnderWay' = UnderWay \cup {Job(h, kind, arg)}
           /\ pc'[h] = place /\ answer'[h] = NoAnswer
           /\ \A g \in Handlers : g # h => pc'[g] = pc[g] /\ answer'[g] = answer[g]
           /\ \A g : g # h /\ OneRequest(g) => OneRequest(g)'
<1>1. /\ pc' = [pc EXCEPT ![h] = place] /\ answer' = [answer EXCEPT ![h] = NoAnswer]
      /\ wire' = wire \cup {Job(h, kind, arg)} /\ queue' = queue /\ srv' = srv
  BY DEF Call, Send
<1>2. UnderWay' = UnderWay \cup {Job(h, kind, arg)}
  BY <1>1 DEF UnderWay
<1>3. Job(h, kind, arg).from = h
      /\ LET job == Job(h, kind, arg) IN job = Job(job.from, job.kind, job.arg)
  BY DEF Job
<1>4. \A job \in UnderWay' : job = Job(job.from, job.kind, job.arg)
  BY <1>2, <1>3 DEF Shape
<1>5. DOMAIN pc' = Handlers /\ DOMAIN answer' = Handlers
  BY <1>1 DEF Shape
<1>6. Shape'
  BY <1>1, <1>4, <1>5 DEF Shape
<1>7. pc'[h] = place /\ answer'[h] = NoAnswer
      /\ \A g \in Handlers : g # h => pc'[g] = pc[g] /\ answer'[g] = answer[g]
  BY <1>1 DEF Shape
<1>8. ASSUME NEW g, g # h, OneRequest(g) PROVE OneRequest(g)'
  BY <1>1, <1>3, <1>8 DEF OneRequest
<1> QED BY <1>2, <1>6, <1>7, <1>8

\* A handler that has no request under way may send one.
LEMMA FirstRequest ==
    ASSUME Shape, NEW h, \A job \in UnderWay : job.from # h,
           NEW kind, NEW arg, wire' = wire \cup {Job(h, kind, arg)}, queue' = queue
    PROVE  OneRequest(h)'
<1>1. \A job \in wire : job.from # h
  BY DEF UnderWay
<1>2. \A i \in DOMAIN queue : queue[i].from # h
  BY QueuedIsUnderWay DEF Shape
<1> QED BY <1>1, <1>2 DEF OneRequest

\* Any other handler than a viewer may call the backend.
LEMMA OthersCall ==
    ASSUME ViewerInv, NEW h \in Handlers \ Viewers, NEW place, NEW kind, NEW arg,
           kind # "detach", Call(h, place, kind, arg), token' = token
    PROVE  ViewerInv'
<1>1. Shape /\ token \in [Clients -> Nat]
  BY DEF ViewerInv, Shape
<1>2. /\ Shape' /\ UnderWay' = UnderWay \cup {Job(h, kind, arg)}
      /\ \A g \in Handlers : g # h => pc'[g] = pc[g] /\ answer'[g] = answer[g]
      /\ \A g : g # h /\ OneRequest(g) => OneRequest(g)'
  BY <1>1, SentShape
<1>3. \A g \in Viewers : pc'[g] = pc[g] /\ answer'[g] = answer[g] /\ OneRequest(g)'
  BY <1>2, ViewerNames DEF ViewerInv, ViewersCall
<1>4. srv' = srv
  BY DEF Call, Send
<1>5. ASSUME NEW job \in UnderWay', job.from \in Viewers \/ job.kind = "detach"
      PROVE  job \in UnderWay
  BY <1>2, <1>5 DEF Job
<1> QED BY <1>2, <1>3, <1>4, <1>5, QuietStep

\* Any other handler than a viewer may go on.
LEMMA OthersGoOn ==
    ASSUME ViewerInv, NEW h \in Handlers \ Viewers, NEW place, GoTo(h, place), token' = token
    PROVE  ViewerInv'
<1>1. /\ pc' = [pc EXCEPT ![h] = place] /\ answer' = [answer EXCEPT ![h] = NoAnswer]
      /\ wire' = wire /\ queue' = queue /\ srv' = srv
  BY DEF GoTo
<1>2. Shape' /\ UnderWay' = UnderWay
  BY <1>1 DEF ViewerInv, Shape, UnderWay
<1>3. \A g \in Viewers : pc'[g] = pc[g] /\ answer'[g] = answer[g]
  BY <1>1, ViewerNames DEF ViewerInv, Shape
<1>4. \A g \in Viewers : OneRequest(g)'
  BY <1>1 DEF ViewerInv, ViewersCall, OneRequest
<1> QED BY <1>1, <1>2, <1>3, <1>4, QuietStep

\* Steps of the worker's polls, of the arbiter and of the GDB thread's end.
LEMMA NobodyCalls ==
    ASSUME ViewerInv, UNCHANGED <<wire, queue, answer, pc, token>>,
           DOMAIN srv' = DOMAIN srv, srv'.viewer = srv.viewer, srv'.nextId = srv.nextId,
           srv'.exists = srv.exists
    PROVE  ViewerInv'
<1>1. Shape' /\ UnderWay' = UnderWay
  BY DEF ViewerInv, Shape, UnderWay
<1>2. \A g \in Viewers : OneRequest(g)'
  BY DEF ViewerInv, ViewersCall, OneRequest
<1> QED BY <1>1, <1>2, QuietStep

\* A request that is delivered is still under way.
LEMMA Delivered ==
    ASSUME Shape, NEW sender, Deliver(sender), UNCHANGED sessionVars
    PROVE  /\ Shape' /\ UnderWay' = UnderWay /\ UNCHANGED <<answer, srv, pc, token>>
           /\ \A h : OneRequest(h) => OneRequest(h)'
<1>1. PICK job \in wire : /\ job.from = sender /\ wire' = wire \ {job}
                          /\ queue' = Append(queue, job)
  BY DEF Deliver
<1>2. answer' = answer /\ srv' = srv /\ pc' = pc /\ token' = token
  BY DEF Deliver, sessionVars
<1>3. PICK S : queue \in Seq(S)
  BY DEF Shape
<1>4. queue \in Seq(S \cup {job})
  BY <1>3, SeqMonotonic
<1>5. queue' \in Seq(S \cup {job}) /\ Len(queue') = Len(queue) + 1 /\ Len(queue) \in Nat
      /\ queue'[Len(queue) + 1] = job /\ \A i \in DOMAIN queue : queue'[i] = queue[i]
  BY <1>1, <1>4
<1>6. DOMAIN queue' = DOMAIN queue \cup {Len(queue) + 1} /\ DOMAIN queue = 1..Len(queue)
  BY <1>3, <1>5
<1>7. UnderWay' = UnderWay
  <2>1. ToSet(queue') = ToSet(queue) \cup {job}
    BY <1>5, <1>6 DEF ToSet
  <2> QED BY <1>1, <2>1 DEF UnderWay
<1>8. Shape'
  BY <1>2, <1>5, <1>7 DEF Shape
<1>9. ASSUME NEW h, OneRequest(h) PROVE OneRequest(h)'
  <2>1. CASE job.from = h
    <3>1. \A other \in wire' : other.from # h
      BY <1>1, <1>9, <2>1 DEF OneRequest
    <3>2. \A i \in DOMAIN queue : queue'[i].from # h
      BY <1>1, <1>5, <1>9, <2>1 DEF OneRequest
    <3> QED BY <1>6, <3>1, <3>2 DEF OneRequest
  <2>2. CASE job.from # h
    <3>1. \A i \in DOMAIN queue' : queue'[i].from = h => i \in DOMAIN queue
                                                         /\ queue[i].from = h
      BY <1>5, <1>6, <2>2
    <3>2. wire' \subseteq wire
      BY <1>1
    <3> QED BY <1>9, <3>1, <3>2 DEF OneRequest
  <2> QED BY <2>1, <2>2
<1> QED BY <1>2, <1>7, <1>8, <1>9

LEMMA DeliveredKeeps ==
    ASSUME ViewerInv, NEW sender, Deliver(sender), UNCHANGED sessionVars
    PROVE  ViewerInv'
<1>1. /\ Shape' /\ UnderWay' = UnderWay /\ UNCHANGED <<answer, srv, pc, token>>
      /\ \A h : OneRequest(h) => OneRequest(h)'
  BY Delivered DEF ViewerInv
<1>2. \A h \in Viewers : OneRequest(h)'
  BY <1>1 DEF ViewerInv, ViewersCall
<1> QED BY <1>1, <1>2, QuietStep

\* A call that is given up stays under way under a name nobody listens to.
LEMMA GaveUp ==
    ASSUME Shape, NEW h \in Handlers, GiveUp(h)
    PROVE  /\ Shape' /\ UNCHANGED <<srv, token>>
           /\ pc'[h] \in {"again", "idle"} /\ answer'[h] = NoAnswer
           /\ \A g \in Handlers : g # h => pc'[g] = pc[g] /\ answer'[g] = answer[g]
           /\ \A job \in UnderWay' : job.from \in Handlers => job \in UnderWay /\ job.from # h
           /\ \A job \in UnderWay' : \E old \in UnderWay : job.kind = old.kind /\ job.arg = old.arg
           /\ \A g \in Handlers : OneRequest(g) => OneRequest(g)'
<1> DEFINE gone == <<"gone", used.gaveUp>>
           left(job) == [job EXCEPT !.from = IF @ = h THEN gone ELSE @]
<1>1. /\ wire' = {left(job) : job \in wire}
      /\ queue' = [i \in DOMAIN queue |-> left(queue[i])]
      /\ answer' = [answer EXCEPT ![h] = NoAnswer] /\ srv' = srv /\ token' = token
  BY DEF GiveUp, Abandon
<1>2. PICK place \in {"again", "idle"} : pc' = [pc EXCEPT ![h] = place]
  BY DEF GiveUp
<1>3. PICK S : queue \in Seq(S)
  BY DEF Shape
<1>4. gone \notin Handlers
  BY HandlersStay
<1> HIDE DEF gone
<1>5. ASSUME NEW job \in UnderWay
      PROVE  /\ left(job).from = (IF job.from = h THEN gone ELSE job.from)
             /\ left(job).kind = job.kind /\ left(job).arg = job.arg
             /\ left(job) = Job(left(job).from, left(job).kind, left(job).arg)
             /\ job.from # h => left(job) = job
  <2>1. job = [from |-> job.from, kind |-> job.kind, arg |-> job.arg]
    BY DEF Shape, Job
  <2>2. left(job) = [from |-> IF job.from = h THEN gone ELSE job.from,
                     kind |-> job.kind, arg |-> job.arg]
    BY <2>1
  <2> QED BY <2>1, <2>2 DEF Job
<1> HIDE DEF left
<1>6. /\ queue' \in Seq({left(s) : s \in S}) /\ DOMAIN queue' = DOMAIN queue
      /\ \A i \in DOMAIN queue : queue'[i] = left(queue[i]) /\ queue[i] \in UnderWay
  BY <1>1, <1>3, QueuedIsUnderWay
<1>7. \A new \in UnderWay' : \E job \in UnderWay : new = left(job)
  <2>1. \A new \in wire' : \E job \in UnderWay : new = left(job)
    BY <1>1 DEF UnderWay
  <2>2. \A new \in ToSet(queue') : \E job \in UnderWay : new = left(job)
    BY <1>6 DEF ToSet
  <2> QED BY <2>1, <2>2 DEF UnderWay
<1>8. Shape'
  <2>1. DOMAIN pc' = Handlers /\ DOMAIN answer' = Handlers
    BY <1>1, <1>2 DEF Shape
  <2>2. \A new \in UnderWay' : new = Job(new.from, new.kind, new.arg)
    BY <1>5, <1>7
  <2> QED BY <1>1, <1>6, <2>1, <2>2 DEF Shape
<1>9. /\ pc'[h] = place /\ answer'[h] = NoAnswer
      /\ \A g \in Handlers : g # h => pc'[g] = pc[g] /\ answer'[g] = answer[g]
  BY <1>1, <1>2 DEF Shape
<1>10. ASSUME NEW job \in UnderWay, left(job).from \in Handlers
       PROVE  job.from = left(job).from /\ job.from # h /\ left(job) = job
  BY <1>4, <1>5, <1>10
<1>11. ASSUME NEW g \in Handlers, OneRequest(g) PROVE OneRequest(g)'
  <2>1. \A new \in wire' : new.from = g => new \in wire
    <3>1. wire \subseteq UnderWay
      BY DEF UnderWay
    <3> QED BY <1>1, <1>10, <1>11, <3>1
  <2>2. \A i \in DOMAIN queue' : queue'[i].from = g => i \in DOMAIN queue /\ queue[i].from = g
    BY <1>6, <1>10, <1>11
  <2> QED BY <1>11, <2>1, <2>2 DEF OneRequest
<1>12. \A job \in UnderWay' : job.from \in Handlers => job \in UnderWay /\ job.from # h
  BY <1>7, <1>10
<1>13. \A job \in UnderWay' : \E old \in UnderWay : job.kind = old.kind /\ job.arg = old.arg
  BY <1>5, <1>7
<1> QED BY <1>1, <1>2, <1>8, <1>9, <1>11, <1>12, <1>13

LEMMA GiveUpKeeps ==
    ASSUME ViewerInv, NEW h \in Handlers, GiveUp(h)
    PROVE  ViewerInv'
<1>1. /\ Shape' /\ UNCHANGED <<srv, token>>
      /\ pc'[h] \in {"again", "idle"} /\ answer'[h] = NoAnswer
      /\ \A g \in Handlers : g # h => pc'[g] = pc[g] /\ answer'[g] = answer[g]
      /\ \A job \in UnderWay' : job.from \in Handlers => job \in UnderWay /\ job.from # h
      /\ \A job \in UnderWay' : \E old \in UnderWay : job.kind = old.kind /\ job.arg = old.arg
      /\ \A g \in Handlers : OneRequest(g) => OneRequest(g)'
  BY GaveUp DEF ViewerInv
<1>2. \A c \in Clients : Held(c)' => Held(c) /\ HeldToken(c)' = HeldToken(c)
  <2>1. SUFFICES ASSUME NEW c \in Clients, Held(c)'
                 PROVE  Held(c) /\ HeldToken(c)' = HeldToken(c)
    OBVIOUS
  <2>2. Viewer(c) # h
    BY <1>1, <2>1 DEF Held
  <2>3. Viewer(c) \in Handlers
    BY ViewerNames DEF Viewers
  <2> QED BY <1>1, <2>1, <2>2, <2>3 DEF Held, HeldToken
<1>3. ViewersCall'
  <2>1. ASSUME NEW g \in Viewers, NEW new \in UnderWay', new.from = g
        PROVE  /\ pc'[g] \in {"exists", "attach", "detach"} /\ new.kind = pc'[g]
               /\ answer'[g] = NoAnswer
    <3>1. new \in UnderWay /\ g # h /\ g \in Handlers
      BY <1>1, <2>1, ViewerNames
    <3> QED BY <1>1, <2>1, <3>1 DEF ViewerInv, ViewersCall
  <2>2. ASSUME NEW g \in Viewers PROVE OneRequest(g)'
    BY <1>1, <2>2, ViewerNames DEF ViewerInv, ViewersCall
  <2> QED BY <2>1, <2>2 DEF ViewersCall
<1> QED BY <1>1, <1>2, <1>3, LessHeld


-----------------------------------------------------------------------------
(* Jobs of the worker.                                                      *)

\* A job that is run leaves the queue; if a viewer waits for it, it is answered.
LEMMA AnswerEffect ==
    ASSUME ViewerInv, NEW kind, NEW code, NEW value, Answered(kind, code, value),
           UNCHANGED sessionVars
    PROVE  /\ Head(queue) \in UnderWay /\ Head(queue).kind = kind
           /\ UnderWay' \subseteq UnderWay
           /\ \E S : queue' \in Seq(S)
           /\ DOMAIN answer' = Handlers
           /\ \A h \in Handlers : answer'[h] = IF h = Head(queue).from
                       THEN [code |-> code, value |-> value] ELSE answer[h]
           /\ \A h : OneRequest(h) => OneRequest(h)'
           /\ \A h : OneRequest(h) /\ Head(queue).from = h =>
                 \A job \in UnderWay' : job.from # h
           /\ ViewersCall'
           /\ \A h \in Viewers :
                 IF Head(queue).from = h
                 THEN pc[h] = kind /\ answer[h] = NoAnswer
                      /\ answer'[h] = [code |-> code, value |-> value]
                 ELSE answer'[h] = answer[h]
<1>1. /\ queue # <<>> /\ Head(queue).kind = kind /\ queue' = Tail(queue) /\ wire' = wire
      /\ answer' = [h \in DOMAIN answer |-> IF h = Head(queue).from
                       THEN [code |-> code, value |-> value] ELSE answer[h]]
  BY DEF Answered
<1>2. pc' = pc
  BY DEF sessionVars
<1>3. PICK S : queue \in Seq(S)
  BY DEF ViewerInv, Shape
<1>4. /\ queue' \in Seq(S) /\ 1 \in DOMAIN queue /\ Head(queue) = queue[1]
      /\ \A i \in DOMAIN queue' : i + 1 \in DOMAIN queue /\ i + 1 # 1 /\ queue'[i] = queue[i + 1]
      /\ DOMAIN queue \subseteq Nat /\ DOMAIN queue' \subseteq Nat
  BY <1>1, <1>3
<1>5. Head(queue) \in UnderWay
  BY <1>3, <1>4, QueuedIsUnderWay
<1>6. UnderWay' \subseteq UnderWay
  <2>1. ToSet(queue') \subseteq ToSet(queue)
    BY <1>4 DEF ToSet
  <2> QED BY <1>1, <2>1 DEF UnderWay
<1>7. DOMAIN answer' = Handlers /\ DOMAIN answer = Handlers
  BY <1>1 DEF ViewerInv, Shape
<1>8. \A h \in Handlers : answer'[h] = IF h = Head(queue).from
                       THEN [code |-> code, value |-> value] ELSE answer[h]
  BY <1>1, <1>7
<1>9. ASSUME NEW h \in Viewers
      PROVE  IF Head(queue).from = h
             THEN pc[h] = kind /\ answer[h] = NoAnswer
                  /\ answer'[h] = [code |-> code, value |-> value]
             ELSE answer'[h] = answer[h]
  <2>1. h \in Handlers
    BY <1>9, ViewerNames
  <2> QED BY <1>1, <1>5, <1>8, <1>9, <2>1 DEF ViewerInv, ViewersCall
<1>10. ASSUME NEW h, OneRequest(h) PROVE OneRequest(h)'
  <2>1. \A i \in DOMAIN queue' : queue'[i].from = h => queue[i + 1].from = h
    BY <1>4
  <2>2. \A i, j \in DOMAIN queue' : i + 1 = j + 1 => i = j
    BY <1>4
  <2> QED BY <1>1, <1>4, <1>10, <2>1, <2>2 DEF OneRequest
<1>11. ASSUME NEW h, OneRequest(h), Head(queue).from = h, NEW job \in UnderWay', job.from = h
       PROVE  FALSE
  <2>1. CASE job \in wire
    BY <1>4, <1>11, <2>1 DEF OneRequest
  <2>2. CASE job \in ToSet(queue')
    <3>1. PICK i \in DOMAIN queue' : job = queue'[i]
      BY <2>2 DEF ToSet
    <3> QED BY <1>4, <1>11, <3>1 DEF OneRequest
  <2> QED BY <1>1, <1>11, <2>1, <2>2 DEF UnderWay
<1>12. ViewersCall'
  <2>1. ASSUME NEW h \in Viewers PROVE OneRequest(h)'
    BY <1>10, <2>1 DEF ViewerInv, ViewersCall
  <2>2. ASSUME NEW h \in Viewers, NEW job \in UnderWay', job.from = h
        PROVE  /\ pc'[h] \in {"exists", "attach", "detach"} /\ job.kind = pc'[h]
               /\ answer'[h] = NoAnswer
    <3>1. /\ pc[h] \in {"exists", "attach", "detach"} /\ job.kind = pc[h]
          /\ answer[h] = NoAnswer /\ OneRequest(h)
      BY <1>6, <2>2 DEF ViewerInv, ViewersCall
    <3>2. Head(queue).from # h
      BY <1>11, <2>2, <3>1
    <3> QED BY <1>2, <1>9, <2>2, <3>1, <3>2
  <2> QED BY <2>1, <2>2 DEF ViewersCall
<1> QED BY <1>1, <1>4, <1>5, <1>6, <1>7, <1>8, <1>9, <1>10, <1>11, <1>12

\* An answer that grants no attach changes nothing that is held.
LEMMA PlainAnswer ==
    ASSUME ViewerInv, NEW kind, NEW code, NEW value, Answered(kind, code, value),
           UNCHANGED sessionVars, kind = "attach" => code # "ok",
           DOMAIN srv' = DOMAIN srv, srv'.nextId = srv.nextId,
           srv'.viewer \in 0..(srv.nextId - 1),
           srv'.exists => srv.exists
                          /\ \A c \in Clients : Held(c) => srv'.viewer = srv.viewer
    PROVE  ViewerInv'
<1>1. /\ UnderWay' \subseteq UnderWay /\ \E S : queue' \in Seq(S)
      /\ DOMAIN answer' = Handlers /\ ViewersCall'
      /\ \A h \in Viewers : IF Head(queue).from = h
                 THEN pc[h] = kind /\ answer[h] = NoAnswer
                      /\ answer'[h] = [code |-> code, value |-> value]
                 ELSE answer'[h] = answer[h]
  BY AnswerEffect
<1>2. pc' = pc /\ token' = token
  BY DEF sessionVars
<1>3. Shape'
  BY <1>1, <1>2 DEF ViewerInv, Shape
<1>4. \A c \in Clients : Held(c)' => Held(c) /\ HeldToken(c)' = HeldToken(c)
  <2>1. SUFFICES ASSUME NEW c \in Clients, Held(c)'
                 PROVE  Held(c) /\ HeldToken(c)' = HeldToken(c)
    OBVIOUS
  <2> DEFINE h == Viewer(c)
  <2>2. h \in Viewers
    BY DEF Viewers
  <2>3. CASE Head(queue).from = h
    <3>1. pc[h] = kind /\ answer'[h].code = code
      BY <1>1, <2>2, <2>3
    <3>2. pc[h] = "open"
      BY <1>2, <2>1, <3>1 DEF Held
    <3> QED BY <1>2, <3>2 DEF Held, HeldToken
  <2>4. CASE Head(queue).from # h
    <3>1. answer'[h] = answer[h]
      BY <1>1, <2>2, <2>4
    <3> QED BY <1>2, <2>1, <3>1 DEF Held, HeldToken
  <2> QED BY <2>3, <2>4
<1>5. TokensHeld'
  <2>1. SUFFICES ASSUME NEW c \in Clients, Held(c)'
                 PROVE  /\ HeldToken(c)' \in 1..(srv'.nextId - 1)
                        /\ srv'.exists => srv'.viewer = HeldToken(c)'
                        /\ \A job \in UnderWay' : job.kind = "detach" => job.arg # HeldToken(c)'
                        /\ \A d \in Clients : d # c /\ Held(d)' => HeldToken(d)' # HeldToken(c)'
    BY DEF TokensHeld
  <2>2. Held(c) /\ HeldToken(c)' = HeldToken(c)
    BY <1>4, <2>1
  <2>3. /\ HeldToken(c) \in 1..(srv.nextId - 1)
        /\ srv.exists => srv.viewer = HeldToken(c)
        /\ \A job \in UnderWay : job.kind = "detach" => job.arg # HeldToken(c)
        /\ \A d \in Clients : d # c /\ Held(d) => HeldToken(d) # HeldToken(c)
    BY <2>2 DEF ViewerInv, TokensHeld
  <2> QED BY <1>1, <1>4, <2>2, <2>3
<1>6. DetachesKnown'
  BY <1>1 DEF ViewerInv, DetachesKnown
<1> QED BY <1>1, <1>3, <1>5, <1>6 DEF ViewerInv

\* viewer_attach grants a new token when nobody holds the simulation.
LEMMA AttachHolds ==
    ASSUME ViewerInv, srv.exists, srv.viewer = NoToken, Answered("attach", "ok", srv.nextId),
           UNCHANGED sessionVars,
           srv' = [srv EXCEPT !.viewer = srv.nextId, !.nextId = @ + 1]
    PROVE  ViewerInv'
<1>1. /\ UnderWay' \subseteq UnderWay /\ \E S : queue' \in Seq(S)
      /\ DOMAIN answer' = Handlers /\ ViewersCall'
      /\ \A h \in Viewers : IF Head(queue).from = h
                 THEN pc[h] = "attach" /\ answer[h] = NoAnswer
                      /\ answer'[h] = [code |-> "ok", value |-> srv.nextId]
                 ELSE answer'[h] = answer[h]
  BY AnswerEffect
<1>2. pc' = pc /\ token' = token
  BY DEF sessionVars
<1>3. /\ srv'.viewer = srv.nextId /\ srv'.nextId = srv.nextId + 1 /\ srv.nextId \in Nat \ {0}
      /\ DOMAIN srv' = DOMAIN srv
  BY DEF ViewerInv, Shape
<1>4. Shape'
  BY <1>1, <1>2, <1>3 DEF ViewerInv, Shape
<1>5. \A c \in Clients : ~ Held(c)
  BY DEF ViewerInv, TokensHeld, NoToken
<1>6. \A c \in Clients : Held(c)' => Head(queue).from = Viewer(c)
                                     /\ HeldToken(c)' = srv.nextId
  <2>1. SUFFICES ASSUME NEW c \in Clients, Held(c)'
                 PROVE  Head(queue).from = Viewer(c) /\ HeldToken(c)' = srv.nextId
    OBVIOUS
  <2> DEFINE h == Viewer(c)
  <2>2. h \in Viewers
    BY DEF Viewers
  <2>3. Head(queue).from = h
    <3>1. SUFFICES ASSUME Head(queue).from # h PROVE FALSE
      OBVIOUS
    <3>2. answer'[h] = answer[h]
      BY <1>1, <2>2, <3>1
    <3> QED BY <1>2, <1>5, <2>1, <3>2 DEF Held
  <2>4. pc[h] = "attach" /\ answer'[h].value = srv.nextId
    BY <1>1, <2>2, <2>3
  <2> QED BY <1>2, <2>3, <2>4 DEF HeldToken
<1>7. TokensHeld'
  <2>1. SUFFICES ASSUME NEW c \in Clients, Held(c)'
                 PROVE  /\ HeldToken(c)' \in 1..(srv'.nextId - 1)
                        /\ srv'.exists => srv'.viewer = HeldToken(c)'
                        /\ \A job \in UnderWay' : job.kind = "detach" => job.arg # HeldToken(c)'
                        /\ \A d \in Clients : d # c /\ Held(d)' => HeldToken(d)' # HeldToken(c)'
    BY DEF TokensHeld
  <2>2. HeldToken(c)' = srv.nextId
    BY <1>6, <2>1
  <2>3. \A job \in UnderWay' : job.kind = "detach" => job.arg # srv.nextId
    BY <1>1, <1>3 DEF ViewerInv, DetachesKnown
  <2>4. \A d \in Clients : Held(d)' => d = c
    BY <1>6, <2>1, ViewerNames
  <2> QED BY <1>3, <2>2, <2>3, <2>4
<1>8. DetachesKnown'
  BY <1>1, <1>3 DEF ViewerInv, DetachesKnown
<1> QED BY <1>1, <1>4, <1>7, <1>8 DEF ViewerInv

\* Every step of the worker and the arbiter leaves the simulation with its viewer.
LEMMA ServerKeeps ==
    ASSUME ViewerInv, ServerStep
    PROVE  ViewerInv'
<1>1. UNCHANGED sessionVars
  BY DEF ServerStep
<1>2. srv.nextId \in Nat /\ srv.viewer \in 0..(srv.nextId - 1)
  BY DEF ViewerInv, Shape
<1>3. CASE Delivery
  BY <1>1, <1>3, DeliveredKeeps DEF Delivery
<1>4. ASSUME NEW kind, NEW code, NEW value, Answered(kind, code, value), srv' = srv,
             kind = "attach" => code # "ok"
      PROVE  ViewerInv'
  BY <1>1, <1>2, <1>4, PlainAnswer
<1>5. ASSUME NEW kind, Missing(kind) PROVE ViewerInv'
  BY <1>4, <1>5 DEF Missing, Kept
<1>6. CASE \/ Exists \/ ViewerCheck \/ RunCommand \/ GetStatus \/ GetLogs \/ LogHighWater
           \/ Inspect \/ InspectFails
  <2>1. srv' = srv
    BY <1>6 DEF Exists, ViewerCheck, RunCommand, GetStatus, GetLogs, LogHighWater, Inspect,
                InspectFails, Kept
  <2>2. CASE Exists
    BY <1>4, <2>1, <2>2 DEF Exists
  <2>3. CASE ViewerCheck
    BY <1>4, <2>1, <2>3 DEF ViewerCheck
  <2>4. CASE RunCommand
    BY <1>4, <2>1, <2>4 DEF RunCommand
  <2>5. CASE GetStatus
    BY <1>4, <2>1, <2>5 DEF GetStatus
  <2>6. CASE GetLogs
    BY <1>4, <2>1, <2>6 DEF GetLogs
  <2>7. CASE LogHighWater
    BY <1>4, <2>1, <2>7 DEF LogHighWater
  <2>8. CASE Inspect
    BY <1>4, <2>1, <2>8 DEF Inspect
  <2>9. CASE InspectFails
    BY <1>4, <2>1, <2>9 DEF InspectFails
  <2> QED BY <1>6, <2>2, <2>3, <2>4, <2>5, <2>6, <2>7, <2>8, <2>9
<1>7. CASE ViewerAttach
  <2>1. CASE srv.viewer # NoToken /\ Answered("attach", "busy", 0) /\ Kept
    BY <1>4, <2>1 DEF Kept
  <2>2. CASE srv.viewer = NoToken /\ Answered("attach", "ok", srv.nextId)
             /\ srv' = [srv EXCEPT !.viewer = srv.nextId, !.nextId = @ + 1]
    BY <1>1, <1>7, <2>2, AttachHolds DEF ViewerAttach
  <2> QED BY <1>7, <2>1, <2>2 DEF ViewerAttach
<1>8. CASE ViewerDetach
  <2>1. /\ Answered("detach", "ok", 0)
        /\ srv' = IF srv.viewer = Arg THEN [srv EXCEPT !.viewer = NoToken] ELSE srv
    BY <1>8 DEF ViewerDetach
  <2>2. Head(queue) \in UnderWay /\ Head(queue).kind = "detach"
    BY <1>1, <2>1, AnswerEffect
  <2>3. /\ DOMAIN srv' = DOMAIN srv /\ srv'.nextId = srv.nextId /\ srv'.exists = srv.exists
        /\ srv'.viewer = IF srv.viewer = Arg THEN NoToken ELSE srv.viewer
    BY <2>1 DEF ViewerInv, Shape
  <2>4. srv.exists => \A c \in Clients : Held(c) => srv.viewer # Arg
    BY <2>2 DEF ViewerInv, TokensHeld, Arg
  <2>5. srv'.viewer \in 0..(srv.nextId - 1)
    BY <1>2, <2>3 DEF NoToken
  <2> QED BY <1>1, <2>1, <2>3, <2>4, <2>5, PlainAnswer
<1>9. CASE Delete
  <2>1. /\ Answered("delete", "ok", 0)
        /\ srv' = [srv EXCEPT !.exists = FALSE, !.child = FALSE, !.viewer = NoToken]
    BY <1>9 DEF Delete
  <2>2. /\ DOMAIN srv' = DOMAIN srv /\ srv'.nextId = srv.nextId /\ ~ srv'.exists
        /\ srv'.viewer = NoToken
    BY <2>1 DEF ViewerInv, Shape
  <2>3. srv'.viewer \in 0..(srv.nextId - 1)
    BY <1>2, <2>2 DEF NoToken
  <2> QED BY <1>1, <2>1, <2>2, <2>3, PlainAnswer
<1>10. ASSUME NEW s, NEW n, s = srv \/ \E status : s = [srv EXCEPT !.status = status]
       PROVE  LET t == AppendLogs(s, n) IN
              /\ DOMAIN t = DOMAIN srv /\ t.viewer = srv.viewer /\ t.nextId = srv.nextId
              /\ t.exists = srv.exists
  <2>1. /\ DOMAIN s = DOMAIN srv /\ s.viewer = srv.viewer /\ s.nextId = srv.nextId
        /\ s.exists = srv.exists
    BY <1>10 DEF ViewerInv, Shape
  <2>2. \E logs, seq : AppendLogs(s, n) = [s EXCEPT !.logs = logs, !.nextSeq = seq]
    BY DEF AppendLogs
  <2> QED BY <2>1, <2>2 DEF ViewerInv, Shape
<1>11. CASE Drain
  <2> DEFINE s == IF stats = <<>> THEN srv ELSE [srv EXCEPT !.status = ToStatus(Last(stats))]
  <2>1. srv' = AppendLogs(s, inbox) /\ UNCHANGED <<wire, queue, answer>>
    BY <1>11 DEF Drain
  <2>2. s = srv \/ \E status : s = [srv EXCEPT !.status = status]
    OBVIOUS
  <2> HIDE DEF s
  <2>3. /\ DOMAIN srv' = DOMAIN srv /\ srv'.viewer = srv.viewer /\ srv'.nextId = srv.nextId
        /\ srv'.exists = srv.exists
    BY <1>10, <2>1, <2>2
  <2> QED BY <1>1, <2>1, <2>3, NobodyCalls DEF sessionVars
<1>12. CASE Reap
  <2> DEFINE t == AppendLogs(srv, 1)
  <2>1. /\ UNCHANGED <<wire, queue, answer>>
        /\ \/ srv' = srv
           \/ srv' = [t EXCEPT !.status.state = "exited", !.child = FALSE]
    BY <1>12 DEF Reap
  <2>2. /\ DOMAIN t = DOMAIN srv /\ t.viewer = srv.viewer /\ t.nextId = srv.nextId
        /\ t.exists = srv.exists
    BY <1>10
  <2> HIDE DEF t
  <2>3. /\ DOMAIN srv' = DOMAIN srv /\ srv'.viewer = srv.viewer /\ srv'.nextId = srv.nextId
        /\ srv'.exists = srv.exists
    BY <2>1, <2>2 DEF ViewerInv, Shape
  <2> QED BY <1>1, <2>1, <2>3, NobodyCalls DEF sessionVars
<1>13. CASE ArbiterStep \/ ArbiterExit
  <2>1. UNCHANGED <<wire, queue, answer, srv>>
    BY <1>13 DEF ArbiterStep, ArbiterCommand, ArbiterAdvance, ArbiterStop, ArbiterReport,
       ArbiterLog, ArbiterExit
  <2> QED BY <1>1, <2>1, NobodyCalls DEF sessionVars
<1> QED BY <1>3, <1>5, <1>6, <1>7, <1>8, <1>9, <1>11, <1>12, <1>13
        DEF ServerStep, WorkerStep, DispatchJob


-----------------------------------------------------------------------------
(* Viewers come and go.                                                     *)

\* A viewer handler without a request under way sends one that is no detach.
LEMMA ViewerCalls ==
    ASSUME ViewerInv, NEW c \in Clients, NEW place \in {"exists", "attach"},
           Call(Viewer(c), place, place, 0), token' = token,
           \A job \in UnderWay : job.from # Viewer(c)
    PROVE  ViewerInv'
<1> DEFINE h == Viewer(c)
<1>1. h \in Viewers /\ h \in Handlers
  BY ViewerNames DEF Viewers
<1>2. Shape /\ token' \in [Clients -> Nat]
  BY DEF ViewerInv, Shape
<1>3. /\ Shape' /\ UnderWay' = UnderWay \cup {Job(h, place, 0)}
      /\ pc'[h] = place /\ answer'[h] = NoAnswer
      /\ \A g \in Handlers : g # h => pc'[g] = pc[g] /\ answer'[g] = answer[g]
      /\ \A g : g # h /\ OneRequest(g) => OneRequest(g)'
  BY <1>1, <1>2, SentShape
<1>4. OneRequest(h)'
  <2>1. wire' = wire \cup {Job(h, place, 0)} /\ queue' = queue
    BY DEF Call, Send
  <2> QED BY <1>2, <2>1, FirstRequest
<1>5. srv' = srv
  BY DEF Call, Send
<1>6. Job(h, place, 0).from = h /\ Job(h, place, 0).kind = place
  BY DEF Job
<1> HIDE DEF h
<1>7. ViewersCall'
  <2>1. \A g \in Viewers : OneRequest(g)'
    BY <1>3, <1>4 DEF ViewerInv, ViewersCall
  <2>2. ASSUME NEW g \in Viewers, NEW job \in UnderWay', job.from = g
        PROVE  /\ pc'[g] \in {"exists", "attach", "detach"} /\ job.kind = pc'[g]
               /\ answer'[g] = NoAnswer
    <3>1. CASE g = h
      BY <1>3, <1>6, <2>2, <3>1 DEF h
    <3>2. CASE g # h
      <4>1. job \in UnderWay /\ g \in Handlers
        BY <1>3, <1>6, <2>2, <3>2, ViewerNames
      <4> QED BY <1>3, <2>2, <3>2, <4>1 DEF ViewerInv, ViewersCall
    <3> QED BY <3>1, <3>2
  <2> QED BY <2>1, <2>2 DEF ViewersCall
<1>8. \A d \in Clients : Held(d)' => Held(d) /\ HeldToken(d)' = HeldToken(d)
  <2>1. SUFFICES ASSUME NEW d \in Clients, Held(d)'
                 PROVE  Held(d) /\ HeldToken(d)' = HeldToken(d)
    OBVIOUS
  <2>2. NoAnswer.code # "ok"
    BY DEF NoAnswer
  <2>3. Viewer(d) # h
    BY <1>3, <2>1, <2>2 DEF Held
  <2>4. Viewer(d) \in Handlers
    BY ViewerNames DEF Viewers
  <2> QED BY <1>3, <2>1, <2>3, <2>4 DEF Held, HeldToken
<1>9. \A job \in UnderWay' : job.kind = "detach" => job \in UnderWay
  BY <1>3, <1>6
<1> QED BY <1>3, <1>5, <1>7, <1>8, <1>9, LessHeld

\* A viewer handler that is answered has nothing under way.
LEMMA AnsweredViewer ==
    ASSUME ViewerInv, NEW c \in Clients,
           answer[Viewer(c)] # NoAnswer \/ pc[Viewer(c)] \notin {"exists", "attach", "detach"}
    PROVE  \A job \in UnderWay : job.from # Viewer(c)
BY DEF ViewerInv, ViewersCall, Viewers

\* A viewer handler goes on; if it opens its stream, the token is the one granted.
LEMMA ViewerGoesOn ==
    ASSUME ViewerInv, NEW c \in Clients, NEW place, GoTo(Viewer(c), place),
           answer[Viewer(c)] # NoAnswer,
           \/ token' = token /\ place = "idle"
           \/ /\ pc[Viewer(c)] = "attach" /\ answer[Viewer(c)].code = "ok" /\ place = "open"
              /\ token' = [token EXCEPT ![c] = answer[Viewer(c)].value]
    PROVE  ViewerInv'
<1> DEFINE h == Viewer(c)
<1>1. h \in Viewers /\ h \in Handlers
  BY ViewerNames DEF Viewers
<1>2. /\ pc' = [pc EXCEPT ![h] = place] /\ answer' = [answer EXCEPT ![h] = NoAnswer]
      /\ wire' = wire /\ queue' = queue /\ srv' = srv
  BY DEF GoTo
<1>3. /\ pc'[h] = place /\ UnderWay' = UnderWay
      /\ \A g \in Handlers : g # h => pc'[g] = pc[g] /\ answer'[g] = answer[g]
      /\ DOMAIN pc' = Handlers /\ DOMAIN answer' = Handlers
  BY <1>1, <1>2 DEF ViewerInv, Shape, UnderWay
<1>4. token' \in [Clients -> Nat]
  <2>1. CASE token' = token
    BY <2>1 DEF ViewerInv, Shape
  <2>2. CASE /\ pc[h] = "attach" /\ answer[h].code = "ok"
             /\ token' = [token EXCEPT ![c] = answer[h].value]
    <3>1. Held(c) /\ HeldToken(c) = answer[h].value
      BY <2>2 DEF Held, HeldToken
    <3>2. answer[h].value \in 1..(srv.nextId - 1) /\ srv.nextId \in Nat
      BY <3>1 DEF ViewerInv, TokensHeld, Shape
    <3> QED BY <2>2, <3>2 DEF ViewerInv, Shape
  <2> QED BY <2>1, <2>2
<1>5. Shape'
  BY <1>2, <1>3, <1>4 DEF ViewerInv, Shape
<1>6. \A job \in UnderWay : job.from # h
  BY AnsweredViewer
<1>7. ViewersCall'
  <2>1. \A g \in Viewers : OneRequest(g)'
    BY <1>2 DEF ViewerInv, ViewersCall, OneRequest
  <2>2. ASSUME NEW g \in Viewers, NEW job \in UnderWay', job.from = g
        PROVE  /\ pc'[g] \in {"exists", "attach", "detach"} /\ job.kind = pc'[g]
               /\ answer'[g] = NoAnswer
    <3>1. job \in UnderWay /\ g \in Handlers /\ g # h
      BY <1>3, <1>6, <2>2, ViewerNames
    <3> QED BY <1>3, <2>2, <3>1 DEF ViewerInv, ViewersCall
  <2> QED BY <2>1, <2>2 DEF ViewersCall
<1>8. \A d \in Clients : Held(d)' => Held(d) /\ HeldToken(d)' = HeldToken(d)
  <2>1. SUFFICES ASSUME NEW d \in Clients, Held(d)'
                 PROVE  Held(d) /\ HeldToken(d)' = HeldToken(d)
    OBVIOUS
  <2>2. CASE d = c
    <3>1. place = "open"
      BY <1>3, <2>1, <2>2 DEF Held
    <3>2. /\ pc[h] = "attach" /\ answer[h].code = "ok"
          /\ token' = [token EXCEPT ![c] = answer[h].value]
      BY <3>1
    <3>3. token'[c] = answer[h].value
      BY <3>2 DEF ViewerInv, Shape
    <3> QED BY <1>3, <2>2, <3>1, <3>2, <3>3 DEF Held, HeldToken
  <2>3. CASE d # c
    <3>1. token'[d] = token[d]
      BY <2>3 DEF ViewerInv, Shape
    <3>2. Viewer(d) \in Handlers /\ Viewer(d) # h
      BY <2>3, ViewerNames DEF Viewers
    <3>3. pc'[Viewer(d)] = pc[Viewer(d)] /\ answer'[Viewer(d)] = answer[Viewer(d)]
      BY <1>3, <3>2
    <3> QED BY <2>1, <3>1, <3>3 DEF Held, HeldToken
  <2> QED BY <2>2, <2>3
<1>9. \A job \in UnderWay' : job.kind = "detach" => job \in UnderWay
  BY <1>3
<1> QED BY <1>2, <1>5, <1>7, <1>8, <1>9, LessHeld

\* A stream that ends gives its token back, and nobody else holds that token.
LEMMA ViewerCloseKeeps ==
    ASSUME ViewerInv, NEW c \in Clients, ViewerClose(c)
    PROVE  ViewerInv'
<1> DEFINE h == Viewer(c)
           leave == Job(h, "detach", token[c])
<1>1. h \in Viewers /\ h \in Handlers
  BY ViewerNames DEF Viewers
<1>2. /\ Shape /\ token' = token /\ token \in [Clients -> Nat] /\ pc[h] = "open"
      /\ Call(h, "detach", "detach", token[c])
  BY DEF ViewerInv, Shape, ViewerClose, At
<1>3. /\ Shape' /\ UnderWay' = UnderWay \cup {leave}
      /\ pc'[h] = "detach" /\ answer'[h] = NoAnswer
      /\ \A g \in Handlers : g # h => pc'[g] = pc[g] /\ answer'[g] = answer[g]
      /\ \A g : g # h /\ OneRequest(g) => OneRequest(g)'
  BY <1>1, <1>2, SentShape
<1>4. OneRequest(h)'
  <2>1. wire' = wire \cup {leave} /\ queue' = queue
    BY <1>2 DEF Call, Send
  <2>2. \A job \in UnderWay : job.from # h
    BY <1>2, AnsweredViewer
  <2> QED BY <1>2, <2>1, <2>2, FirstRequest
<1>5. srv' = srv
  BY <1>2 DEF Call, Send
<1>6. leave.from = h /\ leave.kind = "detach" /\ leave.arg = token[c]
  BY DEF Job
<1>7. /\ token[c] \in 1..(srv.nextId - 1)
      /\ \A d \in Clients : d # c /\ Held(d) => HeldToken(d) # token[c]
  <2>1. Held(c) /\ HeldToken(c) = token[c]
    BY <1>2 DEF Held, HeldToken
  <2> QED BY <2>1 DEF ViewerInv, TokensHeld
<1> HIDE DEF h, leave
<1>8. ViewersCall'
  <2>1. \A g \in Viewers : OneRequest(g)'
    BY <1>3, <1>4 DEF ViewerInv, ViewersCall
  <2>2. ASSUME NEW g \in Viewers, NEW job \in UnderWay', job.from = g
        PROVE  /\ pc'[g] \in {"exists", "attach", "detach"} /\ job.kind = pc'[g]
               /\ answer'[g] = NoAnswer
    <3>1. CASE g = h
      <4>1. job = leave
        BY <1>2, <1>3, <2>2, <3>1, AnsweredViewer DEF h
      <4> QED BY <1>3, <1>6, <3>1, <4>1
    <3>2. CASE g # h
      <4>1. job \in UnderWay /\ g \in Handlers
        BY <1>3, <1>6, <2>2, <3>2, ViewerNames
      <4> QED BY <1>3, <2>2, <3>2, <4>1 DEF ViewerInv, ViewersCall
    <3> QED BY <3>1, <3>2
  <2> QED BY <2>1, <2>2 DEF ViewersCall
<1>9. \A d \in Clients : Held(d)' => d # c /\ Held(d) /\ HeldToken(d)' = HeldToken(d)
  <2>1. SUFFICES ASSUME NEW d \in Clients, Held(d)'
                 PROVE  d # c /\ Held(d) /\ HeldToken(d)' = HeldToken(d)
    OBVIOUS
  <2>2. Viewer(d) # h
    BY <1>3, <2>1 DEF Held
  <2>3. Viewer(d) \in Handlers
    BY ViewerNames DEF Viewers
  <2> QED BY <1>2, <1>3, <2>1, <2>2, <2>3 DEF Held, HeldToken, h
<1>10. TokensHeld'
  <2>1. SUFFICES ASSUME NEW d \in Clients, Held(d)'
                 PROVE  /\ HeldToken(d)' \in 1..(srv'.nextId - 1)
                        /\ srv'.exists => srv'.viewer = HeldToken(d)'
                        /\ \A job \in UnderWay' : job.kind = "detach" => job.arg # HeldToken(d)'
                        /\ \A e \in Clients : e # d /\ Held(e)' => HeldToken(e)' # HeldToken(d)'
    BY DEF TokensHeld
  <2>2. d # c /\ Held(d) /\ HeldToken(d)' = HeldToken(d)
    BY <1>9, <2>1
  <2>3. /\ HeldToken(d) \in 1..(srv.nextId - 1)
        /\ srv.exists => srv.viewer = HeldToken(d)
        /\ \A job \in UnderWay : job.kind = "detach" => job.arg # HeldToken(d)
        /\ \A e \in Clients : e # d /\ Held(e) => HeldToken(e) # HeldToken(d)
    BY <2>2 DEF ViewerInv, TokensHeld
  <2>4. \A job \in UnderWay' : job.kind = "detach" => job.arg # HeldToken(d)
    BY <1>3, <1>6, <1>7, <2>2, <2>3
  <2> QED BY <1>5, <1>9, <2>2, <2>3, <2>4
<1>11. DetachesKnown'
  <2>1. token[c] \in 0..(srv.nextId - 1)
    BY <1>2, <1>7 DEF Shape
  <2> QED BY <1>3, <1>5, <1>6, <2>1 DEF ViewerInv, DetachesKnown
<1> QED BY <1>3, <1>8, <1>10, <1>11 DEF ViewerInv

\* Every step of a viewer stream.
LEMMA ViewerKeeps ==
    ASSUME ViewerInv, NEW c \in Clients,
           ViewerConnect(c) \/ ViewerClose(c) \/ ViewerStep(c)
    PROVE  ViewerInv'
<1> DEFINE h == Viewer(c)
<1>1. CASE ViewerConnect(c)
  <2>1. Call(h, "exists", "exists", 0) /\ token' = token /\ pc[h] = "idle"
    BY <1>1 DEF ViewerConnect, At
  <2>2. \A job \in UnderWay : job.from # h
    BY <2>1, AnsweredViewer
  <2> QED BY <2>1, <2>2, ViewerCalls
<1>2. CASE ViewerFound(c)
  <2>1. token' = token /\ answer[h] # NoAnswer
    BY <1>2 DEF ViewerFound, Done
  <2>2. CASE Call(h, "attach", "attach", 0)
    <3>1. \A job \in UnderWay : job.from # h
      BY <2>1, AnsweredViewer
    <3> QED BY <2>1, <2>2, <3>1, ViewerCalls
  <2>3. CASE GoTo(h, "idle")
    BY <2>1, <2>3, ViewerGoesOn
  <2> QED BY <1>2, <2>2, <2>3 DEF ViewerFound
<1>3. CASE ViewerOpen(c)
  <2>1. pc[h] = "attach" /\ answer[h] # NoAnswer
    BY <1>3 DEF ViewerOpen, Done
  <2>2. CASE /\ answer[h].code = "ok" /\ token' = [token EXCEPT ![c] = answer[h].value]
             /\ GoTo(h, "open")
    BY <2>1, <2>2, ViewerGoesOn
  <2>3. CASE GoTo(h, "idle") /\ token' = token
    BY <2>1, <2>3, ViewerGoesOn
  <2> QED BY <1>3, <2>2, <2>3 DEF ViewerOpen, Ok
<1>4. CASE ViewerClosed(c)
  <2>1. GoTo(h, "idle") /\ token' = token /\ answer[h] # NoAnswer
    BY <1>4 DEF ViewerClosed, Done
  <2> QED BY <2>1, ViewerGoesOn
<1>5. CASE ViewerClose(c)
  BY <1>5, ViewerCloseKeeps
<1> QED BY <1>1, <1>2, <1>3, <1>4, <1>5 DEF ViewerStep

-----------------------------------------------------------------------------
(* The other handlers.                                                      *)

\* Requests of a client.
LEMMA RequestKeeps ==
    ASSUME ViewerInv, NEW c \in Clients, RequestSent(c) \/ RequestStep(c)
    PROVE  ViewerInv'
<1>1. Request(c) \in Handlers \ Viewers
  BY ViewerNames
<1>2. token' = token
  BY DEF RequestSent, RequestStep, RequestChecked, DeleteChecked, DeleteSent, RequestDone,
         requestKept
<1>3. ASSUME NEW place, GoTo(Request(c), place) PROVE ViewerInv'
  BY <1>1, <1>2, <1>3, OthersGoOn
<1>4. ASSUME NEW place, NEW kind, NEW arg, kind # "detach", Call(Request(c), place, kind, arg)
      PROVE  ViewerInv'
  BY <1>1, <1>2, <1>4, OthersCall
<1>5. CASE RequestSent(c)
  BY <1>4, <1>5 DEF RequestSent
<1>6. CASE RequestChecked(c)
  BY <1>3, <1>4, <1>6 DEF RequestChecked
<1>7. CASE DeleteChecked(c)
  BY <1>3, <1>7 DEF DeleteChecked
<1>8. CASE DeleteSent(c)
  BY <1>4, <1>8 DEF DeleteSent
<1>9. CASE RequestDone(c)
  BY <1>3, <1>9 DEF RequestDone
<1> QED BY <1>5, <1>6, <1>7, <1>8, <1>9 DEF RequestStep

\* The status and the log stream.
LEMMA ReadersKeep ==
    ASSUME ViewerInv, (\E h \in Handlers : ReaderConnect(h)) \/ StatusStep \/ LogStep
    PROVE  ViewerInv'
<1>1. StatusReader \in Handlers \ Viewers /\ LogReader \in Handlers \ Viewers
  BY ViewerNames
<1>2. token' = token
  BY DEF ReaderConnect, StatusStep, LogStep, StatusChecked, StatusPolled, StatusAgain,
         LogChecked, LogBegin, LogPolled, LogAgain, readerKept
<1>3. ASSUME NEW h \in {StatusReader, LogReader}, NEW place, GoTo(h, place) PROVE ViewerInv'
  BY <1>1, <1>2, <1>3, OthersGoOn
<1>4. ASSUME NEW h \in {StatusReader, LogReader}, NEW place, NEW kind, NEW arg,
             kind # "detach", Call(h, place, kind, arg)
      PROVE  ViewerInv'
  BY <1>1, <1>2, <1>4, OthersCall
<1>5. ASSUME NEW h \in Handlers, ReaderConnect(h) PROVE ViewerInv'
  BY <1>4, <1>5 DEF ReaderConnect
<1>6. CASE StatusStep
  BY <1>3, <1>4, <1>6 DEF StatusStep, StatusChecked, StatusPolled, StatusAgain
<1>7. CASE LogStep
  <2>1. CASE LogChecked
    BY <1>3, <1>4, <2>1 DEF LogChecked
  <2>2. CASE LogBegin
    BY <1>3, <1>4, <2>2 DEF LogBegin
  <2>3. CASE LogPolled
    <3> DEFINE lines == answer[LogReader].value
               next == IF lines = <<>> THEN after ELSE Last(lines)
    <3>1. Call(LogReader, "poll", "logs", next) \/ GoTo(LogReader, "idle")
      BY <2>3 DEF LogPolled
    <3> HIDE DEF next
    <3> QED BY <1>3, <1>4, <3>1
  <2>4. CASE LogAgain
    BY <1>4, <2>4 DEF LogAgain
  <2> QED BY <1>7, <2>1, <2>2, <2>3, <2>4 DEF LogStep
<1> QED BY <1>5, <1>6, <1>7

\* POST and DELETE of the GDB slot.
LEMMA AttachKeeps ==
    ASSUME ViewerInv, AttachSent \/ DetachSent \/ AttachStep
    PROVE  ViewerInv'
<1>1. Attach \in Handlers \ Viewers /\ Detach \in Handlers \ Viewers
  BY ViewerNames
<1>2. token' = token
  BY DEF AttachSent, DetachSent, AttachStep, AttachListens, AttachStops, AttachClears, AttachDone,
         DetachCloses, DetachClears, gdbKept
<1>3. ASSUME NEW h \in {Attach, Detach}, NEW place, GoTo(h, place) PROVE ViewerInv'
  BY <1>1, <1>2, <1>3, OthersGoOn
<1>4. ASSUME NEW h \in {Attach, Detach}, NEW place, NEW kind, NEW arg,
             kind # "detach", Call(h, place, kind, arg)
      PROVE  ViewerInv'
  BY <1>1, <1>2, <1>4, OthersCall
<1>5. CASE AttachSent \/ DetachSent
  BY <1>4, <1>5 DEF AttachSent, DetachSent
<1>6. CASE AttachListens \/ AttachStops \/ AttachClears
  BY <1>3, <1>4, <1>6 DEF AttachListens, AttachStops, AttachClears
<1>7. CASE AttachDone \/ DetachCloses \/ DetachClears
  BY <1>3, <1>4, <1>7 DEF AttachDone, DetachCloses, DetachClears
<1> QED BY <1>5, <1>6, <1>7 DEF AttachStep

\* The thread that serves a GDB client.
LEMMA GdbKeeps ==
    ASSUME ViewerInv,
           GdbConnect \/ GdbSetBreak \/ GdbLook \/ GdbResume \/ GdbWaited \/ GdbGoesOn \/ GdbLeave
    PROVE  ViewerInv'
<1>1. Gdb \in Handlers \ Viewers
  BY ViewerNames
<1>2. token' = token
  BY DEF GdbConnect, GdbSetBreak, GdbLook, GdbResume, GdbWaited, GdbGoesOn, GdbLeave, GdbReady,
         GdbResumed, GdbBefore, GdbMoved, GdbHalted, GdbLeft, GdbJoined, threadKept, gdbKept
<1>3. ASSUME NEW place, GoTo(Gdb, place) PROVE ViewerInv'
  BY <1>1, <1>2, <1>3, OthersGoOn
<1>4. ASSUME NEW place, NEW kind, NEW arg, kind # "detach", Call(Gdb, place, kind, arg)
      PROVE  ViewerInv'
  BY <1>1, <1>2, <1>4, OthersCall
<1>5. CASE GdbConnect \/ GdbSetBreak \/ GdbLook \/ GdbResume
  BY <1>4, <1>5 DEF GdbConnect, GdbSetBreak, GdbLook, GdbResume
<1>6. CASE GdbWaited \/ GdbReady \/ GdbResumed \/ GdbBefore
  BY <1>3, <1>4, <1>6 DEF GdbWaited, GdbReady, GdbResumed, GdbBefore
<1>7. CASE GdbMoved \/ GdbHalted \/ GdbLeft \/ GdbLeave
  BY <1>3, <1>4, <1>7 DEF GdbMoved, GdbHalted, GdbLeft, GdbLeave
<1>8. CASE GdbJoined
  <2>1. UNCHANGED <<wire, queue, answer, srv, pc>>
    BY <1>8 DEF GdbJoined, serverVars
  <2> QED BY <1>2, <2>1, NobodyCalls
<1> QED BY <1>5, <1>6, <1>7, <1>8 DEF GdbGoesOn

-----------------------------------------------------------------------------
(* The invariant and the theorem.                                           *)

LEMMA InitViewer == Init => ViewerInv
<1> SUFFICES ASSUME Init PROVE ViewerInv
  OBVIOUS
<1>1. /\ wire = {} /\ queue = <<>> /\ UnderWay = {}
      /\ DOMAIN answer = Handlers /\ DOMAIN pc = Handlers
      /\ \A h \in Handlers : pc[h] = "idle"
  BY DEF Init, ServerInit, UnderWay, ToSet
<1>2. /\ DOMAIN srv = {"exists", "child", "status", "viewer", "nextId", "logs", "nextSeq"}
      /\ srv.nextId \in Nat /\ srv.viewer \in 0..(srv.nextId - 1)
  BY DEF Init, ServerInit, NoToken
<1>3. token \in [Clients -> Nat]
  BY DEF Init, NoToken
<1>4. queue \in Seq({})
  BY <1>1
<1>5. Shape
  BY <1>1, <1>2, <1>3, <1>4 DEF Shape
<1>6. ViewersCall
  BY <1>1 DEF ViewersCall, OneRequest
<1>7. TokensHeld
  BY <1>1, ViewerNames DEF TokensHeld, Held, Viewers
<1>8. DetachesKnown
  BY <1>1 DEF DetachesKnown
<1> QED BY <1>5, <1>6, <1>7, <1>8 DEF ViewerInv

LEMMA NextViewer == ViewerInv /\ [Next]_vars => ViewerInv'
<1> SUFFICES ASSUME ViewerInv, [Next]_vars PROVE ViewerInv'
  OBVIOUS
<1>1. CASE UNCHANGED vars
  <2>1. UNCHANGED <<wire, queue, answer, srv, pc, token>>
    BY <1>1 DEF vars, serverVars, sessionVars
  <2> QED BY <2>1, NobodyCalls
<1>2. CASE ServerStep
  BY <1>2, ServerKeeps
<1>3. CASE Outside
  BY <1>3, ViewerKeeps, RequestKeeps, ReadersKeep, GiveUpKeeps, AttachKeeps, GdbKeeps DEF Outside
<1>4. CASE StatusStep \/ LogStep
  BY <1>4, ReadersKeep
<1>5. CASE AttachStep
  BY <1>5, AttachKeeps
<1>6. CASE GdbGoesOn \/ GdbLeave
  BY <1>6, GdbKeeps
<1>7. CASE \E c \in Clients : ViewerStep(c) \/ RequestStep(c)
  BY <1>7, ViewerKeeps, RequestKeeps
<1> QED BY <1>1, <1>2, <1>3, <1>4, <1>5, <1>6, <1>7 DEF Next

\* The viewer stream that is open holds the simulation under its own token: of all
\* clients, at most one stream is open on it, although attaches whose client went away
\* are still granted and detaches arrive late (viewer_sse and ViewerGuard in http.rs,
\* JobKind::ViewerAttach and ViewerDetach in server.rs).
THEOREM OpenStreamHolds == Spec => []StreamHoldsViewer
<1>1. ViewerInv => StreamHoldsViewer
  BY DEF ViewerInv, TokensHeld, StreamHoldsViewer, Held, HeldToken, At
<1> QED BY <1>1, InitViewer, NextViewer, PTL DEF Spec


-----------------------------------------------------------------------------
(* The lines of the log.  Each step of the worker that takes lines in, and     *)
(* each answer to the log stream, in terms of the numbers of the lines.        *)

\* The server's window: consecutive lines, up to the last one numbered.
WindowInOrder ==
    /\ srv.nextSeq \in Nat \ {0} /\ inbox \in Nat
    /\ srv.logs \in Seq(Nat) /\ Len(srv.logs) < srv.nextSeq
    /\ \A i \in DOMAIN srv.logs : srv.logs[i] = srv.nextSeq - 1 - Len(srv.logs) + i

\* Lines that continue after `last`: in order, each once, and what they leave out is
\* not in the window any more.
Fetched(lines, last) ==
    /\ lines \in Seq(Nat)
    /\ \A i \in DOMAIN lines : lines[i] > (IF i = 1 THEN last ELSE lines[i - 1])
    /\ \A i \in DOMAIN lines : lines[i] > last /\ lines[i] < srv.nextSeq
                               /\ lines[i] <= lines[Len(lines)]
    /\ lines # <<>> => \A seq \in (last + 1)..Last(lines) :
                          seq \in ToSet(lines) \/ seq \notin ToSet(srv.logs)

\* The log stream waits for the one request it has under way; a poll asks for what
\* follows the line it has reached.
ReaderCalls ==
    /\ \A job \in UnderWay : job.from = LogReader =>
          /\ answer[LogReader] = NoAnswer
          /\ \/ pc[LogReader] = "check" /\ job.kind = "check"
             \/ pc[LogReader] = "begin" /\ job.kind = "highwater"
             \/ pc[LogReader] = "poll" /\ job.kind = "logs" /\ job.arg = after
    /\ OneRequest(LogReader)

\* What the stream has received, and what it has left out.
HeardInOrder ==
    /\ since \in Nat /\ after \in Nat /\ since <= after /\ after < srv.nextSeq
    /\ heard \in Seq(Nat)
    /\ pc[LogReader] \in {"check", "begin"} => heard = <<>>
    /\ \A i \in DOMAIN heard :
          heard[i] > (IF i = 1 THEN since ELSE heard[i - 1]) /\ heard[i] <= after
    /\ \A seq \in (since + 1)..after : seq \in ToSet(heard) \/ seq \notin ToSet(srv.logs)

\* Answers the stream has not looked at yet.
AnswersFit ==
    answer[LogReader].code = "ok" =>
        /\ pc[LogReader] = "begin" =>
              answer[LogReader].value \in Nat /\ answer[LogReader].value < srv.nextSeq
        /\ pc[LogReader] = "poll" => Fetched(answer[LogReader].value, after)

LogInv == WindowInOrder /\ ReaderCalls /\ HeardInOrder /\ AnswersFit

\* A window in order ends with the lines after any line.
LEMMA LinesAfterFetched ==
    ASSUME WindowInOrder, NEW last \in Nat
    PROVE  Fetched(LinesAfter(srv.logs, last), last)
<1> DEFINE logs == srv.logs
           n == Len(logs)
           base == srv.nextSeq - 1 - n
           k == IF last <= base THEN 0 ELSE IF last - base < n THEN last - base ELSE n
           lines == LinesAfter(logs, last)
<1>1. /\ logs \in Seq(Nat) /\ n \in Nat /\ base \in Nat /\ DOMAIN logs = 1..n
      /\ \A i \in 1..n : logs[i] = base + i
      /\ srv.nextSeq = base + n + 1
  BY DEF WindowInOrder
<1> HIDE DEF logs, n, base
<1>2. k \in 0..n /\ \A i \in 1..n : base + i <= last <=> i <= k
  <2>1. n \in Nat /\ base \in Nat /\ last \in Nat
    BY <1>1
  <2> QED BY ONLY <2>1
<1>3. {i \in DOMAIN logs : logs[i] <= last} = 1..k
  <2> HIDE DEF k
  <2>1. \A i \in DOMAIN logs : logs[i] <= last <=> i <= k
    BY <1>1, <1>2
  <2>2. DOMAIN logs = 1..n /\ 1..k \subseteq 1..n /\ \A i \in 1..n : i <= k <=> i \in 1..k
    BY <1>1, <1>2
  <2>3. ASSUME NEW i \in DOMAIN logs, logs[i] <= last PROVE i \in 1..k
    BY ONLY <2>1, <2>2, <2>3
  <2>4. ASSUME NEW i \in 1..k PROVE i \in DOMAIN logs /\ logs[i] <= last
    <3>1. i \in DOMAIN logs
      BY ONLY <2>2
    <3> QED BY ONLY <2>1, <2>2, <3>1
  <2> QED BY ONLY <2>3, <2>4
<1>4. Cardinality(1..k) = k
  <2> HIDE DEF k
  <2>1. k \in Nat
    BY <1>1, <1>2
  <2>2. Cardinality(1..k) = IF 1 > k THEN 0 ELSE k - 1 + 1
    BY ONLY <2>1, FS_Interval
  <2> QED BY ONLY <2>1, <2>2
<1>5. lines = SubSeq(logs, k + 1, n)
  BY <1>3, <1>4 DEF LinesAfter, n
<1>6. /\ lines \in Seq(Nat) /\ Len(lines) = n - k /\ DOMAIN lines = 1..(n - k)
      /\ \A i \in 1..(n - k) : lines[i] = base + k + i
  <2> HIDE DEF k, lines
  <2>1. k + 1 \in Int /\ n \in Int /\ \A i \in (k + 1)..n : logs[i] \in Nat
    BY <1>1, <1>2
  <2>2. /\ lines \in Seq(Nat) /\ Len(lines) = IF k + 1 <= n THEN n - (k + 1) + 1 ELSE 0
        /\ \A i \in 1..(n - (k + 1) + 1) : lines[i] = logs[(k + 1) + i - 1]
    BY <1>5, <2>1, SubSeqProperties
  <2>3. k \in Nat /\ n \in Nat /\ k <= n
    BY <1>1, <1>2
  <2>4. n - (k + 1) + 1 = n - k /\ (IF k + 1 <= n THEN n - (k + 1) + 1 ELSE 0) = n - k
    BY ONLY <2>3
  <2>5. ASSUME NEW i \in 1..(n - k) PROVE lines[i] = base + k + i
    <3>1. (k + 1) + i - 1 = k + i /\ k + i \in 1..n /\ base + (k + i) = base + k + i
      BY ONLY <1>1, <2>3
    <3>2. lines[i] = logs[(k + 1) + i - 1] /\ logs[k + i] = base + (k + i)
      BY <1>1, <2>2, <2>4, <3>1
    <3> QED BY <3>1, <3>2
  <2>6. DOMAIN lines = 1..(n - k)
    BY <2>2, <2>4
  <2> QED BY <2>2, <2>4, <2>5, <2>6
<1>7. n > k => last <= base + k
  <2>1. n \in Nat /\ base \in Nat /\ last \in Nat
    BY <1>1
  <2> QED BY ONLY <2>1
<1> HIDE DEF lines, k
<1>8. ASSUME NEW i \in DOMAIN lines PROVE lines[i] > (IF i = 1 THEN last ELSE lines[i - 1])
  <2>1. i \in 1..(n - k) /\ lines[i] = base + k + i /\ n > k
    BY <1>1, <1>2, <1>6
  <2>2. CASE i = 1
    BY <1>1, <1>2, <1>7, <2>1, <2>2
  <2>3. CASE i # 1
    <3>1. i - 1 \in 1..(n - k)
      BY ONLY <1>1, <1>2, <2>1, <2>3
    <3>2. lines[i - 1] = base + k + (i - 1)
      BY <1>6, <3>1
    <3> QED BY <1>1, <1>2, <2>1, <2>3, <3>2
  <2> QED BY <2>2, <2>3
<1>9. ASSUME NEW i \in DOMAIN lines
      PROVE  lines[i] > last /\ lines[i] < srv.nextSeq /\ lines[i] <= lines[Len(lines)]
  <2>1. i \in 1..(n - k) /\ lines[i] = base + k + i
    BY <1>6
  <2>2. n - k \in 1..(n - k)
    BY <1>1, <1>2, <2>1
  <2>3. lines[Len(lines)] = base + k + (n - k)
    BY <1>6, <2>2
  <2>4. last <= base + k
    BY <1>1, <1>2, <1>7, <2>2
  <2>5. i \in Nat /\ 1 <= i /\ i <= n - k /\ n \in Nat /\ base \in Nat /\ k \in Nat /\ last \in Nat
    BY <1>1, <1>2, <2>1
  <2>6. base + k + i > last /\ base + k + i < base + n + 1 /\ base + k + i <= base + k + (n - k)
    BY ONLY <2>4, <2>5
  <2> QED BY <1>1, <2>1, <2>3, <2>6
<1>10. ASSUME NEW seq \in Nat, seq > last, seq \in ToSet(logs) PROVE seq \in ToSet(lines)
  <2>1. PICK i \in 1..n : seq = base + i
    BY <1>1, <1>10 DEF ToSet
  <2>2. i > k
    BY <1>1, <1>10, <2>1 DEF k
  <2>3. i - k \in 1..(n - k) /\ lines[i - k] = seq
    BY <1>1, <1>2, <1>6, <2>1, <2>2
  <2> QED BY <1>6, <2>3 DEF ToSet
<1> QED BY <1>6, <1>8, <1>9, <1>10 DEF Fetched, logs, lines

\* A window that loses old lines and gains new ones still fits.
LEMMA FetchedStays ==
    ASSUME NEW lines, NEW last \in Nat, Fetched(lines, last),
           srv.nextSeq \in Nat, srv'.nextSeq \in Nat, srv'.nextSeq >= srv.nextSeq,
           \A seq \in ToSet(srv'.logs) : seq < srv.nextSeq => seq \in ToSet(srv.logs)
    PROVE  Fetched(lines, last)'
<1>1. /\ lines \in Seq(Nat)
      /\ \A i \in DOMAIN lines : lines[i] > (IF i = 1 THEN last ELSE lines[i - 1])
      /\ \A i \in DOMAIN lines : lines[i] > last /\ lines[i] < srv.nextSeq
                                 /\ lines[i] <= lines[Len(lines)] /\ lines[i] \in Nat
      /\ lines # <<>> => \A seq \in (last + 1)..Last(lines) :
                            seq \in ToSet(lines) \/ seq \notin ToSet(srv.logs)
  BY DEF Fetched
<1>2. \A i \in DOMAIN lines : lines[i] < srv'.nextSeq
  BY <1>1
<1>3. ASSUME lines # <<>>, NEW seq \in (last + 1)..Last(lines)
      PROVE  seq \in ToSet(lines) \/ seq \notin ToSet(srv'.logs)
  <2>1. Len(lines) \in DOMAIN lines /\ Last(lines) = lines[Len(lines)]
    BY <1>1, <1>3 DEF Last
  <2>2. Last(lines) \in Nat /\ Last(lines) < srv.nextSeq
    BY <1>1, <2>1
  <2>3. seq < srv.nextSeq
    BY <1>3, <2>2
  <2> QED BY <1>1, <1>3, <2>3
<1> QED BY <1>1, <1>2, <1>3 DEF Fetched

\* Lines are numbered on from the last, and only old ones leave the window.
LEMMA AppendedInOrder ==
    ASSUME WindowInOrder, NEW s, NEW n \in Nat, DOMAIN s = DOMAIN srv,
           "logs" \in DOMAIN srv, "nextSeq" \in DOMAIN srv,
           s.logs = srv.logs, s.nextSeq = srv.nextSeq
    PROVE  LET t == AppendLogs(s, n) IN
           /\ t.nextSeq \in Nat \ {0} /\ t.nextSeq >= srv.nextSeq
           /\ t.logs \in Seq(Nat) /\ Len(t.logs) < t.nextSeq
           /\ \A i \in DOMAIN t.logs : t.logs[i] = t.nextSeq - 1 - Len(t.logs) + i
           /\ \A seq \in ToSet(t.logs) : seq < srv.nextSeq => seq \in ToSet(srv.logs)
<1> DEFINE logs == srv.logs
           next == srv.nextSeq
           new == [i \in 1..n |-> next + i - 1]
           all == logs \o new
           cut == IF Len(all) > LogCap THEN Len(all) - LogCap ELSE 0
           kept == SubSeq(all, cut + 1, Len(all))
           t == AppendLogs(s, n)
           base == next - 1 - Len(logs)
<1>1. /\ logs \in Seq(Nat) /\ Len(logs) \in Nat /\ next \in Nat \ {0} /\ base \in Nat
      /\ DOMAIN logs = 1..Len(logs) /\ \A i \in 1..Len(logs) : logs[i] = base + i
      /\ next = base + Len(logs) + 1
  BY DEF WindowInOrder
<1>2. t.logs = kept /\ t.nextSeq = next + n
  BY DEF AppendLogs
<1> HIDE DEF t, logs, next, base
<1>3. new \in Seq(Nat) /\ Len(new) = n /\ \A i \in 1..n : new[i] = base + Len(logs) + i
  BY <1>1
<1> HIDE DEF new
<1>4. /\ all \in Seq(Nat) /\ Len(all) = Len(logs) + n
      /\ \A i \in 1..Len(all) : all[i] = base + i
  <2>1. /\ all \in Seq(Nat) /\ Len(all) = Len(logs) + n
        /\ \A i \in 1..(Len(logs) + n) :
              all[i] = IF i <= Len(logs) THEN logs[i] ELSE new[i - Len(logs)]
    <3>1. logs \in Seq(Nat) /\ new \in Seq(Nat) /\ Len(new) = n
      BY <1>1, <1>3
    <3> QED BY ONLY <3>1, n \in Nat
  <2> HIDE DEF all
  <2>2. ASSUME NEW i \in 1..Len(all) PROVE all[i] = base + i
    <3>0. i \in 1..(Len(logs) + n) /\ Len(logs) \in Nat /\ base \in Nat
      BY <1>1, <2>1
    <3>1. CASE i <= Len(logs)
      <4>1. i \in 1..Len(logs)
        BY <3>0, <3>1
      <4>2. all[i] = logs[i]
        BY <2>1, <3>0, <3>1
      <4> QED BY <1>1, <4>1, <4>2
    <3>2. CASE i > Len(logs)
      <4>1. i - Len(logs) \in 1..n /\ base + Len(logs) + (i - Len(logs)) = base + i
            /\ ~ (i <= Len(logs))
        BY ONLY <3>0, <3>2, n \in Nat
      <4>2. new[i - Len(logs)] = base + Len(logs) + (i - Len(logs))
        BY <1>3, <4>1
      <4>3. all[i] = new[i - Len(logs)]
        BY ONLY <2>1, <3>0, <4>1
      <4> QED BY ONLY <4>1, <4>2, <4>3
    <3> QED BY ONLY <3>0, <3>1, <3>2
  <2> QED BY <2>1, <2>2
<1> HIDE DEF all
<1>5. cut \in 0..Len(all)
  BY <1>1, <1>4, ServerAssumption
<1> HIDE DEF cut
<1>6. /\ kept \in Seq(Nat) /\ Len(kept) = Len(all) - cut
      /\ \A i \in 1..(Len(all) - cut) : kept[i] = base + cut + i
  <2>0. Len(all) \in Nat /\ cut \in Nat /\ cut <= Len(all) /\ base \in Nat
    BY <1>1, <1>4, <1>5
  <2>1. cut + 1 \in Int /\ Len(all) \in Int /\ \A i \in (cut + 1)..Len(all) : all[i] \in Nat
    BY <1>4, <2>0
  <2> HIDE DEF kept
  <2>2. /\ kept \in Seq(Nat)
        /\ Len(kept) = IF cut + 1 <= Len(all) THEN Len(all) - (cut + 1) + 1 ELSE 0
        /\ \A i \in 1..(Len(all) - (cut + 1) + 1) : kept[i] = all[(cut + 1) + i - 1]
    BY <2>1, SubSeqProperties DEF kept
  <2>3. /\ Len(all) - (cut + 1) + 1 = Len(all) - cut
        /\ (IF cut + 1 <= Len(all) THEN Len(all) - (cut + 1) + 1 ELSE 0) = Len(all) - cut
    BY ONLY <2>0
  <2>4. ASSUME NEW i \in 1..(Len(all) - cut) PROVE kept[i] = base + cut + i
    <3>1. /\ (cut + 1) + i - 1 = cut + i /\ cut + i \in 1..Len(all)
          /\ base + (cut + i) = base + cut + i
      BY ONLY <2>0, i \in 1..(Len(all) - cut)
    <3>2. kept[i] = all[(cut + 1) + i - 1] /\ all[cut + i] = base + (cut + i)
      BY <1>4, <2>2, <2>3, <3>1
    <3> QED BY ONLY <3>1, <3>2
  <2> QED BY ONLY <2>2, <2>3, <2>4
<1> HIDE DEF kept
<1>7. DOMAIN kept = 1..(Len(all) - cut)
  BY <1>6
<1>8. ASSUME NEW i \in DOMAIN kept PROVE kept[i] = next + n - 1 - Len(kept) + i
  <2>1. i \in 1..(Len(all) - cut) /\ kept[i] = base + cut + i
    BY <1>6, <1>7
  <2>2. /\ base \in Nat /\ Len(logs) \in Nat /\ cut \in Nat /\ n \in Nat /\ i \in Nat
        /\ next = base + Len(logs) + 1 /\ Len(kept) = Len(logs) + n - cut
    BY <1>1, <1>4, <1>5, <1>6, <2>1
  <2>3. base + cut + i = next + n - 1 - Len(kept) + i
    BY ONLY <2>2
  <2> QED BY ONLY <2>1, <2>3
<1>9. ASSUME NEW seq \in ToSet(kept), seq < next PROVE seq \in ToSet(logs)
  <2>1. PICK i \in 1..(Len(all) - cut) : seq = base + cut + i
    BY <1>6, <1>7 DEF ToSet
  <2>2. cut + i \in 1..Len(logs)
    <3>1. /\ base \in Nat /\ Len(logs) \in Nat /\ cut \in Nat /\ i \in Nat /\ 1 <= i
          /\ next = base + Len(logs) + 1 /\ base + cut + i < next
      BY <1>1, <1>4, <1>5, <1>9, <2>1
    <3> QED BY ONLY <3>1
  <2>3. logs[cut + i] = seq
    BY <1>1, <1>5, <2>1, <2>2
  <2> QED BY <1>1, <2>2, <2>3 DEF ToSet
<1>10. Len(kept) < next + n
  <2>1. /\ base \in Nat /\ Len(logs) \in Nat /\ cut \in Nat /\ n \in Nat /\ cut <= Len(logs) + n
        /\ next = base + Len(logs) + 1 /\ Len(kept) = (Len(logs) + n) - cut
    BY <1>1, <1>4, <1>5, <1>6
  <2> QED BY ONLY <2>1
<1>11. next + n \in Nat \ {0} /\ next + n >= next
  BY <1>1
<1>12. /\ t.nextSeq \in Nat \ {0} /\ t.nextSeq >= next
       /\ t.logs \in Seq(Nat) /\ Len(t.logs) < t.nextSeq
       /\ \A i \in DOMAIN t.logs : t.logs[i] = t.nextSeq - 1 - Len(t.logs) + i
       /\ \A seq \in ToSet(t.logs) : seq < next => seq \in ToSet(logs)
  <2>1. t.logs \in Seq(Nat) /\ Len(t.logs) < t.nextSeq
    BY <1>2, <1>6, <1>10
  <2>2. \A i \in DOMAIN t.logs : t.logs[i] = t.nextSeq - 1 - Len(t.logs) + i
    <3>1. Len(kept) \in Nat /\ next \in Nat /\ DOMAIN kept \subseteq Nat
      BY <1>1, <1>6
    <3>2. \A i \in DOMAIN kept : kept[i] = (next + n) - 1 - Len(kept) + i
      BY <1>8, <3>1
    <3> QED BY <1>2, <3>2
  <2>3. \A seq \in ToSet(t.logs) : seq < next => seq \in ToSet(logs)
    BY <1>2, <1>9
  <2> QED BY <1>2, <1>11, <2>1, <2>2, <2>3
<1> QED BY <1>12 DEF t, logs, next


-----------------------------------------------------------------------------
(* The log stream and everybody else.                                       *)

\* A step that leaves the log stream where it is and gives it no answer.
LEMMA ElsewhereKeeps ==
    ASSUME LogInv, WindowInOrder', UNCHANGED <<heard, since, after>>,
           pc'[LogReader] = pc[LogReader], answer'[LogReader] = answer[LogReader],
           \A job \in UnderWay' : job.from = LogReader => job \in UnderWay,
           OneRequest(LogReader)', srv'.nextSeq >= srv.nextSeq,
           \A seq \in ToSet(srv'.logs) : seq < srv.nextSeq => seq \in ToSet(srv.logs)
    PROVE  LogInv'
<1>1. srv.nextSeq \in Nat /\ srv'.nextSeq \in Nat
  BY DEF LogInv, WindowInOrder
<1>2. ReaderCalls'
  BY DEF LogInv, ReaderCalls
<1>3. HeardInOrder'
  <2>1. since \in Nat /\ after \in Nat /\ since <= after /\ after < srv.nextSeq
    BY DEF LogInv, HeardInOrder
  <2>2. after < srv'.nextSeq
    BY <1>1, <2>1
  <2>3. \A seq \in (since + 1)..after : seq \in ToSet(heard) \/ seq \notin ToSet(srv'.logs)
    <3>1. \A seq \in (since + 1)..after : seq < srv.nextSeq
      BY <1>1, <2>1
    <3> QED BY <3>1 DEF LogInv, HeardInOrder
  <2> QED BY <2>1, <2>2, <2>3 DEF LogInv, HeardInOrder
<1>4. AnswersFit'
  <2>1. SUFFICES ASSUME answer[LogReader].code = "ok"
                 PROVE  /\ pc[LogReader] = "begin" =>
                              /\ answer[LogReader].value \in Nat
                              /\ answer[LogReader].value < srv'.nextSeq
                        /\ pc[LogReader] = "poll" => Fetched(answer[LogReader].value, after)'
    BY DEF AnswersFit
  <2>2. /\ pc[LogReader] = "begin" =>
              answer[LogReader].value \in Nat /\ answer[LogReader].value < srv.nextSeq
        /\ pc[LogReader] = "poll" => Fetched(answer[LogReader].value, after)
    BY <2>1 DEF LogInv, AnswersFit
  <2>3. ASSUME pc[LogReader] = "poll" PROVE Fetched(answer[LogReader].value, after)'
    <3> DEFINE lines == answer[LogReader].value
    <3>1. Fetched(lines, after) /\ after \in Nat
      BY <2>2, <2>3 DEF LogInv, HeardInOrder
    <3>2. lines' = lines
      OBVIOUS
    <3> HIDE DEF lines
    <3>3. Fetched(lines, after)'
      BY <1>1, <3>1, <3>2, FetchedStays
    <3> QED BY <3>3 DEF lines
  <2> QED BY <1>1, <2>2, <2>3
<1> QED BY <1>2, <1>3, <1>4 DEF LogInv

\* The window stays as it is.
LEMMA SameWindow ==
    ASSUME WindowInOrder, srv'.logs = srv.logs, srv'.nextSeq = srv.nextSeq, inbox' \in Nat
    PROVE  /\ WindowInOrder' /\ srv'.nextSeq >= srv.nextSeq
           /\ \A seq \in ToSet(srv'.logs) : seq < srv.nextSeq => seq \in ToSet(srv.logs)
BY DEF WindowInOrder

\* Another handler calls the backend, or goes on.
LEMMA OthersCallLog ==
    ASSUME ViewerInv, LogInv, NEW h \in Handlers \ {LogReader}, NEW place,
           \/ GoTo(h, place)
           \/ \E kind, arg : Call(h, place, kind, arg),
           token' \in [Clients -> Nat], inbox' = inbox, UNCHANGED <<heard, since, after>>
    PROVE  LogInv'
<1>1. LogReader \in Handlers /\ Shape
  BY ViewerNames DEF ViewerInv
<1>2. srv' = srv
  BY DEF GoTo, Call, Send
<1>3. /\ WindowInOrder' /\ srv'.nextSeq >= srv.nextSeq
      /\ \A seq \in ToSet(srv'.logs) : seq < srv.nextSeq => seq \in ToSet(srv.logs)
  BY <1>2, SameWindow DEF LogInv, WindowInOrder
<1>4. OneRequest(LogReader)
  BY DEF LogInv, ReaderCalls
<1>5. /\ pc'[LogReader] = pc[LogReader] /\ answer'[LogReader] = answer[LogReader]
      /\ \A job \in UnderWay' : job.from = LogReader => job \in UnderWay
      /\ OneRequest(LogReader)'
  <2>1. CASE GoTo(h, place)
    <3>1. /\ pc' = [pc EXCEPT ![h] = place] /\ answer' = [answer EXCEPT ![h] = NoAnswer]
          /\ wire' = wire /\ queue' = queue
      BY <2>1 DEF GoTo
    <3>2. UnderWay' = UnderWay /\ OneRequest(LogReader)'
      BY <1>4, <3>1 DEF UnderWay, OneRequest
    <3> QED BY <1>1, <3>1, <3>2 DEF Shape
  <2>2. ASSUME NEW kind, NEW arg, Call(h, place, kind, arg)
        PROVE  /\ pc'[LogReader] = pc[LogReader] /\ answer'[LogReader] = answer[LogReader]
               /\ \A job \in UnderWay' : job.from = LogReader => job \in UnderWay
               /\ OneRequest(LogReader)'
    <3>1. /\ UnderWay' = UnderWay \cup {Job(h, kind, arg)}
          /\ \A g \in Handlers : g # h => pc'[g] = pc[g] /\ answer'[g] = answer[g]
          /\ \A g : g # h /\ OneRequest(g) => OneRequest(g)'
      BY <1>1, <2>2, SentShape
    <3> QED BY <1>1, <1>4, <3>1 DEF Job
  <2> QED BY <2>1, <2>2
<1> QED BY <1>3, <1>5, ElsewhereKeeps

\* An answer of the worker; to the log stream it is what the stream asked for.
LEMMA AnswerFits ==
    ASSUME ViewerInv, LogInv, NEW kind, NEW code, NEW value, Answered(kind, code, value),
           UNCHANGED sessionVars, srv'.logs = srv.logs, srv'.nextSeq = srv.nextSeq,
           kind = "highwater" /\ code = "ok" => value \in Nat /\ value < srv.nextSeq,
           kind = "logs" /\ code = "ok" /\ Arg \in Nat => Fetched(value, Arg)
    PROVE  LogInv'
<1>1. /\ Head(queue) \in UnderWay /\ Head(queue).kind = kind /\ UnderWay' \subseteq UnderWay
      /\ \A h \in Handlers : answer'[h] = IF h = Head(queue).from
            THEN [code |-> code, value |-> value] ELSE answer[h]
      /\ \A h : OneRequest(h) => OneRequest(h)'
      /\ \A h : OneRequest(h) /\ Head(queue).from = h => \A job \in UnderWay' : job.from # h
  BY AnswerEffect
<1>2. UNCHANGED <<pc, heard, since, after>> /\ inbox' = inbox
  BY DEF sessionVars, Answered
<1>3. /\ WindowInOrder' /\ srv'.nextSeq >= srv.nextSeq
      /\ \A seq \in ToSet(srv'.logs) : seq < srv.nextSeq => seq \in ToSet(srv.logs)
  BY <1>2, SameWindow DEF LogInv, WindowInOrder
<1>4. OneRequest(LogReader) /\ OneRequest(LogReader)' /\ LogReader \in Handlers
  BY <1>1, ViewerNames DEF LogInv, ReaderCalls
<1>5. CASE Head(queue).from # LogReader
  <2>1. answer'[LogReader] = answer[LogReader]
    BY <1>1, <1>4, <1>5
  <2> QED BY <1>1, <1>2, <1>3, <1>4, <2>1, ElsewhereKeeps
<1>6. CASE Head(queue).from = LogReader
  <2>1. /\ \/ pc[LogReader] = "check" /\ kind = "check"
           \/ pc[LogReader] = "begin" /\ kind = "highwater"
           \/ pc[LogReader] = "poll" /\ kind = "logs" /\ Arg = after
        /\ answer'[LogReader].code = code /\ answer'[LogReader].value = value
    BY <1>1, <1>4, <1>6 DEF LogInv, ReaderCalls, Arg
  <2>2. ReaderCalls'
    BY <1>1, <1>4, <1>6 DEF ReaderCalls
  <2>3. HeardInOrder'
    BY <1>2 DEF LogInv, HeardInOrder
  <2>4. AnswersFit'
    <3>1. ASSUME pc[LogReader] = "poll", code = "ok"
          PROVE  Fetched(value, after)'
      <4>1. Fetched(value, after)
        BY <2>1, <3>1 DEF LogInv, HeardInOrder
      <4> QED BY <1>2, <4>1 DEF Fetched
    <3>2. pc[LogReader] = "begin" /\ code = "ok" => value \in Nat /\ value < srv'.nextSeq
      BY <2>1
    <3>3. answer'[LogReader].value = value /\ answer'[LogReader].code = code
      BY <2>1
    <3> QED BY <1>2, <3>1, <3>2, <3>3 DEF AnswersFit, Fetched
  <2> QED BY <1>3, <2>2, <2>3, <2>4 DEF LogInv
<1> QED BY <1>5, <1>6

\* Steps of the worker's polls and of the arbiter: lines come in.
LEMMA LinesComeIn ==
    ASSUME LogInv, WindowInOrder', srv'.nextSeq >= srv.nextSeq,
           \A seq \in ToSet(srv'.logs) : seq < srv.nextSeq => seq \in ToSet(srv.logs),
           UNCHANGED <<wire, queue, answer, pc, heard, since, after>>
    PROVE  LogInv'
<1>1. UnderWay' = UnderWay
  BY DEF UnderWay
<1>2. OneRequest(LogReader)'
  BY DEF LogInv, ReaderCalls, OneRequest
<1> QED BY <1>1, <1>2, ElsewhereKeeps


\* Every step of the worker and the arbiter.
LEMMA ServerKeepsLog ==
    ASSUME ViewerInv, LogInv, ServerStep
    PROVE  LogInv'
<1>1. UNCHANGED sessionVars /\ UNCHANGED <<pc, token, heard, since, after>>
  BY DEF ServerStep, sessionVars
<1>2. /\ "logs" \in DOMAIN srv /\ "nextSeq" \in DOMAIN srv /\ WindowInOrder
  BY DEF ViewerInv, Shape, LogInv
<1>3. CASE Delivery
  <2>1. PICK sender : Deliver(sender)
    BY <1>3 DEF Delivery
  <2>2. /\ UnderWay' = UnderWay /\ UNCHANGED <<answer, srv>>
        /\ \A h : OneRequest(h) => OneRequest(h)'
    BY <1>1, <2>1, Delivered DEF ViewerInv
  <2>3. inbox' = inbox
    BY <2>1 DEF Deliver
  <2>4. /\ WindowInOrder' /\ srv'.nextSeq >= srv.nextSeq
        /\ \A seq \in ToSet(srv'.logs) : seq < srv.nextSeq => seq \in ToSet(srv.logs)
    BY <1>2, <2>2, <2>3, SameWindow DEF WindowInOrder
  <2>5. OneRequest(LogReader)'
    BY <2>2 DEF LogInv, ReaderCalls
  <2> QED BY <1>1, <2>2, <2>4, <2>5, ElsewhereKeeps
<1>4. ASSUME NEW kind, NEW code, NEW value, Answered(kind, code, value),
             srv'.logs = srv.logs, srv'.nextSeq = srv.nextSeq,
             code # "ok" \/ kind \notin {"highwater", "logs"}
      PROVE  LogInv'
  BY <1>1, <1>4, AnswerFits
<1>5. ASSUME NEW kind, Missing(kind) PROVE LogInv'
  BY <1>4, <1>5 DEF Missing, Kept
<1>6. CASE Exists \/ ViewerCheck \/ RunCommand \/ GetStatus \/ Inspect \/ InspectFails
  <2>1. srv' = srv
    BY <1>6 DEF Exists, ViewerCheck, RunCommand, GetStatus, Inspect, InspectFails, Kept
  <2>2. CASE Exists
    BY <1>4, <2>1, <2>2 DEF Exists
  <2>3. CASE ViewerCheck
    BY <1>4, <2>1, <2>3 DEF ViewerCheck
  <2>4. CASE RunCommand
    BY <1>4, <2>1, <2>4 DEF RunCommand
  <2>5. CASE GetStatus
    BY <1>4, <2>1, <2>5 DEF GetStatus
  <2>6. CASE Inspect
    BY <1>4, <2>1, <2>6 DEF Inspect
  <2>7. CASE InspectFails
    BY <1>4, <2>1, <2>7 DEF InspectFails
  <2> QED BY <1>6, <2>2, <2>3, <2>4, <2>5, <2>6, <2>7
<1>7. CASE ViewerAttach
  <2>1. srv'.logs = srv.logs /\ srv'.nextSeq = srv.nextSeq
    BY <1>7 DEF ViewerAttach, Kept, ViewerInv, Shape
  <2> QED BY <1>4, <1>7, <2>1 DEF ViewerAttach
<1>8. CASE ViewerDetach
  <2>1. srv'.logs = srv.logs /\ srv'.nextSeq = srv.nextSeq
    BY <1>8 DEF ViewerDetach, ViewerInv, Shape
  <2> QED BY <1>4, <1>8, <2>1 DEF ViewerDetach
<1>9. CASE Delete
  <2>1. srv'.logs = srv.logs /\ srv'.nextSeq = srv.nextSeq
    BY <1>9 DEF Delete, ViewerInv, Shape
  <2> QED BY <1>4, <1>9, <2>1 DEF Delete
<1>10. CASE GetLogs
  <2> DEFINE lines == LinesAfter(srv.logs, Arg)
  <2>1. Answered("logs", "ok", lines) /\ srv' = srv
    BY <1>10 DEF GetLogs, Kept
  <2>2. Arg \in Nat => Fetched(lines, Arg)
    BY <1>2, LinesAfterFetched
  <2> HIDE DEF lines
  <2> QED BY <1>1, <2>1, <2>2, AnswerFits
<1>11. CASE LogHighWater
  <2> DEFINE last == srv.nextSeq - 1
  <2>1. Answered("highwater", "ok", last) /\ srv' = srv
    BY <1>11 DEF LogHighWater, Kept
  <2>2. last \in Nat /\ last < srv.nextSeq
    BY <1>2 DEF WindowInOrder
  <2> HIDE DEF last
  <2> QED BY <1>1, <2>1, <2>2, AnswerFits
<1>12. CASE Drain
  <2> DEFINE s == IF stats = <<>> THEN srv ELSE [srv EXCEPT !.status = ToStatus(Last(stats))]
  <2>1. /\ srv' = AppendLogs(s, inbox) /\ inbox' = 0
        /\ UNCHANGED <<wire, queue, answer>>
    BY <1>12 DEF Drain
  <2>2. DOMAIN s = DOMAIN srv /\ s.logs = srv.logs /\ s.nextSeq = srv.nextSeq
    BY DEF ViewerInv, Shape
  <2> HIDE DEF s
  <2>3. inbox \in Nat
    BY <1>2 DEF WindowInOrder
  <2>4. /\ srv'.nextSeq \in Nat \ {0} /\ srv'.nextSeq >= srv.nextSeq
        /\ srv'.logs \in Seq(Nat) /\ Len(srv'.logs) < srv'.nextSeq
        /\ \A i \in DOMAIN srv'.logs : srv'.logs[i] = srv'.nextSeq - 1 - Len(srv'.logs) + i
        /\ \A seq \in ToSet(srv'.logs) : seq < srv.nextSeq => seq \in ToSet(srv.logs)
    BY <1>2, <2>1, <2>2, <2>3, AppendedInOrder
  <2>5. WindowInOrder'
    BY <2>1, <2>4 DEF WindowInOrder
  <2> QED BY <1>1, <2>1, <2>4, <2>5, LinesComeIn
<1>13. CASE Reap
  <2> DEFINE t == AppendLogs(srv, 1)
  <2>1. UNCHANGED <<wire, queue, answer, inbox>>
    BY <1>13 DEF Reap
  <2>2. CASE srv' = srv
    BY <1>1, <1>2, <2>1, <2>2, SameWindow, LinesComeIn DEF WindowInOrder
  <2>3. CASE srv' = [t EXCEPT !.status.state = "exited", !.child = FALSE]
    <3>1. /\ t.nextSeq \in Nat \ {0} /\ t.nextSeq >= srv.nextSeq
          /\ t.logs \in Seq(Nat) /\ Len(t.logs) < t.nextSeq
          /\ \A i \in DOMAIN t.logs : t.logs[i] = t.nextSeq - 1 - Len(t.logs) + i
          /\ \A seq \in ToSet(t.logs) : seq < srv.nextSeq => seq \in ToSet(srv.logs)
      BY <1>2, AppendedInOrder
    <3>2. DOMAIN t = DOMAIN srv
      BY DEF AppendLogs
    <3> HIDE DEF t
    <3>3. srv'.logs = t.logs /\ srv'.nextSeq = t.nextSeq
      BY <1>2, <2>3, <3>2
    <3>4. inbox' \in Nat
      BY <1>2, <2>1 DEF WindowInOrder
    <3>5. WindowInOrder'
      BY <3>1, <3>3, <3>4 DEF WindowInOrder
    <3> QED BY <1>1, <2>1, <3>1, <3>3, <3>5, LinesComeIn
  <2> QED BY <1>13, <2>2, <2>3 DEF Reap
<1>14. CASE ArbiterStep \/ ArbiterExit
  <2>1. /\ UNCHANGED <<wire, queue, answer, srv>>
        /\ inbox' = inbox \/ inbox' = inbox + 1
    BY <1>14 DEF ArbiterStep, ArbiterCommand, ArbiterAdvance, ArbiterStop, ArbiterReport,
       ArbiterLog, ArbiterExit
  <2>2. inbox' \in Nat
    BY <1>2, <2>1 DEF WindowInOrder
  <2> QED BY <1>1, <1>2, <2>1, <2>2, SameWindow, LinesComeIn
<1> QED BY <1>3, <1>5, <1>6, <1>7, <1>8, <1>9, <1>10, <1>11, <1>12, <1>13, <1>14
        DEF ServerStep, WorkerStep, DispatchJob

-----------------------------------------------------------------------------
(* The log stream itself.                                                   *)

\* The stream sends its next request.
LEMMA ReaderSends ==
    ASSUME ViewerInv, LogInv, NEW place, NEW kind, NEW arg, Call(LogReader, place, kind, arg),
           token' = token, \A job \in UnderWay : job.from # LogReader,
           \/ place = "check" /\ kind = "check"
           \/ place = "begin" /\ kind = "highwater"
           \/ place = "poll" /\ kind = "logs" /\ arg = after',
           pc'[LogReader] = place => HeardInOrder'
    PROVE  LogInv'
<1>1. LogReader \in Handlers /\ Shape /\ token' \in [Clients -> Nat]
  BY ViewerNames DEF ViewerInv, Shape
<1>2. /\ UnderWay' = UnderWay \cup {Job(LogReader, kind, arg)}
      /\ pc'[LogReader] = place /\ answer'[LogReader] = NoAnswer
  BY <1>1, SentShape
<1>3. wire' = wire \cup {Job(LogReader, kind, arg)} /\ queue' = queue /\ srv' = srv
      /\ inbox' = inbox
  BY DEF Call, Send
<1>4. OneRequest(LogReader)'
  BY <1>1, <1>3, FirstRequest
<1>5. ReaderCalls'
  <2>1. Job(LogReader, kind, arg).kind = kind /\ Job(LogReader, kind, arg).arg = arg
    BY DEF Job
  <2>2. \A job \in UnderWay' : job.from = LogReader => job = Job(LogReader, kind, arg)
    BY <1>2
  <2> QED BY <1>2, <1>4, <2>1, <2>2 DEF ReaderCalls
<1>6. AnswersFit'
  BY <1>2 DEF AnswersFit, NoAnswer
<1>7. WindowInOrder'
  BY <1>3 DEF LogInv, WindowInOrder
<1> QED BY <1>2, <1>5, <1>6, <1>7 DEF LogInv

\* The stream ends, or a call of it is given up.
LEMMA ReaderStops ==
    ASSUME LogInv, pc'[LogReader] \in {"idle", "again"}, answer'[LogReader] = NoAnswer,
           \A job \in UnderWay' : job.from # LogReader, OneRequest(LogReader)',
           UNCHANGED <<srv, inbox, heard, since, after>>
    PROVE  LogInv'
<1>1. ReaderCalls'
  BY DEF ReaderCalls
<1>2. HeardInOrder'
  BY DEF LogInv, HeardInOrder
<1>3. AnswersFit'
  BY DEF AnswersFit, NoAnswer
<1>4. WindowInOrder'
  BY DEF LogInv, WindowInOrder
<1> QED BY <1>1, <1>2, <1>3, <1>4 DEF LogInv

\* The stream that is answered, and ends.
LEMMA ReaderEnds ==
    ASSUME ViewerInv, LogInv, GoTo(LogReader, "idle"), UNCHANGED <<heard, since, after>>,
           \A job \in UnderWay : job.from # LogReader
    PROVE  LogInv'
<1>1. LogReader \in Handlers /\ Shape
  BY ViewerNames DEF ViewerInv
<1>2. /\ pc' = [pc EXCEPT ![LogReader] = "idle"]
      /\ answer' = [answer EXCEPT ![LogReader] = NoAnswer]
      /\ UNCHANGED <<wire, queue, srv, inbox>>
  BY DEF GoTo
<1>3. UnderWay' = UnderWay /\ pc'[LogReader] = "idle" /\ answer'[LogReader] = NoAnswer
  BY <1>1, <1>2 DEF Shape, UnderWay
<1>4. OneRequest(LogReader)'
  BY <1>2 DEF LogInv, ReaderCalls, OneRequest
<1> QED BY <1>2, <1>3, <1>4, ReaderStops

\* The first n numbers of s rise from above `low` to `high` at most.
Rising(s, n, low, high) ==
    \A i \in 1..n : /\ s[i] \in Nat /\ s[i] <= high
                     /\ s[i] > (IF i = 1 THEN low ELSE s[i - 1])

\* u holds the first n elements of s, and then the first m of t.
Together(u, s, n, t, m) ==
    /\ \A i \in 1..n : u[i] = s[i]
    /\ \A j \in 1..m : u[n + j] = t[j]

\* A rising run of numbers, and one that rises from above its end, make one rising run.
LEMMA RunsJoin ==
    ASSUME NEW n \in Nat, NEW m \in Nat, NEW low \in Nat, NEW mid \in Nat, NEW high \in Nat,
           NEW s, NEW t, NEW u, low <= mid, mid <= high,
           Rising(s, n, low, mid), Rising(t, m, mid, high), Together(u, s, n, t, m)
    PROVE  Rising(u, n + m, low, high)
<1> SUFFICES ASSUME NEW i \in 1..(n + m)
             PROVE  u[i] \in Nat /\ u[i] <= high /\ u[i] > (IF i = 1 THEN low ELSE u[i - 1])
  BY DEF Rising
<1> USE DEF Rising, Together
<1>1. CASE i \in 1..n
  <2>1. s[i] \in Nat /\ s[i] <= mid /\ s[i] > (IF i = 1 THEN low ELSE s[i - 1]) /\ u[i] = s[i]
    BY <1>1
  <2>2. s[i] <= high
    BY ONLY <2>1, mid <= high, mid \in Nat, high \in Nat
  <2>3. CASE i = 1
    BY ONLY <2>1, <2>2, <2>3
  <2>4. CASE i # 1
    <3>1. i - 1 \in 1..n
      BY ONLY <1>1, <2>4, n \in Nat
    <3>2. u[i - 1] = s[i - 1]
      BY <3>1
    <3> QED BY ONLY <2>1, <2>2, <2>4, <3>2
  <2> QED BY ONLY <2>3, <2>4
<1>2. CASE i \notin 1..n
  <2>1. PICK j \in 1..m : i = n + j
    <3>1. i - n \in 1..m /\ i = n + (i - n)
      BY ONLY <1>2, n \in Nat, m \in Nat, i \in 1..(n + m)
    <3> QED BY ONLY <3>1
  <2>2. t[j] \in Nat /\ t[j] <= high /\ t[j] > (IF j = 1 THEN mid ELSE t[j - 1])
    OBVIOUS
  <2>3. u[i] = t[j]
    BY <2>1
  <2>4. CASE j = 1
    <3>1. t[j] > mid
      BY ONLY <2>2, <2>4
    <3>2. CASE i = 1
      <4>1. t[j] > low
        BY ONLY <2>2, <3>1, low <= mid, low \in Nat, mid \in Nat
      <4> QED BY ONLY <2>2, <2>3, <3>2, <4>1
    <3>3. CASE i # 1
      <4>1. i - 1 = n /\ n \in 1..n
        BY ONLY <2>1, <2>4, <3>3, n \in Nat
      <4>2. s[n] \in Nat /\ s[n] <= mid /\ u[n] = s[n]
        BY <4>1
      <4>3. t[j] > u[i - 1]
        <5>1. t[j] > s[n]
          BY ONLY <2>2, <3>1, <4>2, mid \in Nat
        <5> QED BY ONLY <4>1, <4>2, <5>1
      <4> QED BY ONLY <2>2, <2>3, <3>3, <4>3
    <3> QED BY ONLY <3>2, <3>3
  <2>5. CASE j # 1
    <3>1. j - 1 \in 1..m /\ i - 1 = n + (j - 1) /\ i # 1
      BY ONLY <2>1, <2>5, n \in Nat, m \in Nat, j \in 1..m
    <3>2. u[n + (j - 1)] = t[j - 1]
      BY <3>1
    <3>3. t[j] > t[j - 1]
      BY ONLY <2>2, <2>5
    <3> QED BY ONLY <2>2, <2>3, <3>1, <3>2, <3>3
  <2> QED BY ONLY <2>4, <2>5
<1> QED BY ONLY <1>1, <1>2

\* What a sequence of numbers is made of when another is appended to it.
LEMMA Joined ==
    ASSUME NEW s \in Seq(Nat), NEW t \in Seq(Nat)
    PROVE  /\ s \o t \in Seq(Nat) /\ Len(s \o t) = Len(s) + Len(t)
           /\ \A i \in 1..Len(s) : (s \o t)[i] = s[i]
           /\ \A j \in 1..Len(t) : (s \o t)[Len(s) + j] = t[j]
           /\ ToSet(s \o t) = ToSet(s) \cup ToSet(t)
<1>1. s \o t \in Seq(Nat) /\ Len(s \o t) = Len(s) + Len(t)
  OBVIOUS
<1>2. \A i \in 1..Len(s) : (s \o t)[i] = s[i]
  OBVIOUS
<1>3. \A j \in 1..Len(t) : (s \o t)[Len(s) + j] = t[j]
  OBVIOUS
<1> DEFINE u == s \o t
           n == Len(s)
           m == Len(t)
<1>4. /\ DOMAIN s = 1..n /\ DOMAIN t = 1..m /\ DOMAIN u = 1..(n + m)
      /\ n \in Nat /\ m \in Nat
  BY <1>1
<1>5. /\ \A i \in 1..n : u[i] = s[i]
      /\ \A j \in 1..m : u[n + j] = t[j]
  BY <1>2, <1>3
<1> HIDE DEF u, n, m
<1>6. ToSet(u) = ToSet(s) \cup ToSet(t)
  <2>1. ASSUME NEW i \in 1..n PROVE s[i] \in ToSet(u)
    <3>1. i \in 1..(n + m)
      BY ONLY <1>4, i \in 1..n
    <3> QED BY <1>4, <1>5, <3>1 DEF ToSet
  <2>2. ASSUME NEW j \in 1..m PROVE t[j] \in ToSet(u)
    <3>1. n + j \in 1..(n + m)
      BY ONLY <1>4, j \in 1..m
    <3>2. u[n + j] = t[j]
      BY ONLY <1>5, j \in 1..m
    <3> QED BY ONLY <1>4, <3>1, <3>2 DEF ToSet
  <2>3. ASSUME NEW i \in 1..(n + m) PROVE u[i] \in ToSet(s) \cup ToSet(t)
    <3>1. CASE i \in 1..n
      BY ONLY <1>4, <1>5, <3>1 DEF ToSet
    <3>2. CASE i \notin 1..n
      <4>1. i - n \in 1..m /\ n + (i - n) = i
        BY ONLY <1>4, <3>2, i \in 1..(n + m)
      <4>2. u[i] = t[i - n]
        BY ONLY <1>5, <4>1
      <4> QED BY ONLY <1>4, <4>1, <4>2 DEF ToSet
    <3> QED BY ONLY <3>1, <3>2
  <2> QED BY ONLY <1>4, <2>1, <2>2, <2>3 DEF ToSet
<1> QED BY <1>1, <1>2, <1>3, <1>6 DEF u

\* Lines that continue what was heard.
LEMMA HeardGoesOn ==
    ASSUME LogInv, pc[LogReader] = "poll", pc'[LogReader] = "poll", srv' = srv, since' = since,
           NEW lines, Fetched(lines, after), heard' = heard \o lines,
           after' = IF lines = <<>> THEN after ELSE Last(lines)
    PROVE  HeardInOrder'
<1>1. /\ since \in Nat /\ after \in Nat /\ since <= after /\ after < srv.nextSeq
      /\ heard \in Seq(Nat) /\ srv.nextSeq \in Nat
      /\ \A i \in DOMAIN heard :
            heard[i] > (IF i = 1 THEN since ELSE heard[i - 1]) /\ heard[i] <= after
      /\ \A seq \in (since + 1)..after : seq \in ToSet(heard) \/ seq \notin ToSet(srv.logs)
  BY DEF LogInv, HeardInOrder, WindowInOrder
<1>2. CASE lines = <<>>
  <2>1. heard' = heard /\ after' = after
    BY <1>1, <1>2
  <2> QED BY <1>1, <2>1 DEF HeardInOrder
<1>3. CASE lines # <<>>
  <2> DEFINE n == Len(heard)
             m == Len(lines)
             next == lines[m]
  <2>1. lines \in Seq(Nat)
    BY DEF Fetched
  <2>2. /\ n \in Nat /\ m \in Nat /\ m \in 1..m /\ DOMAIN lines = 1..m /\ DOMAIN heard = 1..n
        /\ DOMAIN (heard \o lines) = 1..(n + m)
    BY ONLY <1>1, <1>3, <2>1
  <2>3. /\ heard \o lines \in Seq(Nat)
        /\ \A i \in 1..n : (heard \o lines)[i] = heard[i]
        /\ \A j \in 1..m : (heard \o lines)[n + j] = lines[j]
        /\ ToSet(heard \o lines) = ToSet(heard) \cup ToSet(lines)
    BY ONLY <1>1, <2>1, Joined
  <2>4. after' = next
    BY <1>3 DEF Last
  <2> HIDE DEF n, m, next
  <2>5. \A j \in 1..m : lines[j] \in Nat /\ heard \o lines \in Seq(Nat)
    BY ONLY <2>1, <2>2, <2>3
  <2>6. /\ next \in Nat /\ next > after /\ next < srv.nextSeq
        /\ \A seq \in (after + 1)..next : seq \in ToSet(lines) \/ seq \notin ToSet(srv.logs)
    BY <1>3, <2>2, <2>5 DEF Fetched, next, m, Last
  <2>7. Rising(heard, n, since, after)
    <3>1. \A i \in 1..n : heard[i] \in Nat
      BY ONLY <1>1, <2>2
    <3> QED BY ONLY <1>1, <2>2, <3>1 DEF Rising
  <2>8. Rising(lines, m, after, next)
    <3>1. /\ \A i \in DOMAIN lines : lines[i] > (IF i = 1 THEN after ELSE lines[i - 1])
          /\ \A i \in DOMAIN lines : lines[i] <= lines[m]
      BY DEF Fetched, m
    <3>2. \A j \in 1..m : lines[j] <= next
      BY ONLY <2>2, <3>1 DEF next
    <3> QED BY ONLY <2>2, <2>5, <3>1, <3>2 DEF Rising
  <2>9. \A i \in 1..(n + m) :
           (heard \o lines)[i] <= next
           /\ (heard \o lines)[i] > (IF i = 1 THEN since ELSE (heard \o lines)[i - 1])
    <3>1. Together(heard \o lines, heard, n, lines, m)
      BY ONLY <2>3 DEF Together
    <3>2. after <= next
      BY ONLY <1>1, <2>6
    <3>3. Rising(heard \o lines, n + m, since, next)
      BY ONLY <1>1, <2>2, <2>6, <2>7, <2>8, <3>1, <3>2, RunsJoin
    <3> QED BY ONLY <3>3 DEF Rising
  <2>10. ASSUME NEW seq \in (since + 1)..next
         PROVE  seq \in ToSet(heard \o lines) \/ seq \notin ToSet(srv.logs)
    <3>1. seq \in (since + 1)..after \/ seq \in (after + 1)..next
      BY ONLY <1>1, <2>6, seq \in (since + 1)..next
    <3> QED BY ONLY <1>1, <2>3, <2>6, <3>1
  <2>11. since <= next
    BY ONLY <1>1, <2>6
  <2> QED BY <1>1, <2>2, <2>3, <2>4, <2>6, <2>9, <2>10, <2>11 DEF HeardInOrder
<1> QED BY <1>2, <1>3


\* Every step of the log stream.
LEMMA ReaderKeepsLog ==
    ASSUME ViewerInv, LogInv, LogStep \/ ReaderConnect(LogReader)
    PROVE  LogInv'
<1>1. LogReader \in Handlers /\ Shape /\ DOMAIN pc = Handlers
  BY ViewerNames DEF ViewerInv, Shape
<1>2. token' = token
  BY DEF LogStep, LogChecked, LogBegin, LogPolled, LogAgain, ReaderConnect, readerKept
<1>3. answer[LogReader] # NoAnswer \/ pc[LogReader] \notin {"check", "begin", "poll"}
         => \A job \in UnderWay : job.from # LogReader
  BY DEF LogInv, ReaderCalls
<1>4. ASSUME NEW place, NEW kind, NEW arg, Call(LogReader, place, kind, arg)
      PROVE  pc'[LogReader] = place /\ srv' = srv
  BY <1>1, <1>4 DEF Call, Send
<1>5. HeardInOrder /\ AnswersFit /\ after \in Nat
  BY DEF LogInv, HeardInOrder
<1>6. CASE ReaderConnect(LogReader)
  <2>1. PICK c \in Clients : Call(LogReader, "check", "check", token[c])
    BY <1>6 DEF ReaderConnect
  <2>2. /\ pc[LogReader] = "idle" /\ heard = <<>> /\ UNCHANGED <<after, heard, since>>
    BY <1>6 DEF ReaderConnect, At
  <2>3. HeardInOrder'
    BY <1>4, <1>5, <2>1, <2>2 DEF HeardInOrder
  <2> QED BY <1>2, <1>3, <2>1, <2>2, <2>3, ReaderSends
<1>7. CASE LogChecked
  <2>1. /\ pc[LogReader] = "check" /\ answer[LogReader] # NoAnswer
        /\ UNCHANGED <<after, heard, since>>
    BY <1>7 DEF LogChecked, Done
  <2>2. CASE Call(LogReader, "begin", "highwater", 0)
    <3>1. HeardInOrder'
      BY <1>4, <1>5, <2>1, <2>2 DEF HeardInOrder
    <3> QED BY <1>2, <1>3, <2>1, <2>2, <3>1, ReaderSends
  <2>3. CASE GoTo(LogReader, "idle")
    BY <1>3, <2>1, <2>3, ReaderEnds
  <2> QED BY <1>7, <2>2, <2>3 DEF LogChecked
<1>8. CASE LogBegin
  <2>1. pc[LogReader] = "begin" /\ answer[LogReader] # NoAnswer /\ heard' = heard
    BY <1>8 DEF LogBegin, Done
  <2>2. CASE Ok(LogReader)
    <3> DEFINE value == answer[LogReader].value
    <3>1. /\ after' = value /\ since' = value /\ Call(LogReader, "poll", "logs", value)
      BY <1>8, <2>2 DEF LogBegin
    <3>2. value \in Nat /\ value < srv.nextSeq /\ heard = <<>>
      BY <1>5, <2>1, <2>2 DEF AnswersFit, HeardInOrder, Ok
    <3> HIDE DEF value
    <3>3. HeardInOrder'
      <4>1. heard' = <<>> /\ heard' \in Seq(Nat) /\ DOMAIN heard' = {}
        BY <2>1, <3>2
      <4>2. (value + 1)..value = {} /\ value <= value
        BY <3>2
      <4> QED BY <1>4, <3>1, <3>2, <4>1, <4>2 DEF HeardInOrder
    <3> QED BY <1>2, <1>3, <2>1, <3>1, <3>3, ReaderSends
  <2>3. CASE ~ Ok(LogReader)
    <3>1. GoTo(LogReader, "idle") /\ UNCHANGED <<after, since>>
      BY <1>8, <2>3 DEF LogBegin
    <3> QED BY <1>3, <2>1, <3>1, ReaderEnds
  <2> QED BY <2>2, <2>3
<1>9. CASE LogPolled
  <2> DEFINE lines == answer[LogReader].value
             next == IF lines = <<>> THEN after ELSE Last(lines)
  <2>1. pc[LogReader] = "poll" /\ answer[LogReader] # NoAnswer /\ since' = since
    BY <1>9 DEF LogPolled, Done
  <2>2. CASE Ok(LogReader)
    <3>1. heard' = heard \o lines /\ after' = next /\ Call(LogReader, "poll", "logs", next)
      BY <1>9, <2>2 DEF LogPolled
    <3>2. Fetched(lines, after)
      BY <1>5, <2>1, <2>2 DEF AnswersFit, Ok
    <3> HIDE DEF lines
    <3>3. after' = IF lines = <<>> THEN after ELSE Last(lines)
      BY <3>1
    <3> HIDE DEF next
    <3>4. HeardInOrder'
      BY <1>4, <2>1, <3>1, <3>2, <3>3, HeardGoesOn
    <3> QED BY <1>2, <1>3, <2>1, <3>1, <3>4, ReaderSends
  <2>3. CASE ~ Ok(LogReader)
    <3>1. GoTo(LogReader, "idle") /\ UNCHANGED <<heard, after>>
      BY <1>9, <2>3 DEF LogPolled
    <3> QED BY <1>3, <2>1, <3>1, ReaderEnds
  <2> QED BY <2>2, <2>3
<1>10. CASE LogAgain
  <2>1. /\ pc[LogReader] = "again" /\ Call(LogReader, "poll", "logs", after)
        /\ UNCHANGED <<after, heard, since>>
    BY <1>10 DEF LogAgain, At
  <2>2. HeardInOrder'
    BY <1>4, <1>5, <2>1 DEF HeardInOrder
  <2> QED BY <1>2, <1>3, <2>1, <2>2, ReaderSends
<1> QED BY <1>6, <1>7, <1>8, <1>9, <1>10 DEF LogStep

\* A call that is given up, of the log stream or of another handler.
LEMMA GiveUpKeepsLog ==
    ASSUME ViewerInv, LogInv, NEW h \in Handlers, GiveUp(h)
    PROVE  LogInv'
<1>1. /\ UNCHANGED srv
      /\ pc'[h] \in {"again", "idle"} /\ answer'[h] = NoAnswer
      /\ \A g \in Handlers : g # h => pc'[g] = pc[g] /\ answer'[g] = answer[g]
      /\ \A job \in UnderWay' : job.from \in Handlers => job \in UnderWay /\ job.from # h
      /\ \A g \in Handlers : OneRequest(g) => OneRequest(g)'
  BY GaveUp DEF ViewerInv
<1>2. UNCHANGED <<heard, since, after, inbox>>
  BY DEF GiveUp, Abandon
<1>3. LogReader \in Handlers /\ OneRequest(LogReader)'
  BY <1>1, ViewerNames DEF LogInv, ReaderCalls
<1>4. CASE h = LogReader
  BY <1>1, <1>2, <1>3, <1>4, ReaderStops
<1>5. CASE h # LogReader
  <2>1. /\ WindowInOrder' /\ srv'.nextSeq >= srv.nextSeq
        /\ \A seq \in ToSet(srv'.logs) : seq < srv.nextSeq => seq \in ToSet(srv.logs)
    BY <1>1, <1>2, SameWindow DEF LogInv, WindowInOrder
  <2> QED BY <1>1, <1>2, <1>3, <1>5, <2>1, ElsewhereKeeps
<1> QED BY <1>4, <1>5

\* The other handlers.
LEMMA OthersKeepLog ==
    ASSUME ViewerInv, ViewerInv', LogInv,
           \/ \E c \in Clients : \/ ViewerConnect(c) \/ ViewerClose(c) \/ ViewerStep(c)
                                 \/ RequestSent(c) \/ RequestStep(c)
           \/ ReaderConnect(StatusReader) \/ StatusStep
           \/ AttachSent \/ DetachSent \/ AttachStep
           \/ GdbConnect \/ GdbSetBreak \/ GdbLook \/ GdbResume \/ GdbWaited \/ GdbLeave
           \/ GdbGoesOn
    PROVE  LogInv'
<1>1. token' \in [Clients -> Nat]
  BY DEF ViewerInv, Shape
<1>2. /\ {StatusReader, Attach, Detach, Gdb} \subseteq Handlers \ {LogReader}
      /\ \A c \in Clients : {Viewer(c), Request(c)} \subseteq Handlers \ {LogReader}
  <2>1. LogReader[1] = "log" /\ StatusReader[1] # "log" /\ Attach[1] # "log"
        /\ Detach[1] # "log" /\ Gdb[1] # "log"
    BY DEF LogReader, StatusReader, Attach, Detach, Gdb
  <2>2. \A c \in Clients : Viewer(c)[1] # "log" /\ Request(c)[1] # "log"
    BY DEF Viewer, Request
  <2>3. \A c \in Clients : Viewer(c) \in Handlers /\ Request(c) \in Handlers
    BY DEF Handlers
  <2> QED BY <2>1, <2>2, <2>3, ViewerNames
<1>3. ASSUME NEW h \in Handlers \ {LogReader}, NEW place, GoTo(h, place),
             UNCHANGED <<heard, since, after>>
      PROVE  LogInv'
  <2>1. inbox' = inbox
    BY <1>3 DEF GoTo
  <2> QED BY <1>1, <1>3, <2>1, OthersCallLog
<1>4. ASSUME NEW h \in Handlers \ {LogReader}, NEW place, NEW kind, NEW arg,
             Call(h, place, kind, arg), UNCHANGED <<heard, since, after>>
      PROVE  LogInv'
  <2>1. inbox' = inbox
    BY <1>4 DEF Call, Send
  <2> QED BY <1>1, <1>4, <2>1, OthersCallLog
<1>5. ASSUME NEW c \in Clients, ViewerConnect(c) \/ ViewerClose(c) \/ ViewerStep(c)
      PROVE  LogInv'
  <2>1. Viewer(c) \in Handlers \ {LogReader} /\ UNCHANGED <<heard, since, after>>
    BY <1>2, <1>5 DEF ViewerConnect, ViewerClose, ViewerStep, ViewerFound, ViewerOpen, ViewerClosed,
       viewerKept
  <2>2. (\E place : GoTo(Viewer(c), place)) \/ (\E place, kind, arg : Call(Viewer(c), place, kind, arg))
    BY <1>5 DEF ViewerConnect, ViewerClose, ViewerStep, ViewerFound, ViewerOpen, ViewerClosed
  <2> QED BY <1>3, <1>4, <2>1, <2>2
<1>6. ASSUME NEW c \in Clients, RequestSent(c) \/ RequestStep(c) PROVE LogInv'
  <2>1. Request(c) \in Handlers \ {LogReader} /\ UNCHANGED <<heard, since, after>>
    BY <1>2, <1>6 DEF RequestSent, RequestStep, RequestChecked, DeleteChecked, DeleteSent,
       RequestDone, requestKept
  <2>2. \/ \E place : GoTo(Request(c), place)
        \/ \E place, kind, arg : Call(Request(c), place, kind, arg)
    BY <1>6 DEF RequestSent, RequestStep, RequestChecked, DeleteChecked, DeleteSent, RequestDone
  <2> QED BY <1>3, <1>4, <2>1, <2>2
<1>7. CASE ReaderConnect(StatusReader) \/ StatusStep
  <2>1. UNCHANGED <<heard, since, after>>
    BY <1>7 DEF ReaderConnect, StatusStep, StatusChecked, StatusPolled, StatusAgain
  <2>2. \/ \E place : GoTo(StatusReader, place)
        \/ \E place, kind, arg : Call(StatusReader, place, kind, arg)
    BY <1>7 DEF ReaderConnect, StatusStep, StatusChecked, StatusPolled, StatusAgain
  <2> QED BY <1>2, <1>3, <1>4, <2>1, <2>2
<1>8. CASE AttachSent \/ DetachSent \/ AttachStep
  <2>1. UNCHANGED <<heard, since, after>>
    BY <1>8 DEF AttachSent, DetachSent, AttachStep, AttachListens, AttachStops, AttachClears,
       AttachDone, DetachCloses, DetachClears, gdbKept
  <2>2. \E h \in {Attach, Detach} : \/ \E place : GoTo(h, place)
                                    \/ \E place, kind, arg : Call(h, place, kind, arg)
    BY <1>8 DEF AttachSent, DetachSent, AttachStep, AttachListens, AttachStops, AttachClears,
       AttachDone, DetachCloses, DetachClears
  <2> QED BY <1>2, <1>3, <1>4, <2>1, <2>2
<1>9. CASE GdbConnect \/ GdbSetBreak \/ GdbLook \/ GdbResume \/ GdbWaited \/ GdbLeave
  <2>1. UNCHANGED <<heard, since, after>>
    BY <1>9 DEF GdbConnect, GdbSetBreak, GdbLook, GdbResume, GdbWaited, GdbLeave, threadKept, gdbKept
  <2>2. \/ \E place : GoTo(Gdb, place)
        \/ \E place, kind, arg : Call(Gdb, place, kind, arg)
    BY <1>9 DEF GdbConnect, GdbSetBreak, GdbLook, GdbResume, GdbWaited, GdbLeave
  <2> QED BY <1>2, <1>3, <1>4, <2>1, <2>2
<1>10. CASE GdbGoesOn
  <2>1. UNCHANGED <<heard, since, after>>
    BY <1>10 DEF GdbGoesOn, GdbReady, GdbResumed, GdbBefore, GdbMoved, GdbHalted, GdbLeft,
       GdbJoined, threadKept, gdbKept
  <2>2. CASE GdbJoined
    <3>1. UNCHANGED <<wire, queue, answer, srv, inbox, pc>>
      BY <2>2 DEF GdbJoined, serverVars
    <3>2. /\ WindowInOrder' /\ srv'.nextSeq >= srv.nextSeq
          /\ \A seq \in ToSet(srv'.logs) : seq < srv.nextSeq => seq \in ToSet(srv.logs)
      BY <3>1, SameWindow DEF LogInv, WindowInOrder
    <3> QED BY <2>1, <3>1, <3>2, LinesComeIn
  <2>3. CASE ~ GdbJoined
    <3>1. \/ \E place : GoTo(Gdb, place)
          \/ \E place, kind, arg : Call(Gdb, place, kind, arg)
      BY <1>10, <2>3 DEF GdbGoesOn, GdbReady, GdbResumed, GdbBefore, GdbMoved, GdbHalted, GdbLeft
    <3> QED BY <1>2, <1>3, <1>4, <2>1, <3>1
  <2> QED BY <2>2, <2>3
<1> QED BY <1>5, <1>6, <1>7, <1>8, <1>9, <1>10

LEMMA InitLog == Init => LogInv
<1> SUFFICES ASSUME Init PROVE LogInv
  OBVIOUS
<1>1. /\ wire = {} /\ queue = <<>> /\ UnderWay = {} /\ pc[LogReader] = "idle"
      /\ answer[LogReader] = NoAnswer
  BY ViewerNames DEF Init, ServerInit, UnderWay, ToSet
<1>2. /\ srv.nextSeq = 1 /\ srv.logs = <<>> /\ inbox = 0
      /\ since = 0 /\ after = 0 /\ heard = <<>>
  BY DEF Init, ServerInit
<1>3. WindowInOrder
  BY <1>2 DEF WindowInOrder
<1>4. ReaderCalls
  BY <1>1 DEF ReaderCalls, OneRequest
<1>5. HeardInOrder
  BY <1>1, <1>2 DEF HeardInOrder
<1>6. AnswersFit
  BY <1>1 DEF AnswersFit, NoAnswer
<1> QED BY <1>3, <1>4, <1>5, <1>6 DEF LogInv

LEMMA NextLog == ViewerInv /\ ViewerInv' /\ LogInv /\ [Next]_vars => LogInv'
<1> SUFFICES ASSUME ViewerInv, ViewerInv', LogInv, [Next]_vars PROVE LogInv'
  OBVIOUS
<1>1. CASE UNCHANGED vars
  <2>1. UNCHANGED <<wire, queue, answer, srv, inbox, pc, heard, since, after>>
    BY <1>1 DEF vars, serverVars, sessionVars
  <2>2. /\ WindowInOrder' /\ srv'.nextSeq >= srv.nextSeq
        /\ \A seq \in ToSet(srv'.logs) : seq < srv.nextSeq => seq \in ToSet(srv.logs)
    BY <2>1, SameWindow DEF LogInv, WindowInOrder
  <2> QED BY <2>1, <2>2, LinesComeIn
<1>2. CASE ServerStep
  BY <1>2, ServerKeepsLog
<1>3. CASE Outside
  <2>1. ASSUME NEW h \in Handlers, ReaderConnect(h) PROVE LogInv'
    <3>1. h = LogReader \/ h = StatusReader
      BY <2>1 DEF ReaderConnect
    <3> QED BY <2>1, <3>1, ReaderKeepsLog, OthersKeepLog
  <2> QED BY <1>3, <2>1, GiveUpKeepsLog, OthersKeepLog DEF Outside
<1>4. CASE LogStep
  BY <1>4, ReaderKeepsLog
<1>5. CASE StatusStep \/ AttachStep \/ GdbGoesOn \/ GdbLeave
  BY <1>5, OthersKeepLog
<1>6. CASE \E c \in Clients : ViewerStep(c) \/ RequestStep(c)
  BY <1>6, OthersKeepLog
<1> QED BY <1>1, <1>2, <1>3, <1>4, <1>5, <1>6 DEF Next

\* The log stream passes on each line once and in order, and leaves out only lines that
\* had left the server's window, whatever polls were given up, came late or found the
\* simulation gone (log_sse in http.rs, JobKind::GetLogs and append_log in server.rs).
THEOREM LogStreamGapless == Spec => []LogsGapless
<1>1. LogInv => LogsGapless
  BY DEF LogInv, HeardInOrder, LogsGapless
<1> QED BY <1>1, InitViewer, NextViewer, InitLog, NextLog, PTL DEF Spec
=============================================================================
