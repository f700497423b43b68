---------------------------- MODULE BenchProofs ----------------------------
(***************************************************************************)
(* The bench, for every quantum, every length of a hold and every capacity *)
(* of the action bus and of the queues: a hold ends on time; no request    *)
(* overtakes, repeats or silently loses another; and of the records of an  *)
(* export that nothing gave up none is missing, out of order or doubled    *)
(* but those of chunks that a full queue overwrote.                        *)
(***************************************************************************)
EXTENDS Bench, SequenceTheorems, WellFoundedInduction, TLAPS

\* A property of 0 that goes on from each number to the next holds up to N; the
\* property is given by the set of the numbers that have it.
LEMMA UpTo ==
    ASSUME NEW N \in Nat, NEW S, 0 \in S,
           \A n \in 1..N : n - 1 \in S => n \in S
    PROVE  0..N \subseteq S
<1> DEFINE missing == (0..N) \ S
<1>1. SUFFICES ASSUME missing # {} PROVE FALSE
  OBVIOUS
<1>2. IsWellFoundedOn(OpToRel(<, Nat), Nat)
  BY NatLessThanWellFounded
<1>3. missing \in SUBSET Nat
  OBVIOUS
<1>4. PICK least \in missing : \A n \in missing : ~ (<<n, least>> \in OpToRel(<, Nat))
  BY <1>1, <1>2, <1>3, WFMin
<1>5. least \in missing /\ \A n \in missing : ~ (n < least)
  BY <1>3, <1>4 DEF OpToRel
<1>6. least \in 1..N
  BY <1>5
<1>7. least - 1 \in S
  BY <1>5, <1>6
<1> QED BY <1>5, <1>6, <1>7

-----------------------------------------------------------------------------
(* What the switch and the requests are made of.                            *)

Request == [id : Nat, ms : Nat]
Switch == [deadline : Nat \cup {NoTick}, pin : Levels]
Outcome == [id : Nat, result : {"Busy", "BadParam", "Applied"}]
State == [switch : Switch, applied : Seq(Outcome), levels : Seq(Levels)]

LEMMA ApplyAnswers ==
    ASSUME NEW state \in State, NEW request \in Request, NEW time \in Nat
    PROVE  /\ ApplyAction(state, request, time) \in State
           /\ ApplyAction(state, request, time).applied =
                 Append(state.applied, [id |-> request.id,
                                        result |-> Result(state.switch, request.ms, time)])
<1> DEFINE result == Result(state.switch, request.ms, time)
           done == Append(state.applied, [id |-> request.id, result |-> result])
<1>1. result \in {"Busy", "BadParam", "Applied"}
  BY DEF Result
<1>2. done \in Seq(Outcome)
  BY <1>1 DEF State, Outcome, Request
<1>3. Append(state.levels, "High") \in Seq(Levels)
  BY DEF State, Levels
<1>4. [deadline |-> time + request.ms, pin |-> "High"] \in Switch
  BY DEF Switch, Levels, Request
<1>5. ApplyAction(state, request, time) =
        IF result = "Applied"
        THEN [switch |-> [deadline |-> time + request.ms, pin |-> "High"],
              levels |-> Append(state.levels, "High"), applied |-> done]
        ELSE [state EXCEPT !.applied = done]
  BY DEF ApplyAction
<1> HIDE DEF result, done
<1>6. CASE result = "Applied"
  <2>1. ApplyAction(state, request, time) =
            [switch |-> [deadline |-> time + request.ms, pin |-> "High"],
             levels |-> Append(state.levels, "High"), applied |-> done]
    BY ONLY <1>5, <1>6
  <2>2. ApplyAction(state, request, time) \in State
    BY ONLY <1>2, <1>3, <1>4, <2>1 DEF State
  <2>3. ApplyAction(state, request, time).applied = done
    BY ONLY <2>1
  <2> QED BY <2>2, <2>3 DEF done, result
<1>7. CASE result # "Applied"
  <2>1. ApplyAction(state, request, time) = [state EXCEPT !.applied = done]
    BY ONLY <1>5, <1>7
  <2>2. state \in State
    OBVIOUS
  <2>3. ApplyAction(state, request, time) \in State
    BY ONLY <1>2, <2>1, <2>2 DEF State
  <2>4. ApplyAction(state, request, time).applied = done
    BY ONLY <2>1, <2>2 DEF State
  <2> QED BY <2>3, <2>4 DEF done, result
<1> QED BY ONLY <1>6, <1>7

\* ApplyAction returns a state.
LEMMA ApplyTyped ==
    ASSUME NEW state \in State, NEW request \in Request, NEW time \in Nat
    PROVE  ApplyAction(state, request, time) \in State
  BY ApplyAnswers

\* The states that the requests lead through, one after another.
LEMMA StatesExist ==
    ASSUME NEW start \in State, NEW requests \in Seq(Request), NEW time \in Nat
    PROVE  \E f \in [0..Len(requests) -> State] :
              f = [n \in 0..Len(requests) |->
                      IF n = 0 THEN start ELSE ApplyAction(f[n - 1], requests[n], time)]
<1> DEFINE N == Len(requests)
           Leads(f, k) == \A n \in 0..k :
               f[n] = IF n = 0 THEN start ELSE ApplyAction(f[n - 1], requests[n], time)
           S == {k \in 0..N : \E f \in [0..k -> State] : Leads(f, k)}
<1>1. N \in Nat /\ \A n \in 1..N : requests[n] \in Request
  OBVIOUS
<1>2. 0 \in S
  <2> DEFINE g == [n \in 0..0 |-> start]
  <2>1. g \in [0..0 -> State] /\ Leads(g, 0)
    OBVIOUS
  <2> HIDE DEF g, Leads
  <2> QED BY <1>1, <2>1
<1>3. ASSUME NEW k \in 1..N, k - 1 \in S PROVE k \in S
  <2>1. PICK f \in [0..(k - 1) -> State] : Leads(f, k - 1)
    BY <1>3
  <2> DEFINE g == [n \in 0..k |-> IF n = k THEN ApplyAction(f[k - 1], requests[k], time)
                                  ELSE f[n]]
  <2>2. ApplyAction(f[k - 1], requests[k], time) \in State
    <3>1. f[k - 1] \in State /\ requests[k] \in Request
      BY ONLY <1>1, <2>1
    <3> QED BY ONLY <3>1, time \in Nat, ApplyTyped
  <2>3. g \in [0..k -> State]
    BY <2>1, <2>2
  <2>4. Leads(g, k)
    <3>1. SUFFICES ASSUME NEW n \in 0..k
                   PROVE g[n] = IF n = 0 THEN start
                                ELSE ApplyAction(g[n - 1], requests[n], time)
      OBVIOUS
    <3>2. CASE n = k
      <4>1. g[n] = ApplyAction(f[k - 1], requests[k], time) /\ g[n - 1] = f[k - 1]
        BY <3>2
      <4> QED BY <3>2, <4>1
    <3>3. CASE n # k
      <4>1. n \in 0..(k - 1) /\ g[n] = f[n] /\ (n # 0 => g[n - 1] = f[n - 1])
        BY <3>3
      <4> QED BY <2>1, <4>1
    <3> QED BY <3>2, <3>3
  <2> QED BY <2>3, <2>4
<1>4. N \in S
  <2> HIDE DEF S
  <2>1. \A k \in 1..N : k - 1 \in S => k \in S
    BY <1>3
  <2>2. 0..N \subseteq S
    BY <1>1, <1>2, <2>1, UpTo
  <2> QED BY <1>1, <2>2
<1>5. PICK f \in [0..N -> State] : Leads(f, N)
  BY <1>4
<1>6. f = [n \in 0..N |-> IF n = 0 THEN start ELSE ApplyAction(f[n - 1], requests[n], time)]
  BY <1>5
<1> QED BY <1>6

\* f runs through the states that the requests lead through, and AppliedInTurn to its last.
Turns(f, start, requests, time) ==
    /\ f \in [0..Len(requests) -> State]
    /\ f[0] = start
    /\ \A n \in 1..Len(requests) : f[n] = ApplyAction(f[n - 1], requests[n], time)
    /\ AppliedInTurn(start, requests, time) = f[Len(requests)]

\* What AppliedInTurn returns is the last of them.
LEMMA InTurn ==
    ASSUME NEW start \in State, NEW requests \in Seq(Request), NEW time \in Nat
    PROVE  \E f : Turns(f, start, requests, time)
<1> DEFINE F(f) == [n \in 0..Len(requests) |->
                      IF n = 0 THEN start ELSE ApplyAction(f[n - 1], requests[n], time)]
           state == CHOOSE f : f = F(f)
<1>1. PICK g \in [0..Len(requests) -> State] : g = F(g)
  BY StatesExist
<1>2. state = F(state)
  <2> HIDE DEF F
  <2> QED BY <1>1
<1>3. AppliedInTurn(start, requests, time) = state[Len(requests)]
  BY DEF AppliedInTurn
<1> HIDE DEF state
<1> DEFINE S == {n \in 0..Len(requests) : state[n] \in State}
<1>4. Len(requests) \in Nat /\ \A n \in 1..Len(requests) : requests[n] \in Request
  OBVIOUS
<1>5. state[0] = start /\ \A n \in 1..Len(requests) :
                             state[n] = ApplyAction(state[n - 1], requests[n], time)
  BY <1>2, <1>4
<1>6. 0..Len(requests) \subseteq S
  <2>1. ASSUME NEW n \in 1..Len(requests), n - 1 \in S PROVE n \in S
    <3>1. state[n - 1] \in State /\ n \in 0..Len(requests)
      BY <1>4, <2>1
    <3>2. ApplyAction(state[n - 1], requests[n], time) \in State
      BY <1>4, <3>1, ApplyTyped, Zenon
    <3>3. state[n] \in State
      BY ONLY <1>5, <3>2
    <3> QED BY ONLY <3>1, <3>3
  <2>2. 0 \in S
    BY <1>4, <1>5
  <2> HIDE DEF S
  <2> QED BY <1>4, <2>1, <2>2, UpTo
<1>7. state \in [0..Len(requests) -> State]
  BY <1>2, <1>6
<1>8. Turns(state, start, requests, time)
  BY ONLY <1>3, <1>5, <1>7 DEF Turns
<1> QED BY ONLY <1>8

-----------------------------------------------------------------------------
(* A hold ends on time. *)

ActionsTyped ==
    /\ invokes \in Seq(Request) /\ inbox \in Seq(Request) /\ waiting \in Seq(Request)
    /\ switch \in Switch /\ applied \in Seq(Outcome)
    /\ gone \subseteq Nat /\ lastId \in Nat
    /\ now \in Nat /\ scene \in Scenes

\* A pin that is driven has a deadline.  While the guest runs it has not passed: the
\* switch was looked at just before; elsewhere the guest is at most a pass beyond it.
HoldInv ==
    switch.pin = "High" =>
        /\ switch.deadline # NoTick /\ now < switch.deadline + Quantum
        /\ phase = "guest" => now < switch.deadline

\* The switch after a poll, and after each request of that time.
Ahead(sw, time) == sw.pin = "High" => sw.deadline # NoTick /\ time < sw.deadline

LEMMA PolledIsAhead ==
    ASSUME NEW sw \in Switch, NEW time \in Nat, sw.pin = "High" => sw.deadline # NoTick
    PROVE  PollHold(sw, time) \in Switch /\ Ahead(PollHold(sw, time), time)
BY DEF PollHold, Switch, Released, Levels, NoTick, Ahead

LEMMA AppliedIsAhead ==
    ASSUME NEW state \in State, NEW request \in Request, NEW time \in Nat,
           Ahead(state.switch, time)
    PROVE  Ahead(ApplyAction(state, request, time).switch, time)
<1> DEFINE result == Result(state.switch, request.ms, time)
<1>1. CASE result = "Applied"
  <2>1. request.ms >= 1
    BY <1>1 DEF Result, Request
  <2>2. ApplyAction(state, request, time).switch = [deadline |-> time + request.ms, pin |-> "High"]
    BY <1>1 DEF ApplyAction
  <2> QED BY <2>1, <2>2 DEF Ahead, NoTick, Request
<1>2. CASE result # "Applied"
  <2>1. ApplyAction(state, request, time).switch = state.switch
    BY <1>2 DEF ApplyAction, State
  <2> QED BY <2>1
<1> QED BY <1>1, <1>2

\* The ids that the requests leave in `applied`, after those that are there.
LEMMA ServicedTurns ==
    ASSUME NEW time \in Nat, ActionsTyped, switch.pin = "High" => switch.deadline # NoTick
    PROVE  /\ Serviced(time) \in State
           /\ Ahead(Serviced(time).switch, time)
           /\ Len(Serviced(time).applied) = Len(applied) + Len(waiting \o inbox)
           /\ \A i \in 1..Len(applied) : Serviced(time).applied[i].id = applied[i].id
           /\ \A i \in 1..Len(waiting \o inbox) :
                 Serviced(time).applied[Len(applied) + i].id = (waiting \o inbox)[i].id
<1> DEFINE polled == PollHold(switch, time)
           start == [switch |-> polled, applied |-> applied,
                     levels |-> IF polled = switch THEN <<>> ELSE <<"Low">>]
           requests == waiting \o inbox
           N == Len(requests)
<1>1. requests \in Seq(Request) /\ N \in Nat
  BY DEF ActionsTyped
<1>2. /\ polled \in Switch /\ Ahead(polled, time)
  BY PolledIsAhead DEF ActionsTyped
<1>3. (IF polled = switch THEN <<>> ELSE <<"Low">>) \in Seq(Levels)
  <2>1. <<>> \in Seq(Levels) /\ <<"Low">> \in Seq(Levels)
    BY DEF Levels
  <2> QED BY <2>1
<1>4. start \in State /\ start.switch = polled /\ start.applied = applied
  <2> HIDE DEF polled
  <2>1. applied \in Seq(Outcome)
    BY DEF ActionsTyped
  <2> QED BY <1>2, <1>3, <2>1 DEF State
<1>5. Serviced(time) = AppliedInTurn(start, requests, time)
  BY DEF Serviced
<1> HIDE DEF start, requests, polled
<1>0. PICK f : Turns(f, start, requests, time)
  BY ONLY time \in Nat, <1>1, <1>4, InTurn
<1>6. /\ f \in [0..N -> State] /\ f[0] = start
      /\ \A n \in 1..N : f[n] = ApplyAction(f[n - 1], requests[n], time)
      /\ AppliedInTurn(start, requests, time) = f[N]
  BY ONLY <1>0 DEF Turns
<1> DEFINE Fits(n) == /\ Ahead(f[n].switch, time)
                      /\ Len(f[n].applied) = Len(applied) + n
                      /\ \A i \in 1..Len(applied) : f[n].applied[i].id = applied[i].id
                      /\ \A i \in 1..n : f[n].applied[Len(applied) + i].id = requests[i].id
           S == {n \in 0..N : Fits(n)}
<1>7. applied \in Seq(Outcome) /\ Len(applied) \in Nat
  BY DEF ActionsTyped
<1>8. 0 \in S
  BY <1>1, <1>2, <1>4, <1>6, <1>7
<1>9. ASSUME NEW n \in 1..N, n - 1 \in S PROVE n \in S
  <2>1. /\ f[n - 1] \in State /\ f[n] \in State /\ requests[n] \in Request
        /\ f[n] = ApplyAction(f[n - 1], requests[n], time)
    BY <1>1, <1>6
  <2>2. Fits(n - 1)
    BY <1>9
  <2>3. Ahead(f[n].switch, time)
    BY <2>1, <2>2, AppliedIsAhead
  <2> DEFINE done == [id |-> requests[n].id,
                      result |-> Result(f[n - 1].switch, requests[n].ms, time)]
  <2>4. f[n].applied = Append(f[n - 1].applied, done) /\ done.id = requests[n].id
    <3>1. ApplyAction(f[n - 1], requests[n], time).applied = Append(f[n - 1].applied, done)
      BY ONLY <2>1, time \in Nat, ApplyAnswers
    <3> QED BY ONLY <2>1, <3>1
  <2>5. f[n - 1].applied \in Seq(Outcome)
    BY <2>1 DEF State
  <2>6. /\ Len(f[n - 1].applied) = Len(applied) + (n - 1)
        /\ Len(f[n].applied) = Len(applied) + n
        /\ \A i \in 1..(Len(applied) + (n - 1)) : f[n].applied[i] = f[n - 1].applied[i]
        /\ f[n].applied[Len(applied) + n].id = requests[n].id
    <3>1. Len(f[n - 1].applied) = Len(applied) + (n - 1)
      BY <2>2
    <3>2. done \in Outcome
      BY <2>1 DEF Result, Outcome, Request
    <3> HIDE DEF done, Fits, S
    <3> DEFINE before == f[n - 1].applied
    <3>3. /\ Len(Append(before, done)) = Len(before) + 1
          /\ \A i \in 1..Len(before) : Append(before, done)[i] = before[i]
          /\ Append(before, done)[Len(before) + 1] = done
      BY <2>5, <3>2, AppendProperties
    <3>4. n \in Nat /\ (Len(applied) + (n - 1)) + 1 = Len(applied) + n
      BY <1>1, <1>7
    <3> QED BY <2>4, <3>1, <3>3, <3>4
  <2>7. \A i \in 1..Len(applied) : f[n].applied[i].id = applied[i].id
    <3>1. \A i \in 1..Len(applied) : f[n - 1].applied[i].id = applied[i].id
      BY <2>2
    <3>2. 1..Len(applied) \subseteq 1..(Len(applied) + (n - 1))
      BY <1>7
    <3> QED BY <2>6, <3>1, <3>2
  <2>8. ASSUME NEW i \in 1..n PROVE f[n].applied[Len(applied) + i].id = requests[i].id
    <3>1. CASE i = n
      BY <2>6, <3>1
    <3>2. CASE i # n
      <4>1. i \in 1..(n - 1) /\ Len(applied) + i \in 1..(Len(applied) + (n - 1))
        BY <1>7, <3>2
      <4>2. f[n - 1].applied[Len(applied) + i].id = requests[i].id
        BY <2>2, <4>1
      <4>3. f[n].applied[Len(applied) + i] = f[n - 1].applied[Len(applied) + i]
        BY <2>6, <4>1
      <4> QED BY <4>2, <4>3
    <3> QED BY <3>1, <3>2
  <2>9. Fits(n)
    BY <2>3, <2>6, <2>7, <2>8
  <2> HIDE DEF Fits
  <2> QED BY ONLY <1>1, <2>9
<1>10. 0..N \subseteq S
  <2> HIDE DEF S
  <2>1. \A n \in 1..N : n - 1 \in S => n \in S
    BY <1>9
  <2> QED BY <1>1, <1>8, <2>1, UpTo
<1>11. Fits(N) /\ f[N] \in State
  <2>1. N \in S /\ f[N] \in State
    <3> HIDE DEF S, Fits
    <3>1. N \in 0..N /\ f \in [0..N -> State]
      BY ONLY <1>1, <1>6
    <3> QED BY ONLY <1>10, <3>1
  <2>2. \A n \in S : Fits(n)
    <3> HIDE DEF Fits
    <3> QED OBVIOUS
  <2> HIDE DEF S, Fits
  <2> QED BY <2>1, <2>2
<1>12. Serviced(time) = f[N]
  BY <1>5, <1>6
<1>13. /\ Len(Serviced(time).applied) = Len(applied) + N
       /\ \A i \in 1..Len(applied) : Serviced(time).applied[i].id = applied[i].id
       /\ \A i \in 1..N : Serviced(time).applied[Len(applied) + i].id = requests[i].id
  <2> HIDE DEF N
  <2> QED BY <1>11, <1>12
<1>14. Serviced(time) \in State /\ Ahead(Serviced(time).switch, time)
  BY <1>11, <1>12
<1> QED BY <1>13, <1>14 DEF requests

\* Newest drops the oldest requests, if there are too many.
LEMMA NewestKeeps ==
    ASSUME NEW s \in Seq(Request)
    PROVE  /\ Newest(s) \in Seq(Request)
           /\ \E n \in 0..Len(s) : /\ Len(Newest(s)) = Len(s) - n
                                   /\ \A i \in 1..(Len(s) - n) : Newest(s)[i] = s[n + i]
<1> DEFINE n == IF Len(s) > RecvCap THEN Len(s) - RecvCap ELSE 0
<1>1. Len(s) \in Nat /\ RecvCap \in Nat /\ n \in 0..Len(s) /\ \A i \in 1..Len(s) : s[i] \in Request
  BY RecvAssumption
<1>2. Newest(s) = SubSeq(s, n + 1, Len(s))
  BY <1>1 DEF Newest
<1> HIDE DEF n
<1>3. /\ SubSeq(s, n + 1, Len(s)) \in Seq(Request)
      /\ Len(SubSeq(s, n + 1, Len(s))) = Len(s) - n
      /\ \A i \in 1..(Len(s) - n) : SubSeq(s, n + 1, Len(s))[i] = s[n + i]
  <2>1. n + 1 \in Int /\ Len(s) \in Int /\ \A i \in (n + 1)..Len(s) : s[i] \in Request
    BY <1>1
  <2>2. /\ SubSeq(s, n + 1, Len(s)) \in Seq(Request)
        /\ Len(SubSeq(s, n + 1, Len(s))) = IF n + 1 <= Len(s) THEN Len(s) - (n + 1) + 1 ELSE 0
        /\ \A i \in 1..(Len(s) - (n + 1) + 1) : SubSeq(s, n + 1, Len(s))[i] = s[(n + 1) + i - 1]
    BY <2>1, SubSeqProperties
  <2>3. \A i \in 1..(Len(s) - n) : (n + 1) + i - 1 = n + i /\ i \in 1..(Len(s) - (n + 1) + 1)
    BY <1>1
  <2> QED BY <1>1, <2>2, <2>3
<1> QED BY <1>1, <1>2, <1>3

LEMMA InitActions == Init => ActionsTyped /\ HoldInv
<1> SUFFICES ASSUME Init PROVE ActionsTyped /\ HoldInv
  OBVIOUS
<1>1. Released \in Switch /\ Released.pin = "Low"
  BY DEF Released, Switch, Levels
<1>2. ActionsTyped
  BY <1>1 DEF Init, ActionInit, ActionsTyped
<1>3. HoldInv
  BY <1>1 DEF Init, ActionInit, HoldInv
<1> QED BY <1>2, <1>3

\* The arbiter, the server and its clients reach the switch through requests only.
LEMMA ElsewhereStays ==
    ASSUME Forward \/ ForwardWatch \/ ForwardQuery \/ ForwardChunk \/ HostCommand \/ Server \/ Client
    PROVE  /\ UNCHANGED <<now, scene, phase>>
           /\ UNCHANGED actionVars \/ ForwardInvokes \/ \E ms \in Holds[scene] : QueueInvoke(ms)
<1>1. CASE Forward
  BY <1>1 DEF Forward, arbKept
<1>2. CASE ForwardWatch \/ ForwardQuery \/ ForwardChunk \/ HostCommand
  BY <1>2 DEF ForwardWatch, ForwardQuery, ForwardChunk, HostCommand, arbKept
<1>3. CASE Server
  BY <1>3 DEF Server, UartAnswered, QueryTimeout, Collect, Poll, CsvDeadline, fileKept, jobKept
<1>4. CASE Client
  <2>1. CASE Invoke
    BY <2>1 DEF Invoke, jobKept
  <2>2. CASE Watch \/ StreamWatch \/ SeeStatus \/ ReadUart
    BY <2>2 DEF Watch, StreamWatch, SeeStatus, ReadUart, jobKept
  <2>3. CASE Download
    BY <2>3 DEF Download, fileKept, jobKept
  <2>4. ASSUME NEW i \in DOMAIN files, FilePoll(i) \/ FilePollGivenUp(i) \/ SaveFile(i)
        PROVE  UNCHANGED <<now, scene, phase, actionVars>>
    BY <2>4 DEF FilePoll, FilePollGivenUp, SaveFile, fileKept, jobKept
  <2> QED BY <1>4, <2>1, <2>2, <2>3, <2>4 DEF Client
<1> QED BY <1>1, <1>2, <1>3, <1>4

LEMMA IdsAreNumbers ==
    ASSUME NEW s \in Seq(Request)
    PROVE  Ids(s) \subseteq Nat
<1>1. \A i \in DOMAIN s : s[i] \in Request
  OBVIOUS
<1> QED BY <1>1 DEF Ids, Request

\* What is published and forwarded keeps its type.
LEMMA QueuedIsTyped ==
    ASSUME ActionsTyped, UNCHANGED <<now, scene>>,
           UNCHANGED actionVars \/ ForwardInvokes \/ \E ms \in Holds[scene] : QueueInvoke(ms)
    PROVE  ActionsTyped' /\ UNCHANGED <<switch, waiting, applied>>
<1>1. CASE UNCHANGED actionVars
  BY <1>1 DEF actionVars, ActionsTyped
<1>2. CASE ForwardInvokes
  <2>1. inbox \o invokes \in Seq(Request)
    BY DEF ActionsTyped
  <2>2. inbox' \in Seq(Request) /\ invokes' \in Seq(Request)
    <3>1. Newest(inbox \o invokes) \in Seq(Request)
      BY <2>1, NewestKeeps
    <3> QED BY <1>2, <3>1 DEF ForwardInvokes
  <2>3. Ids(inbox \o invokes) \subseteq Nat
    BY <2>1, IdsAreNumbers
  <2>4. gone' \subseteq Nat
    BY <1>2, <2>3 DEF ForwardInvokes, ActionsTyped
  <2> QED BY <1>2, <2>2, <2>4 DEF ForwardInvokes, ActionsTyped
<1>3. ASSUME NEW ms \in Holds[scene], QueueInvoke(ms)
      PROVE  ActionsTyped' /\ UNCHANGED <<switch, waiting, applied>>
  <2>1. ms \in Nat
    BY BenchAssumption DEF ActionsTyped
  <2> DEFINE all == Append(invokes, [id |-> lastId + 1, ms |-> ms])
  <2>2. all \in Seq(Request)
    BY <2>1 DEF ActionsTyped, Request
  <2>3. invokes' \in Seq(Request)
    BY <1>3, <2>2, NewestKeeps DEF QueueInvoke
  <2>4. Ids(all) \subseteq Nat
    BY <2>2, IdsAreNumbers
  <2>5. gone' \subseteq Nat
    BY <1>3, <2>4 DEF QueueInvoke, ActionsTyped
  <2> QED BY <1>3, <2>3, <2>5 DEF QueueInvoke, ActionsTyped
<1> QED BY <1>1, <1>2, <1>3

\* The node: a pass that applies nothing, a reset, and a pass that serves its requests.
LEMMA NodeKeepsHold ==
    ASSUME ActionsTyped, HoldInv, Node
    PROVE  ActionsTyped' /\ HoldInv'
<1>1. ASSUME HandleControl PROVE ActionsTyped' /\ HoldInv'
  <2>1. UNCHANGED <<now, scene, phase>> /\ (UNCHANGED actionVars \/ ResetActions)
    BY <1>1 DEF HandleControl, nodeKept
  <2>2. CASE UNCHANGED actionVars
    BY <2>1, <2>2 DEF actionVars, ActionsTyped, HoldInv
  <2>3. CASE ResetActions
    <3>1. Released \in Switch /\ Released.pin = "Low"
      BY DEF Released, Switch, Levels
    <3>2. Ids(waiting) \subseteq Nat
      BY IdsAreNumbers DEF ActionsTyped
    <3>3. gone' \subseteq Nat
      BY <2>3, <3>2 DEF ResetActions, ActionsTyped
    <3> QED BY <2>1, <2>3, <3>1, <3>3 DEF ResetActions, ActionsTyped, HoldInv
  <2> QED BY <2>1, <2>2, <2>3
<1>2. ASSUME EndControl PROVE ActionsTyped' /\ HoldInv'
  <2>1. UNCHANGED <<actionVars, now, scene>> /\ phase' = "service"
    BY <1>2 DEF EndControl, nodeKept
  <2> QED BY <2>1 DEF actionVars, ActionsTyped, HoldInv
<1>3. ASSUME Service PROVE ActionsTyped' /\ HoldInv'
  <2>1. /\ UNCHANGED <<now, scene>> /\ ServiceActions(now, running)
        /\ phase' = IF running THEN "guest" ELSE "control"
    BY <1>3 DEF Service, nodeKept
  <2>2. waiting \o inbox \in Seq(Request)
    BY DEF ActionsTyped
  <2>3. CASE running
    <3>1. Serviced(now) \in State /\ Ahead(Serviced(now).switch, now)
      BY ServicedTurns DEF ActionsTyped, HoldInv
    <3>2. switch' \in Switch /\ applied' \in Seq(Outcome) /\ Ahead(switch', now)
      BY <2>1, <2>3, <3>1 DEF ServiceActions, State
    <3>3. ActionsTyped'
      BY <2>1, <2>3, <3>2 DEF ServiceActions, ActionsTyped
    <3>4. HoldInv'
      BY <2>1, <3>2, BenchAssumption DEF HoldInv, Ahead, ActionsTyped, Switch, NoTick
    <3> QED BY <3>3, <3>4
  <2>4. CASE ~running
    <3>1. /\ waiting' \in Seq(Request) /\ inbox' = <<>> /\ phase' = "control"
          /\ UNCHANGED <<invokes, switch, applied, gone, lastId, now, scene>>
      BY <2>1, <2>2, <2>4 DEF ServiceActions
    <3> QED BY <3>1 DEF ActionsTyped, HoldInv
  <2> QED BY <2>3, <2>4
<1>4. ASSUME NEW to \in Steps, NEW at, NEW spills, NEW emits, Pass(to, at, spills, emits)
      PROVE  ActionsTyped' /\ HoldInv'
  <2>1. UNCHANGED <<actionVars, scene>> /\ now' = to /\ phase = "guest" /\ phase' = "control"
    BY <1>4 DEF Pass, nodeKept
  <2>2. Limits[scene].time \in Nat
    BY BenchAssumption DEF ActionsTyped, Counted
  <2>3. now \in Nat /\ Quantum \in Nat /\ to \in Nat /\ to <= now + Quantum
    BY <1>4, <2>2, BenchAssumption DEF Steps, Horizon, ActionsTyped
  <2>4. ActionsTyped'
    BY <2>1, <2>3 DEF actionVars, ActionsTyped
  <2>5. HoldInv'
    BY <2>1, <2>3 DEF actionVars, HoldInv, ActionsTyped, Switch, NoTick
  <2> QED BY <2>4, <2>5
<1>5. ASSUME EmitPass \/ QuietPass PROVE ActionsTyped' /\ HoldInv'
  BY <1>4, <1>5 DEF EmitPass, QuietPass, GuestPass
<1> QED BY <1>1, <1>2, <1>3, <1>5 DEF Node

LEMMA NextHold == ActionsTyped /\ HoldInv /\ [Next]_vars => ActionsTyped' /\ HoldInv'
<1> SUFFICES ASSUME ActionsTyped, HoldInv, [Next]_vars PROVE ActionsTyped' /\ HoldInv'
  OBVIOUS
<1>1. CASE UNCHANGED vars
  BY <1>1 DEF vars, actionVars, benchVars, ActionsTyped, HoldInv
<1>2. CASE Node
  BY <1>2, NodeKeepsHold
<1>3. CASE Arbiter \/ Server \/ Client
  <2>1. /\ UNCHANGED <<now, scene, phase>>
        /\ UNCHANGED actionVars \/ ForwardInvokes \/ \E ms \in Holds[scene] : QueueInvoke(ms)
    BY <1>3, ElsewhereStays DEF Arbiter
  <2>2. ActionsTyped' /\ UNCHANGED <<switch, waiting, applied>>
    BY <2>1, QueuedIsTyped
  <2> QED BY <2>1, <2>2 DEF HoldInv
<1> QED BY <1>1, <1>2, <1>3 DEF Next

\* A hold ends on time: the pin is never driven for more than a pass of the guest past
\* the deadline, whatever comes in between (HoldSwitch::poll in switch.rs and
\* service_actions in board_runtime.rs).
THEOREM HoldsEndOnTime == Spec => []HoldOnTime
<1>1. ActionsTyped /\ HoldInv => HoldOnTime
  BY DEF HoldInv, HoldOnTime
<1> QED BY <1>1, InitActions, NextHold, PTL DEF Spec

-----------------------------------------------------------------------------
(* The requests are applied in their order, and each is accounted for. *)

IdsOf(s) == [i \in DOMAIN s |-> s[i].id]
AllIds(a, w, b, v) == IdsOf(a) \o IdsOf(w \o b \o v)

\* What ActionsInOrder says of the ids of the requests that are applied or in flight.
Ordered(ids, lost, last) ==
    /\ \A i, j \in DOMAIN ids : i < j => ids[i] < ids[j]
    /\ Range(ids) \cap lost = {} /\ Range(ids) \cup lost = 1..last

\* Where the id of each request is.
Arranged(ids, a, w, b, v) ==
    /\ ids \in Seq(Nat) /\ Len(ids) = Len(a) + Len(w) + Len(b) + Len(v)
    /\ \A i \in 1..Len(a) : ids[i] = a[i].id
    /\ \A i \in 1..Len(w) : ids[Len(a) + i] = w[i].id
    /\ \A i \in 1..Len(b) : ids[Len(a) + Len(w) + i] = b[i].id
    /\ \A i \in 1..Len(v) : ids[Len(a) + Len(w) + Len(b) + i] = v[i].id

LEMMA IdsOfSeq ==
    ASSUME NEW S, \A e \in S : e.id \in Nat, NEW s \in Seq(S)
    PROVE  IdsOf(s) \in Seq(Nat) /\ Len(IdsOf(s)) = Len(s) /\ \A i \in 1..Len(s) : IdsOf(s)[i] = s[i].id
<1>1. Len(s) \in Nat /\ DOMAIN s = 1..Len(s) /\ \A i \in 1..Len(s) : s[i] \in S
  OBVIOUS
<1>2. IdsOf(s) = [i \in 1..Len(s) |-> s[i].id]
  BY <1>1 DEF IdsOf
<1>3. IdsOf(s) \in [1..Len(s) -> Nat]
  BY <1>1, <1>2
<1> QED BY <1>1, <1>2, <1>3

LEMMA IdsAreArranged ==
    ASSUME NEW a \in Seq(Outcome), NEW w \in Seq(Request), NEW b \in Seq(Request), NEW v \in Seq(Request)
    PROVE  Arranged(AllIds(a, w, b, v), a, w, b, v)
<1> DEFINE flight == w \o b \o v
           A == IdsOf(a)
           F == IdsOf(flight)
<1>1. /\ Len(a) \in Nat /\ Len(w) \in Nat /\ Len(b) \in Nat /\ Len(v) \in Nat
      /\ flight \in Seq(Request) /\ Len(flight) = Len(w) + Len(b) + Len(v)
  OBVIOUS
<1>2. /\ \A i \in 1..Len(w) : flight[i] = w[i]
      /\ \A i \in 1..Len(b) : flight[Len(w) + i] = b[i]
      /\ \A i \in 1..Len(v) : flight[Len(w) + Len(b) + i] = v[i]
  <2>1. w \o b \in Seq(Request) /\ Len(w \o b) = Len(w) + Len(b)
    OBVIOUS
  <2>2. ASSUME NEW i \in 1..(Len(w) + Len(b))
        PROVE  flight[i] = (w \o b)[i]
    BY <2>1, <1>1
  <2>3. ASSUME NEW i \in 1..Len(v) PROVE flight[Len(w) + Len(b) + i] = v[i]
    BY <2>1, <1>1
  <2>4. ASSUME NEW i \in 1..Len(w) PROVE flight[i] = w[i]
    BY <2>2, <1>1
  <2>5. ASSUME NEW i \in 1..Len(b) PROVE flight[Len(w) + i] = b[i]
    BY <2>2, <1>1
  <2> QED BY <2>3, <2>4, <2>5
<1> HIDE DEF flight
<1>3. A \in Seq(Nat) /\ Len(A) = Len(a) /\ \A i \in 1..Len(a) : A[i] = a[i].id
  BY IdsOfSeq DEF Outcome
<1>4. F \in Seq(Nat) /\ Len(F) = Len(flight) /\ \A i \in 1..Len(flight) : F[i] = flight[i].id
  BY <1>1, IdsOfSeq DEF Request
<1>5. AllIds(a, w, b, v) = A \o F
  BY DEF AllIds, flight
<1> HIDE DEF A, F
<1>6. /\ A \o F \in Seq(Nat) /\ Len(A \o F) = Len(a) + Len(w) + Len(b) + Len(v)
      /\ \A i \in 1..Len(a) : (A \o F)[i] = a[i].id
      /\ \A i \in 1..Len(flight) : (A \o F)[Len(a) + i] = flight[i].id
  <2>1. A \o F \in Seq(Nat) /\ Len(A \o F) = Len(A) + Len(F)
    BY <1>3, <1>4, ConcatProperties
  <2>2. ASSUME NEW i \in 1..Len(a) PROVE (A \o F)[i] = a[i].id
    <3>1. i \in 1..(Len(A) + Len(F)) /\ i <= Len(A)
      BY <1>1, <1>3, <1>4
    <3> QED BY <1>3, <1>4, <3>1, ConcatProperties
  <2>3. ASSUME NEW i \in 1..Len(flight) PROVE (A \o F)[Len(a) + i] = flight[i].id
    <3>1. (A \o F)[Len(A) + i] = F[i]
      <4>1. Len(A) + i \in 1..(Len(A) + Len(F)) /\ ~ (Len(A) + i <= Len(A))
            /\ (Len(A) + i) - Len(A) = i
        BY <1>1, <1>3, <1>4
      <4>2. A \in Seq(Nat) /\ F \in Seq(Nat)
        BY ONLY <1>3, <1>4
      <4> QED BY ONLY <4>1, <4>2, ConcatProperties
    <3>2. Len(A) = Len(a) /\ F[i] = flight[i].id
      BY ONLY <1>3, <1>4
    <3> QED BY ONLY <3>1, <3>2
  <2>4. Len(A \o F) = Len(a) + Len(w) + Len(b) + Len(v)
    <3>1. Len(A) = Len(a) /\ Len(F) = Len(flight)
      BY ONLY <1>3, <1>4
    <3> QED BY ONLY <1>1, <2>1, <3>1
  <2> QED BY ONLY <2>1, <2>2, <2>3, <2>4
<1>7. ASSUME NEW i \in 1..Len(w) PROVE (A \o F)[Len(a) + i] = w[i].id
  <2>1. i \in 1..Len(flight)
    BY ONLY <1>1
  <2>2. flight[i] = w[i]
    BY ONLY <1>2
  <2> QED BY ONLY <1>6, <2>1, <2>2
<1>8. ASSUME NEW i \in 1..Len(b) PROVE (A \o F)[Len(a) + Len(w) + i] = b[i].id
  <2>1. Len(w) + i \in 1..Len(flight) /\ Len(a) + (Len(w) + i) = Len(a) + Len(w) + i
    BY <1>1
  <2> QED BY <1>2, <1>6, <2>1
<1>9. ASSUME NEW i \in 1..Len(v) PROVE (A \o F)[Len(a) + Len(w) + Len(b) + i] = v[i].id
  <2>1. /\ Len(w) + Len(b) + i \in 1..Len(flight)
        /\ Len(a) + (Len(w) + Len(b) + i) = Len(a) + Len(w) + Len(b) + i
    BY <1>1
  <2> QED BY <1>2, <1>6, <2>1
<1> QED BY <1>5, <1>6, <1>7, <1>8, <1>9 DEF Arranged

\* Requests are dropped from the middle: the rest stays in order.
LEMMA DroppedInOrder ==
    ASSUME NEW q \in Seq(Nat), NEW r \in Seq(Nat), NEW kept \in Nat, NEW n \in Nat,
           kept + n <= Len(q), Len(r) = Len(q) - n,
           \A i \in 1..kept : r[i] = q[i],
           \A i \in (kept + 1)..Len(r) : r[i] = q[i + n],
           NEW lost, NEW last, Ordered(q, lost, last)
    PROVE  Ordered(r, lost \cup {q[i] : i \in (kept + 1)..(kept + n)}, last)
<1> DEFINE dropped == {q[i] : i \in (kept + 1)..(kept + n)}
           At(i) == IF i <= kept THEN i ELSE i + n
<1>1. /\ Len(q) \in Nat /\ Len(r) \in Nat /\ DOMAIN q = 1..Len(q) /\ DOMAIN r = 1..Len(r)
      /\ \A i \in 1..Len(q) : q[i] \in Nat
  OBVIOUS
<1>2. ASSUME NEW i \in 1..Len(r)
      PROVE  At(i) \in 1..Len(q) /\ r[i] = q[At(i)] /\ (At(i) <= kept \/ At(i) > kept + n)
  <2>1. /\ i \in Nat /\ 1 <= i /\ i <= Len(q) - n
        /\ Len(q) \in Nat /\ kept \in Nat /\ n \in Nat /\ kept + n <= Len(q)
    BY <1>1
  <2>2. CASE i <= kept
    <3>1. At(i) = i /\ i \in 1..kept /\ i \in 1..Len(q)
      BY ONLY <2>1, <2>2
    <3>2. r[i] = q[i]
      BY <3>1
    <3> HIDE DEF At
    <3> QED BY ONLY <2>2, <3>1, <3>2
  <2>3. CASE i > kept
    <3>1. /\ At(i) = i + n /\ i \in (kept + 1)..(Len(q) - n)
          /\ i + n \in 1..Len(q) /\ i + n > kept + n
      BY ONLY <2>1, <2>3
    <3>2. r[i] = q[i + n]
      BY <3>1
    <3> HIDE DEF At
    <3> QED BY ONLY <3>1, <3>2
  <2> QED BY ONLY <2>1, <2>2, <2>3
<1>3. \A i, j \in 1..Len(q) : i < j => q[i] < q[j]
  BY <1>1 DEF Ordered
<1>4. \A i, j \in 1..Len(r) : i < j => r[i] < r[j]
  <2>1. ASSUME NEW i \in 1..Len(r), NEW j \in 1..Len(r), i < j PROVE At(i) < At(j)
    BY <2>1
  <2> HIDE DEF At
  <2> QED BY ONLY <1>2, <1>3, <2>1
<1>5. Range(r) \subseteq Range(q) /\ Range(r) \cap dropped = {}
  <2>1. ASSUME NEW i \in 1..Len(r) PROVE r[i] \in Range(q) /\ r[i] \notin dropped
    <3>1. PICK p \in 1..Len(q) : r[i] = q[p] /\ (p <= kept \/ p > kept + n)
      BY <1>2
    <3>2. ASSUME NEW k \in (kept + 1)..(kept + n) PROVE q[k] # q[p]
      <4>0. /\ k \in Nat /\ p \in Nat /\ kept + 1 <= k /\ k <= kept + n
            /\ Len(q) \in Nat /\ kept + n <= Len(q)
        BY <1>1
      <4>1. k \in 1..Len(q)
        BY ONLY <4>0
      <4>2. q[k] \in Nat /\ q[p] \in Nat
        BY ONLY <1>1, <4>1
      <4>3. CASE p <= kept
        <5>1. p < k
          BY ONLY <4>0, <4>3
        <5>2. q[p] < q[k]
          BY ONLY <1>3, <4>1, <5>1
        <5> QED BY ONLY <4>2, <5>2
      <4>4. CASE p > kept + n
        <5>1. k < p
          BY ONLY <4>0, <4>4
        <5>2. q[k] < q[p]
          BY ONLY <1>3, <4>1, <5>1
        <5> QED BY ONLY <4>2, <5>2
      <4> QED BY ONLY <3>1, <4>3, <4>4
    <3>3. r[i] \in Range(q)
      BY ONLY <1>1, <3>1 DEF Range
    <3> QED BY ONLY <3>1, <3>2, <3>3
  <2>2. ASSUME NEW v \in Range(r) PROVE v \in Range(q) /\ v \notin dropped
    <3> HIDE DEF dropped
    <3> QED BY ONLY <1>1, <2>1 DEF Range
  <2> HIDE DEF dropped
  <2> QED BY ONLY <2>2
<1>6. Range(q) = Range(r) \cup dropped
  <2>1. ASSUME NEW i \in 1..Len(q) PROVE q[i] \in Range(r) \cup dropped
    <3>1. CASE i <= kept
      <4>0. /\ i \in Nat /\ 1 <= i /\ Len(q) \in Nat /\ kept + n <= Len(q)
            /\ Len(r) = Len(q) - n
        BY <1>1
      <4>1. i \in 1..Len(r) /\ i \in 1..kept
        BY ONLY <3>1, <4>0
      <4>2. r[i] = q[i]
        BY <4>1
      <4> QED BY ONLY <1>1, <4>1, <4>2 DEF Range
    <3>2. CASE i > kept /\ i <= kept + n
      <4>1. i \in (kept + 1)..(kept + n)
        BY ONLY <1>1, <3>2
      <4> QED BY ONLY <4>1
    <3>3. CASE i > kept + n
      <4>0. /\ i \in Nat /\ Len(q) \in Nat /\ i <= Len(q) /\ Len(r) = Len(q) - n
        BY <1>1
      <4>1. i - n \in 1..Len(r) /\ i - n \in (kept + 1)..Len(r) /\ (i - n) + n = i
        BY ONLY <3>3, <4>0
      <4>2. r[i - n] = q[i]
        BY <4>1
      <4> QED BY <1>1, <4>1, <4>2 DEF Range
    <3> QED BY <1>1, <3>1, <3>2, <3>3
  <2>2. dropped \subseteq Range(q)
    <3>1. \A i \in (kept + 1)..(kept + n) : i \in DOMAIN q
      BY <1>1
    <3> QED BY <3>1 DEF Range
  <2>3. Range(q) \subseteq Range(r) \cup dropped
    <3> HIDE DEF dropped
    <3> QED BY ONLY <1>1, <2>1 DEF Range
  <2> HIDE DEF dropped
  <2> QED BY ONLY <1>5, <2>2, <2>3
<1> HIDE DEF dropped
<1>7. Range(q) \cap lost = {} /\ Range(q) \cup lost = 1..last
  BY DEF Ordered
<1>8. Range(r) \cap (lost \cup dropped) = {} /\ Range(r) \cup (lost \cup dropped) = 1..last
  BY ONLY <1>5, <1>6, <1>7
<1>9. Ordered(r, lost \cup dropped, last)
  BY ONLY <1>1, <1>4, <1>8 DEF Ordered
<1> QED BY <1>9 DEF dropped

\* A new request gets the next id and is behind all others.
LEMMA AppendedLast ==
    ASSUME NEW q \in Seq(Nat), NEW r \in Seq(Nat), NEW lost, NEW last \in Nat,
           Len(r) = Len(q) + 1, \A i \in 1..Len(q) : r[i] = q[i], r[Len(r)] = last + 1,
           Ordered(q, lost, last)
    PROVE  Ordered(r, lost, last + 1)
<1>1. /\ Len(q) \in Nat /\ DOMAIN q = 1..Len(q) /\ DOMAIN r = 1..(Len(q) + 1)
      /\ \A i \in 1..Len(q) : q[i] \in 1..last
  BY DEF Ordered, Range
<1>2. Range(r) = Range(q) \cup {last + 1}
  <2>1. ASSUME NEW i \in DOMAIN r PROVE r[i] \in Range(q) \cup {last + 1}
    <3>1. CASE i = Len(q) + 1
      BY <1>1, <3>1
    <3>2. CASE i # Len(q) + 1
      <4>1. i \in 1..Len(q) /\ i \in DOMAIN q
        BY ONLY <1>1, <3>2
      <4>2. r[i] = q[i]
        BY <4>1
      <4> QED BY ONLY <4>1, <4>2 DEF Range
    <3> QED BY ONLY <3>1, <3>2
  <2>2. ASSUME NEW i \in DOMAIN q PROVE q[i] \in Range(r)
    <3>1. i \in DOMAIN r /\ r[i] = q[i]
      BY <1>1
    <3> QED BY ONLY <3>1 DEF Range
  <2>3. last + 1 \in Range(r)
    <3>1. Len(q) + 1 \in DOMAIN r /\ r[Len(q) + 1] = last + 1
      BY <1>1
    <3> QED BY ONLY <3>1 DEF Range
  <2>4. Range(r) \subseteq Range(q) \cup {last + 1} /\ Range(q) \subseteq Range(r)
    BY ONLY <2>1, <2>2 DEF Range
  <2> QED BY ONLY <2>3, <2>4
<1>3. \A i, j \in DOMAIN r : i < j => r[i] < r[j]
  <2>1. ASSUME NEW i \in 1..(Len(q) + 1), NEW j \in 1..(Len(q) + 1), i < j PROVE r[i] < r[j]
    <3>0. i \in 1..Len(q)
      BY ONLY <1>1, <2>1
    <3>1. i \in 1..Len(q) /\ r[i] = q[i] /\ q[i] \in 1..last
      BY <1>1, <3>0
    <3>2. CASE j = Len(q) + 1
      <4>1. r[j] = last + 1
        BY <1>1, <3>2
      <4> QED BY ONLY last \in Nat, <3>1, <4>1
    <3>3. CASE j # Len(q) + 1
      <4>1. j \in 1..Len(q) /\ r[j] = q[j]
        <5>1. j \in Nat /\ 1 <= j /\ j <= Len(q) + 1 /\ Len(q) \in Nat
          BY <1>1
        <5>2. j \in 1..Len(q)
          BY <3>3, <5>1
        <5> QED BY <5>2
      <4>2. q[i] < q[j]
        <5>1. \A k, l \in DOMAIN q : k < l => q[k] < q[l]
          BY DEF Ordered
        <5>2. i \in DOMAIN q /\ j \in DOMAIN q
          BY <1>1, <3>1, <4>1
        <5> QED BY <2>1, <5>1, <5>2
      <4> QED BY <3>1, <4>1, <4>2
    <3> QED BY <3>2, <3>3
  <2> QED BY <1>1, <2>1
<1>4. Range(q) \cap lost = {} /\ Range(q) \cup lost = 1..last
  BY DEF Ordered
<1>5. Range(r) \cap lost = {} /\ Range(r) \cup lost = 1..(last + 1)
  BY ONLY <1>2, <1>4
<1> QED BY ONLY <1>3, <1>5 DEF Ordered

\* The requests that Newest drops are those whose ids it adds to the lost ones.
LEMMA DroppedIds ==
    ASSUME NEW s \in Seq(Request), NEW n \in 0..Len(s),
           Len(Newest(s)) = Len(s) - n, \A i \in 1..(Len(s) - n) : Newest(s)[i] = s[n + i],
           \A i, j \in 1..Len(s) : i < j => s[i].id < s[j].id
    PROVE  Ids(s) \ Ids(Newest(s)) = {s[i].id : i \in 1..n}
<1>1. /\ Len(s) \in Nat /\ DOMAIN s = 1..Len(s) /\ \A i \in 1..Len(s) : s[i].id \in Nat
      /\ DOMAIN Newest(s) = 1..(Len(s) - n)
  <2>1. Newest(s) \in Seq(Request)
    BY NewestKeeps
  <2>2. \A i \in 1..Len(s) : s[i] \in Request
    OBVIOUS
  <2> QED BY <2>1, <2>2 DEF Request
<1>2. Ids(s) = {s[i].id : i \in 1..Len(s)}
  BY <1>1 DEF Ids
<1>3. Ids(Newest(s)) = {s[n + i].id : i \in 1..(Len(s) - n)}
  BY <1>1 DEF Ids
<1>4. ASSUME NEW i \in 1..n PROVE s[i].id \in Ids(s) /\ s[i].id \notin Ids(Newest(s))
  <2>1. i \in 1..Len(s)
    BY <1>1
  <2>2. ASSUME NEW k \in 1..(Len(s) - n) PROVE s[i].id # s[n + k].id
    <3>1. n + k \in 1..Len(s) /\ i < n + k
      BY <1>1
    <3> QED BY <1>1, <2>1, <3>1
  <2> QED BY <1>2, <1>3, <2>1, <2>2
<1>5. ASSUME NEW i \in 1..Len(s), i \notin 1..n PROVE s[i].id \in Ids(Newest(s))
  <2>1. i - n \in 1..(Len(s) - n) /\ n + (i - n) = i
    BY <1>1, <1>5
  <2> QED BY <1>3, <2>1
<1>6. Ids(s) \ Ids(Newest(s)) \subseteq {s[i].id : i \in 1..n}
  BY <1>2, <1>5
<1>7. {s[i].id : i \in 1..n} \subseteq Ids(s) \ Ids(Newest(s))
  BY <1>4
<1> QED BY <1>6, <1>7

InOrder == Ordered(AllIds(applied, waiting, inbox, invokes), gone, lastId)

LEMMA InOrderIsActionsInOrder == InOrder <=> ActionsInOrder
BY DEF InOrder, Ordered, AllIds, IdsOf, ActionsInOrder, InFlight

\* The node applies what it holds, or keeps it: every id stays where it is.
LEMMA ServiceKeepsOrder ==
    ASSUME ActionsTyped, ActionsTyped', HoldInv, InOrder, Service
    PROVE  InOrder'
<1> DEFINE q == AllIds(applied, waiting, inbox, invokes)
           r == AllIds(applied', waiting', inbox', invokes')
<1>1. /\ Arranged(q, applied, waiting, inbox, invokes)
      /\ Arranged(r, applied', waiting', inbox', invokes')
  BY IdsAreArranged DEF ActionsTyped
<1>2. /\ Len(applied) \in Nat /\ Len(waiting) \in Nat /\ Len(inbox) \in Nat /\ Len(invokes) \in Nat
      /\ waiting \o inbox \in Seq(Request) /\ Len(waiting \o inbox) = Len(waiting) + Len(inbox)
      /\ \A i \in 1..Len(waiting) : (waiting \o inbox)[i] = waiting[i]
      /\ \A i \in 1..Len(inbox) : (waiting \o inbox)[Len(waiting) + i] = inbox[i]
  BY DEF ActionsTyped
<1>3. /\ inbox' = <<>> /\ UNCHANGED <<invokes, gone, lastId>> /\ ServiceActions(now, running)
  BY DEF Service, ServiceActions
<1> DEFINE A == Len(applied)
           W == Len(waiting)
           B == Len(inbox)
           V == Len(invokes)
<1> HIDE DEF q, r
<1>4. /\ q \in Seq(Nat) /\ Len(q) = A + W + B + V
      /\ \A i \in 1..A : q[i] = applied[i].id
      /\ \A i \in 1..(W + B) : q[A + i] = (waiting \o inbox)[i].id
      /\ \A i \in 1..V : q[A + W + B + i] = invokes[i].id
  <2>1. ASSUME NEW i \in 1..(W + B) PROVE q[A + i] = (waiting \o inbox)[i].id
    <3>1. CASE i <= W
      BY <1>1, <1>2, <3>1 DEF Arranged
    <3>2. CASE i > W
      <4>1. i - W \in 1..B /\ A + W + (i - W) = A + i /\ W + (i - W) = i
        BY <1>2, <3>2
      <4>2. q[A + W + (i - W)] = inbox[i - W].id /\ (waiting \o inbox)[W + (i - W)] = inbox[i - W]
        BY <1>1, <1>2, <4>1 DEF Arranged
      <4> QED BY <4>1, <4>2
    <3> QED BY <1>2, <3>1, <3>2
  <2> QED BY <1>1, <2>1 DEF Arranged
<1>5. /\ r \in Seq(Nat) /\ Len(r) = A + W + B + V
      /\ \A i \in 1..A : r[i] = applied[i].id
      /\ \A i \in 1..(W + B) : r[A + i] = (waiting \o inbox)[i].id
      /\ \A i \in 1..V : r[A + W + B + i] = invokes[i].id
  <2>1. CASE running
    <3>1. /\ Len(applied') = A + (W + B)
          /\ \A i \in 1..A : applied'[i].id = applied[i].id
          /\ \A i \in 1..(W + B) : applied'[A + i].id = (waiting \o inbox)[i].id
      <4>1. now \in Nat /\ (switch.pin = "High" => switch.deadline # NoTick)
        BY DEF HoldInv, ActionsTyped
      <4>2. applied' = Serviced(now).applied
        BY <1>3, <2>1 DEF ServiceActions
      <4>3. /\ Len(Serviced(now).applied) = Len(applied) + Len(waiting \o inbox)
            /\ \A i \in 1..Len(applied) : Serviced(now).applied[i].id = applied[i].id
            /\ \A i \in 1..Len(waiting \o inbox) :
                  Serviced(now).applied[Len(applied) + i].id = (waiting \o inbox)[i].id
        BY <4>1, ServicedTurns
      <4> QED BY <1>2, <4>2, <4>3
    <3>2. waiting' = <<>> /\ Len(waiting') = 0 /\ Len(inbox') = 0 /\ invokes' = invokes
      BY <1>3, <2>1 DEF ServiceActions
    <3>3. /\ r \in Seq(Nat) /\ Len(r) = A + (W + B) + 0 + 0 + V
          /\ \A i \in 1..(A + (W + B)) : r[i] = applied'[i].id
          /\ \A i \in 1..V : r[A + (W + B) + 0 + 0 + i] = invokes[i].id
      BY <1>1, <3>1, <3>2 DEF Arranged
    <3>4. ASSUME NEW i \in 1..A PROVE r[i] = applied[i].id
      BY <1>2, <3>1, <3>3
    <3>5. ASSUME NEW i \in 1..(W + B) PROVE r[A + i] = (waiting \o inbox)[i].id
      <4>1. A + i \in 1..(A + (W + B))
        BY <1>2
      <4> QED BY <3>1, <3>3, <4>1
    <3>6. ASSUME NEW i \in 1..V PROVE r[A + W + B + i] = invokes[i].id
      <4>1. A + (W + B) + 0 + 0 + i = A + W + B + i
        BY <1>2
      <4> QED BY <3>3, <4>1
    <3>7. A + (W + B) + 0 + 0 + V = A + W + B + V
      BY <1>2
    <3> QED BY <3>3, <3>4, <3>5, <3>6, <3>7
  <2>2. CASE ~running
    <3>1. /\ applied' = applied /\ waiting' = waiting \o inbox /\ Len(waiting') = W + B
          /\ Len(inbox') = 0 /\ invokes' = invokes
      BY <1>2, <1>3, <2>2 DEF ServiceActions
    <3>2. /\ r \in Seq(Nat) /\ Len(r) = A + (W + B) + 0 + V
          /\ \A i \in 1..A : r[i] = applied[i].id
          /\ \A i \in 1..(W + B) : r[A + i] = (waiting \o inbox)[i].id
          /\ \A i \in 1..V : r[A + (W + B) + 0 + i] = invokes[i].id
      BY <1>1, <3>1 DEF Arranged
    <3>3. A + (W + B) + 0 = A + W + B
      BY <1>2
    <3>4. /\ Len(r) = A + W + B + V
          /\ \A i \in 1..V : r[A + W + B + i] = invokes[i].id
      BY <3>2, <3>3
    <3> QED BY <3>2, <3>4
  <2> QED BY <2>1, <2>2
<1>6. q = r
  <2>1. ASSUME NEW i \in 1..(A + W + B + V) PROVE q[i] = r[i]
    <3>1. CASE i <= A
      BY <1>2, <1>4, <1>5, <3>1
    <3>2. CASE i > A /\ i <= A + (W + B)
      <4>1. i - A \in 1..(W + B) /\ A + (i - A) = i
        BY <1>2, <3>2
      <4>2. q[A + (i - A)] = r[A + (i - A)]
        BY <1>4, <1>5, <4>1
      <4> QED BY <4>1, <4>2
    <3>3. CASE i > A + (W + B)
      <4>1. i - (A + (W + B)) \in 1..V /\ A + W + B + (i - (A + (W + B))) = i
        BY <1>2, <3>3
      <4>2. q[A + W + B + (i - (A + (W + B)))] = r[A + W + B + (i - (A + (W + B)))]
        BY <1>4, <1>5, <4>1
      <4> QED BY <4>1, <4>2
    <3> QED BY <1>2, <3>1, <3>2, <3>3
  <2> QED BY <1>4, <1>5, <2>1, SeqEqual
<1> QED BY <1>3, <1>6 DEF InOrder, q, r

\* A reset of the board drops the requests that wait.
LEMMA ResetKeepsOrder ==
    ASSUME ActionsTyped, ActionsTyped', InOrder, ResetActions
    PROVE  InOrder'
<1> DEFINE q == AllIds(applied, waiting, inbox, invokes)
           r == AllIds(applied', waiting', inbox', invokes')
           A == Len(applied)
           W == Len(waiting)
           B == Len(inbox)
           V == Len(invokes)
<1>1. /\ Arranged(q, applied, waiting, inbox, invokes)
      /\ Arranged(r, applied', waiting', inbox', invokes')
  BY IdsAreArranged DEF ActionsTyped
<1>2. A \in Nat /\ W \in Nat /\ B \in Nat /\ V \in Nat /\ DOMAIN waiting = 1..W
  BY DEF ActionsTyped
<1>3. /\ applied' = applied /\ waiting' = <<>> /\ inbox' = inbox /\ invokes' = invokes
      /\ gone' = gone \cup Ids(waiting) /\ lastId' = lastId /\ Len(waiting') = 0
  BY DEF ResetActions
<1> HIDE DEF q, r
<1>4. /\ q \in Seq(Nat) /\ Len(q) = A + W + B + V
      /\ \A i \in 1..A : q[i] = applied[i].id
      /\ \A i \in 1..W : q[A + i] = waiting[i].id
      /\ \A i \in 1..B : q[A + W + i] = inbox[i].id
      /\ \A i \in 1..V : q[A + W + B + i] = invokes[i].id
  BY <1>1 DEF Arranged
<1>5. /\ r \in Seq(Nat) /\ Len(r) = A + 0 + B + V
      /\ \A i \in 1..A : r[i] = applied[i].id
      /\ \A i \in 1..B : r[A + 0 + i] = inbox[i].id
      /\ \A i \in 1..V : r[A + 0 + B + i] = invokes[i].id
  BY <1>1, <1>3 DEF Arranged
<1>6. \A i \in 1..A : r[i] = q[i]
  BY <1>4, <1>5
<1>7. ASSUME NEW i \in (A + 1)..Len(r) PROVE r[i] = q[i + W]
  <2>1. CASE i <= A + B
    <3>1. i - A \in 1..B /\ A + 0 + (i - A) = i /\ A + W + (i - A) = i + W
      BY <1>2, <2>1
    <3>2. r[A + 0 + (i - A)] = q[A + W + (i - A)]
      BY <1>4, <1>5, <3>1
    <3> QED BY <3>1, <3>2
  <2>2. CASE i > A + B
    <3>1. /\ i - (A + B) \in 1..V /\ A + 0 + B + (i - (A + B)) = i
          /\ A + W + B + (i - (A + B)) = i + W
      BY <1>2, <1>5, <2>2
    <3>2. r[A + 0 + B + (i - (A + B))] = q[A + W + B + (i - (A + B))]
      BY <1>4, <1>5, <3>1
    <3> QED BY <3>1, <3>2
  <2> QED BY <1>2, <1>5, <2>1, <2>2
<1>8. A + W <= Len(q) /\ Len(r) = Len(q) - W
  BY <1>2, <1>4, <1>5
<1>9. Ordered(r, gone \cup {q[i] : i \in (A + 1)..(A + W)}, lastId)
  <2>1. Ordered(q, gone, lastId)
    BY DEF InOrder, q
  <2> HIDE DEF A, W, B, V
  <2> QED BY <1>2, <1>4, <1>5, <1>6, <1>7, <1>8, <2>1, DroppedInOrder
<1>10. Ids(waiting) = {q[i] : i \in (A + 1)..(A + W)}
  <2>1. Ids(waiting) = {waiting[i].id : i \in 1..W}
    BY <1>2 DEF Ids
  <2>2. ASSUME NEW i \in 1..W PROVE waiting[i].id \in {q[k] : k \in (A + 1)..(A + W)}
    <3>1. A + i \in (A + 1)..(A + W) /\ q[A + i] = waiting[i].id
      BY <1>2, <1>4
    <3> QED BY <3>1
  <2>3. ASSUME NEW k \in (A + 1)..(A + W) PROVE q[k] \in {waiting[i].id : i \in 1..W}
    <3>1. k - A \in 1..W /\ A + (k - A) = k
      BY <1>2
    <3>2. q[A + (k - A)] = waiting[k - A].id
      BY <1>4, <3>1
    <3> QED BY <3>1, <3>2
  <2> QED BY <2>1, <2>2, <2>3
<1> QED BY <1>3, <1>9, <1>10 DEF InOrder, r

\* What Newest drops from the middle of the ids, when the requests `s` are in their place.
LEMMA NewestInOrder ==
    ASSUME NEW q \in Seq(Nat), NEW r \in Seq(Nat), NEW kept \in Nat, NEW s \in Seq(Request),
           NEW lost, NEW last, Ordered(q, lost, last),
           Len(q) = kept + Len(s), Len(r) = kept + Len(Newest(s)),
           \A i \in 1..kept : r[i] = q[i],
           \A i \in 1..Len(s) : q[kept + i] = s[i].id,
           \A i \in 1..Len(Newest(s)) : r[kept + i] = Newest(s)[i].id
    PROVE  Ordered(r, lost \cup (Ids(s) \ Ids(Newest(s))), last)
<1>1. PICK n \in 0..Len(s) : /\ Len(Newest(s)) = Len(s) - n
                             /\ \A i \in 1..(Len(s) - n) : Newest(s)[i] = s[n + i]
  BY NewestKeeps
<1>2. Len(s) \in Nat /\ n \in Nat /\ DOMAIN q = 1..(kept + Len(s))
  BY <1>1
<1>3. \A i, j \in 1..Len(s) : i < j => s[i].id < s[j].id
  <2>1. ASSUME NEW i \in 1..Len(s), NEW j \in 1..Len(s), i < j PROVE s[i].id < s[j].id
    <3>1. kept + i \in DOMAIN q /\ kept + j \in DOMAIN q /\ kept + i < kept + j
      BY <1>2, <2>1
    <3>2. q[kept + i] < q[kept + j]
      BY <3>1 DEF Ordered
    <3> QED BY <3>2
  <2> QED BY <2>1
<1>4. Ids(s) \ Ids(Newest(s)) = {s[i].id : i \in 1..n}
  BY <1>1, <1>3, DroppedIds
<1>5. ASSUME NEW i \in (kept + 1)..Len(r) PROVE r[i] = q[i + n]
  <2>0. i \in Nat /\ kept + 1 <= i /\ i <= kept + Len(Newest(s))
    BY <1>1, <1>2
  <2>1. i - kept \in 1..(Len(s) - n) /\ kept + (i - kept) = i
    BY <1>1, <1>2, <2>0
  <2>2. r[kept + (i - kept)] = s[n + (i - kept)].id
    BY <1>1, <2>1
  <2>3. n + (i - kept) \in 1..Len(s) /\ kept + (n + (i - kept)) = i + n
    BY <1>2, <2>0, <2>1
  <2>4. q[kept + (n + (i - kept))] = s[n + (i - kept)].id
    BY <2>3
  <2> QED BY <2>1, <2>2, <2>3, <2>4
<1>6. kept + n <= Len(q) /\ Len(r) = Len(q) - n
  BY <1>1, <1>2
<1>7. Ordered(r, lost \cup {q[i] : i \in (kept + 1)..(kept + n)}, last)
  <2>1. n \in Nat /\ \A i \in 1..kept : r[i] = q[i]
    BY <1>2
  <2> QED BY <1>5, <1>6, <2>1, DroppedInOrder
<1>8. {s[i].id : i \in 1..n} = {q[i] : i \in (kept + 1)..(kept + n)}
  <2>1. ASSUME NEW i \in 1..n PROVE s[i].id \in {q[k] : k \in (kept + 1)..(kept + n)}
    <3>1. i \in 1..Len(s) /\ kept + i \in (kept + 1)..(kept + n)
      BY <1>2
    <3>2. q[kept + i] = s[i].id
      BY <3>1
    <3> QED BY <3>1, <3>2
  <2>2. ASSUME NEW k \in (kept + 1)..(kept + n) PROVE q[k] \in {s[i].id : i \in 1..n}
    <3>1. k - kept \in 1..n /\ k - kept \in 1..Len(s) /\ kept + (k - kept) = k
      BY <1>1, <1>2
    <3>2. q[kept + (k - kept)] = s[k - kept].id
      BY <3>1
    <3> QED BY <3>1, <3>2
  <2> QED BY <2>1, <2>2
<1> QED BY <1>4, <1>7, <1>8

\* The arbiter forwards what was published: its subscriber keeps the newest.
LEMMA ForwardKeepsOrder ==
    ASSUME ActionsTyped, ActionsTyped', InOrder, ForwardInvokes
    PROVE  InOrder'
<1> DEFINE q == AllIds(applied, waiting, inbox, invokes)
           r == AllIds(applied', waiting', inbox', invokes')
           s == inbox \o invokes
           A == Len(applied)
           W == Len(waiting)
           B == Len(inbox)
           V == Len(invokes)
<1>1. /\ Arranged(q, applied, waiting, inbox, invokes)
      /\ Arranged(r, applied', waiting', inbox', invokes')
  BY IdsAreArranged DEF ActionsTyped
<1>2. /\ A \in Nat /\ W \in Nat /\ B \in Nat /\ V \in Nat
      /\ s \in Seq(Request) /\ Len(s) = B + V
      /\ \A i \in 1..B : s[i] = inbox[i]
      /\ \A i \in 1..V : s[B + i] = invokes[i]
  BY DEF ActionsTyped
<1>3. /\ applied' = applied /\ waiting' = waiting /\ inbox' = Newest(s) /\ invokes' = <<>>
      /\ gone' = gone \cup (Ids(s) \ Ids(Newest(s))) /\ lastId' = lastId /\ Len(invokes') = 0
  BY DEF ForwardInvokes
<1> HIDE DEF q, r, s
<1>4. /\ q \in Seq(Nat) /\ Len(q) = A + W + B + V
      /\ \A i \in 1..A : q[i] = applied[i].id
      /\ \A i \in 1..W : q[A + i] = waiting[i].id
      /\ \A i \in 1..B : q[A + W + i] = inbox[i].id
      /\ \A i \in 1..V : q[A + W + B + i] = invokes[i].id
  BY <1>1 DEF Arranged
<1>5. /\ r \in Seq(Nat) /\ Len(r) = A + W + Len(Newest(s)) + 0
      /\ \A i \in 1..A : r[i] = applied[i].id
      /\ \A i \in 1..W : r[A + i] = waiting[i].id
      /\ \A i \in 1..Len(Newest(s)) : r[A + W + i] = Newest(s)[i].id
  BY <1>1, <1>3 DEF Arranged
<1>6. ASSUME NEW i \in 1..(A + W) PROVE r[i] = q[i]
  <2>1. CASE i <= A
    BY <1>2, <1>4, <1>5, <2>1
  <2>2. CASE i > A
    <3>1. i - A \in 1..W /\ A + (i - A) = i
      BY <1>2, <2>2
    <3>2. r[A + (i - A)] = q[A + (i - A)]
      BY <1>4, <1>5, <3>1
    <3> QED BY <3>1, <3>2
  <2> QED BY <1>2, <2>1, <2>2
<1>7. ASSUME NEW i \in 1..Len(s) PROVE q[(A + W) + i] = s[i].id
  <2>1. CASE i <= B
    <3>1. i \in 1..B /\ A + W + i = (A + W) + i
      BY <1>2, <2>1
    <3> QED BY <1>2, <1>4, <3>1
  <2>2. CASE i > B
    <3>1. i - B \in 1..V /\ B + (i - B) = i /\ A + W + B + (i - B) = (A + W) + i
      BY <1>2, <2>2
    <3>2. q[A + W + B + (i - B)] = invokes[i - B].id /\ s[B + (i - B)] = invokes[i - B]
      BY <1>2, <1>4, <3>1
    <3> QED BY <3>1, <3>2
  <2> QED BY <1>2, <2>1, <2>2
<1>8. A + W \in Nat /\ Len(q) = (A + W) + Len(s) /\ Len(r) = (A + W) + Len(Newest(s))
  <2>1. Len(Newest(s)) \in Nat
    BY <1>2, NewestKeeps
  <2> QED BY <1>2, <1>4, <1>5, <2>1
<1>9. Ordered(q, gone, lastId)
  BY DEF InOrder, q
<1>10. Ordered(r, gone \cup (Ids(s) \ Ids(Newest(s))), lastId)
  BY <1>2, <1>4, <1>5, <1>6, <1>7, <1>8, <1>9, NewestInOrder
<1> QED BY <1>3, <1>10 DEF InOrder, r

\* A request is published: it is the last one, and the oldest of too many are lost.
LEMMA QueueKeepsOrder ==
    ASSUME ActionsTyped, ActionsTyped', InOrder, NEW ms \in Nat, QueueInvoke(ms)
    PROVE  InOrder'
<1> DEFINE q == AllIds(applied, waiting, inbox, invokes)
           s == Append(invokes, [id |-> lastId + 1, ms |-> ms])
           t == AllIds(applied, waiting, inbox, s)
           r == AllIds(applied', waiting', inbox', invokes')
           A == Len(applied)
           W == Len(waiting)
           B == Len(inbox)
           V == Len(invokes)
<1>1. /\ s \in Seq(Request) /\ Len(s) = V + 1
      /\ \A i \in 1..V : s[i] = invokes[i]
      /\ s[V + 1].id = lastId + 1
  <2>1. [id |-> lastId + 1, ms |-> ms] \in Request /\ invokes \in Seq(Request)
    BY DEF Request, ActionsTyped
  <2> QED BY <2>1
<1>2. /\ A \in Nat /\ W \in Nat /\ B \in Nat /\ V \in Nat /\ lastId \in Nat
  BY DEF ActionsTyped
<1>3. /\ applied' = applied /\ waiting' = waiting /\ inbox' = inbox /\ invokes' = Newest(s)
      /\ gone' = gone \cup (Ids(s) \ Ids(Newest(s))) /\ lastId' = lastId + 1
  BY DEF QueueInvoke
<1> HIDE DEF s
<1>4. /\ Arranged(q, applied, waiting, inbox, invokes)
      /\ Arranged(t, applied, waiting, inbox, s)
      /\ Arranged(r, applied', waiting', inbox', invokes')
  BY <1>1, IdsAreArranged DEF ActionsTyped
<1> HIDE DEF q, r, t
<1>5. /\ q \in Seq(Nat) /\ Len(q) = A + W + B + V
      /\ \A i \in 1..A : q[i] = applied[i].id
      /\ \A i \in 1..W : q[A + i] = waiting[i].id
      /\ \A i \in 1..B : q[A + W + i] = inbox[i].id
      /\ \A i \in 1..V : q[A + W + B + i] = invokes[i].id
  BY <1>4 DEF Arranged
<1>6. /\ t \in Seq(Nat) /\ Len(t) = A + W + B + Len(s)
      /\ \A i \in 1..A : t[i] = applied[i].id
      /\ \A i \in 1..W : t[A + i] = waiting[i].id
      /\ \A i \in 1..B : t[A + W + i] = inbox[i].id
      /\ \A i \in 1..Len(s) : t[A + W + B + i] = s[i].id
  BY <1>4 DEF Arranged
<1>7. /\ r \in Seq(Nat) /\ Len(r) = A + W + B + Len(Newest(s))
      /\ \A i \in 1..A : r[i] = applied[i].id
      /\ \A i \in 1..W : r[A + i] = waiting[i].id
      /\ \A i \in 1..B : r[A + W + i] = inbox[i].id
      /\ \A i \in 1..Len(Newest(s)) : r[A + W + B + i] = Newest(s)[i].id
  BY <1>3, <1>4 DEF Arranged
<1>8. ASSUME NEW i \in 1..(A + W + B) PROVE t[i] = q[i] /\ r[i] = q[i]
  <2>1. CASE i <= A
    BY <1>2, <1>5, <1>6, <1>7, <2>1
  <2>2. CASE i > A /\ i <= A + W
    <3>1. i - A \in 1..W /\ A + (i - A) = i
      BY <1>2, <2>2
    <3>2. t[A + (i - A)] = q[A + (i - A)] /\ r[A + (i - A)] = q[A + (i - A)]
      BY <1>5, <1>6, <1>7, <3>1
    <3> QED BY <3>1, <3>2
  <2>3. CASE i > A + W
    <3>1. i - (A + W) \in 1..B /\ A + W + (i - (A + W)) = i
      BY <1>2, <2>3
    <3>2. /\ t[A + W + (i - (A + W))] = q[A + W + (i - (A + W))]
          /\ r[A + W + (i - (A + W))] = q[A + W + (i - (A + W))]
      BY <1>5, <1>6, <1>7, <3>1
    <3> QED BY <3>1, <3>2
  <2> QED BY <1>2, <2>1, <2>2, <2>3
<1>9. Ordered(t, gone, lastId + 1)
  <2>1. Len(t) = Len(q) + 1
    BY ONLY <1>1, <1>2, <1>5, <1>6
  <2>2. t[Len(t)] = lastId + 1
    <3>1. A + W + B + (V + 1) = Len(t) /\ V + 1 \in 1..Len(s)
      BY ONLY <1>1, <1>2, <1>6
    <3>2. t[A + W + B + (V + 1)] = s[V + 1].id
      BY ONLY <1>6, <3>1
    <3> QED BY ONLY <1>1, <3>1, <3>2
  <2>3. ASSUME NEW i \in 1..Len(q) PROVE t[i] = q[i]
    <3>0. i \in Nat /\ 1 <= i /\ i <= A + W + B + V
      BY ONLY <1>2, <1>5
    <3>1. CASE i <= A + W + B
      <4>1. i \in 1..(A + W + B)
        BY ONLY <1>2, <3>0, <3>1
      <4> QED BY ONLY <1>8, <4>1
    <3>2. CASE i > A + W + B
      <4>1. i - (A + W + B) \in 1..V /\ A + W + B + (i - (A + W + B)) = i
        <5> HIDE DEF A, W, B, V
        <5> QED BY ONLY <1>2, <3>0, <3>2
      <4>2. i - (A + W + B) \in 1..Len(s) /\ s[i - (A + W + B)] = invokes[i - (A + W + B)]
        <5> HIDE DEF A, W, B, V
        <5> QED BY ONLY <1>1, <1>2, <4>1
      <4>3. t[A + W + B + (i - (A + W + B))] = q[A + W + B + (i - (A + W + B))]
        BY ONLY <1>5, <1>6, <4>1, <4>2
      <4> QED BY ONLY <4>1, <4>3
    <3> QED BY ONLY <1>2, <3>0, <3>1, <3>2
  <2>4. Ordered(q, gone, lastId)
    BY DEF InOrder, q
  <2>5. q \in Seq(Nat) /\ t \in Seq(Nat) /\ lastId \in Nat
    BY ONLY <1>2, <1>5, <1>6
  <2> QED BY ONLY <2>1, <2>2, <2>3, <2>4, <2>5, AppendedLast
<1>10. Ordered(r, gone \cup (Ids(s) \ Ids(Newest(s))), lastId + 1)
  <2>1. A + W + B \in Nat
    BY <1>2
  <2>2. ASSUME NEW i \in 1..(A + W + B) PROVE r[i] = t[i]
    BY ONLY <1>8
  <2>3. /\ t \in Seq(Nat) /\ Len(t) = A + W + B + Len(s)
        /\ r \in Seq(Nat) /\ Len(r) = A + W + B + Len(Newest(s))
        /\ s \in Seq(Request)
    BY ONLY <1>1, <1>6, <1>7
  <2>4. \A i \in 1..Len(s) : t[A + W + B + i] = s[i].id
    BY ONLY <1>6
  <2>5. \A i \in 1..Len(Newest(s)) : r[A + W + B + i] = Newest(s)[i].id
    BY ONLY <1>7
  <2> DEFINE kept == A + W + B
  <2> HIDE DEF kept
  <2>6. /\ kept \in Nat /\ Len(t) = kept + Len(s) /\ Len(r) = kept + Len(Newest(s))
        /\ \A i \in 1..kept : r[i] = t[i]
        /\ \A i \in 1..Len(s) : t[kept + i] = s[i].id
        /\ \A i \in 1..Len(Newest(s)) : r[kept + i] = Newest(s)[i].id
    BY ONLY <2>1, <2>2, <2>3, <2>4, <2>5 DEF kept
  <2> QED BY ONLY <1>9, <2>3, <2>6, NewestInOrder
<1> QED BY <1>3, <1>10 DEF InOrder, r

LEMMA InitOrder == Init => InOrder
<1> SUFFICES ASSUME Init PROVE InOrder
  OBVIOUS
<1>1. ActionsTyped /\ applied = <<>> /\ waiting = <<>> /\ inbox = <<>> /\ invokes = <<>>
  BY InitActions DEF Init, ActionInit
<1> DEFINE q == AllIds(applied, waiting, inbox, invokes)
<1>2. Arranged(q, applied, waiting, inbox, invokes)
  <2>1. /\ applied \in Seq(Outcome) /\ waiting \in Seq(Request)
        /\ inbox \in Seq(Request) /\ invokes \in Seq(Request)
    BY <1>1 DEF ActionsTyped
  <2> QED BY <2>1, IdsAreArranged
<1> HIDE DEF q
<1>3. q \in Seq(Nat) /\ Len(q) = 0 + 0 + 0 + 0
  BY <1>1, <1>2 DEF Arranged
<1>4. DOMAIN q = {} /\ Range(q) = {}
  BY <1>3 DEF Range
<1>5. gone = {} /\ lastId = 0
  BY DEF Init, ActionInit
<1>6. Ordered(q, gone, lastId)
  BY <1>4, <1>5 DEF Ordered
<1> QED BY <1>6 DEF InOrder, q

\* Requests and results that stay are in order as they were.
LEMMA SameOrder == InOrder /\ UNCHANGED actionVars => InOrder'
BY DEF actionVars, InOrder

LEMMA NextOrder ==
    ActionsTyped /\ ActionsTyped' /\ HoldInv /\ InOrder /\ [Next]_vars => InOrder'
<1> SUFFICES ASSUME ActionsTyped, ActionsTyped', HoldInv, InOrder, [Next]_vars PROVE InOrder'
  OBVIOUS
<1>1. CASE UNCHANGED vars
  BY <1>1, SameOrder DEF vars
<1>2. CASE Node
  <2>1. CASE HandleControl
    <3>1. UNCHANGED actionVars \/ ResetActions
      BY <2>1 DEF HandleControl
    <3> QED BY <3>1, SameOrder, ResetKeepsOrder
  <2>2. CASE EndControl
    BY <2>2, SameOrder DEF EndControl
  <2>3. CASE Service
    BY <2>3, ServiceKeepsOrder
  <2>4. CASE EmitPass \/ QuietPass
    <3>1. PICK emits \in BOOLEAN : GuestPass(emits)
      BY <2>4 DEF EmitPass, QuietPass
    <3>2. PICK to, at, spills : Pass(to, at, spills, emits)
      BY <3>1 DEF GuestPass
    <3>3. UNCHANGED actionVars
      BY ONLY <3>2 DEF Pass
    <3> QED BY <3>3, SameOrder
  <2> QED BY <1>2, <2>1, <2>2, <2>3, <2>4 DEF Node
<1>3. CASE Arbiter \/ Server \/ Client
  <2>1. UNCHANGED actionVars \/ ForwardInvokes \/ \E ms \in Holds[scene] : QueueInvoke(ms)
    BY <1>3, ElsewhereStays DEF Arbiter
  <2>2. Holds[scene] \subseteq Nat
    BY BenchAssumption DEF ActionsTyped
  <2> QED BY <2>1, <2>2, SameOrder, ForwardKeepsOrder, QueueKeepsOrder
<1> QED BY <1>1, <1>2, <1>3 DEF Next

\* Requests are applied in the order they were published in, none twice, and one that is
\* not applied is on its way, waits in the node or was dropped: by a full queue or by a
\* reset (queue_invoke, forward_invokes, service_actions and the node's Reset).
THEOREM RequestsInOrder == Spec => []ActionsInOrder
<1>1. InOrder => ActionsInOrder
  BY InOrderIsActionsInOrder
<1> QED BY <1>1, InitActions, NextHold, InitOrder, NextOrder, PTL DEF Spec

-----------------------------------------------------------------------------
(* The records of an export arrive, but for what full queues overwrite. *)

Sample == [probe : Probes, time : Nat, value : Nat \cup Levels]
CsvChunk == [id : Nat, recs : Seq(Sample), last : BOOLEAN, truncated : BOOLEAN]

\* What is gathered when a chunk has been looked at, and after each chunk in turn.
Grown(recs, id, chunk) == IF chunk.id = id THEN recs \o chunk.recs ELSE recs
Grows(f, recs, id, chunks) ==
    /\ f \in [0..Len(chunks) -> Seq(Sample)]
    /\ f[0] = recs
    /\ \A n \in 1..Len(chunks) : f[n] = Grown(f[n - 1], id, chunks[n])

LEMMA GrownTyped ==
    ASSUME NEW recs \in Seq(Sample), NEW id, NEW chunk \in CsvChunk
    PROVE  Grown(recs, id, chunk) \in Seq(Sample)
<1>1. chunk.recs \in Seq(Sample)
  BY DEF CsvChunk
<1>2. recs \o chunk.recs \in Seq(Sample)
  BY <1>1, ConcatProperties
<1> QED BY <1>2 DEF Grown

LEMMA RowsAssociate == \A a, b, c \in Seq(Sample) : (a \o b) \o c = a \o (b \o c)
<1> DEFINE T == Sample
<1>1. \A a, b, c \in Seq(T) : (a \o b) \o c = a \o (b \o c)
  <2> HIDE DEF T
  <2> QED BY ONLY ConcatAssociative
<1> QED BY ONLY <1>1

LEMMA GrownBehind ==
    ASSUME NEW before \in Seq(Sample), NEW recs \in Seq(Sample), NEW id, NEW chunk \in CsvChunk
    PROVE  Grown(before \o recs, id, chunk) = before \o Grown(recs, id, chunk)
<1>1. chunk.recs \in Seq(Sample)
  BY DEF CsvChunk
<1> DEFINE S == Seq(Sample)
<1>2. \A a, b, c \in S : (a \o b) \o c = a \o (b \o c)
  BY ONLY RowsAssociate
<1>3. before \in S /\ recs \in S /\ chunk.recs \in S
  BY <1>1
<1> HIDE DEF S
<1>4. (before \o recs) \o chunk.recs = before \o (recs \o chunk.recs)
  BY ONLY <1>2, <1>3
<1> QED BY ONLY <1>4 DEF Grown

LEMMA GrowsExists ==
    ASSUME NEW recs \in Seq(Sample), NEW id, NEW chunks \in Seq(CsvChunk)
    PROVE  \E f : Grows(f, recs, id, chunks)
<1> DEFINE N == Len(chunks)
           Leads(f, k) == f[0] = recs /\ \A n \in 1..k : f[n] = Grown(f[n - 1], id, chunks[n])
           S == {k \in 0..N : \E f \in [0..k -> Seq(Sample)] : Leads(f, k)}
<1>1. N \in Nat /\ \A n \in 1..N : chunks[n] \in CsvChunk
  OBVIOUS
<1>2. 0 \in S
  <2> DEFINE g == [n \in 0..0 |-> recs]
  <2>1. g \in [0..0 -> Seq(Sample)] /\ Leads(g, 0)
    OBVIOUS
  <2> HIDE DEF g, Leads
  <2> QED BY <1>1, <2>1
<1>3. ASSUME NEW k \in 1..N, k - 1 \in S PROVE k \in S
  <2>1. PICK f \in [0..(k - 1) -> Seq(Sample)] : Leads(f, k - 1)
    BY <1>3
  <2> DEFINE next == Grown(f[k - 1], id, chunks[k])
             g == [n \in 0..k |-> IF n = k THEN next ELSE f[n]]
  <2>2. next \in Seq(Sample)
    <3>1. f[k - 1] \in Seq(Sample) /\ chunks[k] \in CsvChunk
      BY ONLY <1>1, <2>1
    <3> QED BY ONLY <3>1, GrownTyped
  <2>3. g \in [0..k -> Seq(Sample)]
    <3> HIDE DEF next
    <3> QED BY ONLY <1>1, <2>1, <2>2
  <2>4. g[0] = recs
    BY ONLY <1>1, <2>1
  <2>5. ASSUME NEW n \in 1..k PROVE g[n] = Grown(g[n - 1], id, chunks[n])
    <3>1. CASE n = k
      <4>1. g[n] = next /\ g[n - 1] = f[k - 1]
        <5> HIDE DEF next
        <5> QED BY ONLY <1>1, <3>1
      <4> QED BY ONLY <3>1, <4>1
    <3>2. CASE n # k
      <4>1. n \in 1..(k - 1) /\ g[n] = f[n] /\ g[n - 1] = f[n - 1]
        BY ONLY <1>1, <3>2
      <4>2. f[n] = Grown(f[n - 1], id, chunks[n])
        BY ONLY <2>1, <4>1
      <4> QED BY ONLY <4>1, <4>2
    <3> QED BY ONLY <3>1, <3>2
  <2>6. Leads(g, k)
    BY ONLY <2>4, <2>5
  <2> HIDE DEF g, Leads
  <2> QED BY ONLY <1>1, <2>3, <2>6
<1>4. N \in S
  <2> HIDE DEF S
  <2>1. 0..N \subseteq S
    BY ONLY <1>1, <1>2, <1>3, UpTo
  <2> QED BY ONLY <1>1, <2>1
<1>5. PICK f \in [0..N -> Seq(Sample)] : Leads(f, N)
  BY ONLY <1>4
<1>6. Grows(f, recs, id, chunks)
  BY ONLY <1>5 DEF Grows
<1> QED BY ONLY <1>6

\* Gathered is the last of what is gathered after each chunk.
LEMMA GatheredGrows ==
    ASSUME NEW recs \in Seq(Sample), NEW id, NEW chunks \in Seq(CsvChunk)
    PROVE  \E f : Grows(f, recs, id, chunks) /\ Gathered(recs, id, chunks) = f[Len(chunks)]
<1> DEFINE N == Len(chunks)
           F(f) == [n \in 0..Len(chunks) |->
                      IF n = 0 THEN recs
                      ELSE IF chunks[n].id = id THEN f[n - 1] \o chunks[n].recs ELSE f[n - 1]]
           G(f) == [n \in 0..N |-> IF n = 0 THEN recs ELSE Grown(f[n - 1], id, chunks[n])]
           upTo == CHOOSE f : f = F(f)
<1>1. N \in Nat /\ \A n \in 1..N : chunks[n] \in CsvChunk
  OBVIOUS
<1>2. ASSUME NEW f PROVE F(f) = G(f)
  BY DEF Grown
<1>3. Gathered(recs, id, chunks) = upTo[N]
  BY DEF Gathered
<1>4. PICK g : Grows(g, recs, id, chunks)
  BY ONLY recs \in Seq(Sample), chunks \in Seq(CsvChunk), GrowsExists
<1>5. g = G(g)
  <2>1. /\ g \in [0..N -> Seq(Sample)] /\ g[0] = recs
        /\ \A n \in 1..N : g[n] = Grown(g[n - 1], id, chunks[n])
    BY ONLY <1>4 DEF Grows
  <2>2. ASSUME NEW n \in 0..N
        PROVE  g[n] = IF n = 0 THEN recs ELSE Grown(g[n - 1], id, chunks[n])
    <3>1. CASE n = 0
      BY ONLY <2>1, <3>1
    <3>2. CASE n # 0
      <4>1. n \in 1..N
        BY ONLY <1>1, <3>2
      <4> QED BY ONLY <2>1, <3>2, <4>1
    <3> QED BY ONLY <3>1, <3>2
  <2> QED BY ONLY <2>1, <2>2
<1>6. g = F(g)
  BY <1>2, <1>5
<1>7. upTo = F(upTo)
  <2> HIDE DEF F
  <2> QED BY <1>6
<1>8. upTo = G(upTo)
  <2> HIDE DEF F, G
  <2> QED BY <1>2, <1>7
<1> HIDE DEF upTo, F
<1>9. upTo[0] = recs /\ \A n \in 1..N : upTo[n] = Grown(upTo[n - 1], id, chunks[n])
  BY ONLY <1>1, <1>8
<1> DEFINE S == {n \in 0..N : upTo[n] \in Seq(Sample)}
<1>10. 0 \in S
  BY <1>1, <1>9
<1>11. ASSUME NEW n \in 1..N, n - 1 \in S PROVE n \in S
  <2>1. upTo[n - 1] \in Seq(Sample) /\ chunks[n] \in CsvChunk
    BY ONLY <1>1, <1>11
  <2>2. upTo[n] \in Seq(Sample)
    BY ONLY <1>9, <2>1, GrownTyped
  <2> QED BY ONLY <1>1, <2>2
<1>12. 0..N \subseteq S
  <2> HIDE DEF S
  <2> QED BY ONLY <1>1, <1>10, <1>11, UpTo
<1>13. upTo \in [0..N -> Seq(Sample)]
  BY ONLY <1>8, <1>12
<1>14. Grows(upTo, recs, id, chunks)
  BY ONLY <1>9, <1>13 DEF Grows
<1> QED BY ONLY <1>3, <1>14

\* Nothing is gathered from no chunks, or from those of other exports.
LEMMA GatheredNone ==
    ASSUME NEW recs \in Seq(Sample), NEW id, NEW chunks \in Seq(CsvChunk),
           \A n \in DOMAIN chunks : chunks[n].id # id
    PROVE  Gathered(recs, id, chunks) = recs
<1> DEFINE N == Len(chunks)
<1>1. N \in Nat /\ \A n \in 1..N : chunks[n].id # id
  OBVIOUS
<1>2. PICK f : Grows(f, recs, id, chunks) /\ Gathered(recs, id, chunks) = f[N]
  BY ONLY recs \in Seq(Sample), chunks \in Seq(CsvChunk), GatheredGrows
<1>3. f[0] = recs /\ \A n \in 1..N : f[n] = Grown(f[n - 1], id, chunks[n])
  BY ONLY <1>2 DEF Grows
<1> DEFINE S == {n \in 0..N : f[n] = recs}
<1>4. 0 \in S
  BY ONLY <1>1, <1>3
<1>5. ASSUME NEW n \in 1..N, n - 1 \in S PROVE n \in S
  <2>1. f[n] = f[n - 1]
    BY ONLY <1>1, <1>3 DEF Grown
  <2> QED BY ONLY <1>1, <1>5, <2>1
<1>6. 0..N \subseteq S
  <2> HIDE DEF S
  <2> QED BY ONLY <1>1, <1>4, <1>5, UpTo
<1> QED BY ONLY <1>1, <1>2, <1>6

\* The last chunk is the last that is looked at.
LEMMA GatheredLast ==
    ASSUME NEW recs \in Seq(Sample), NEW id, NEW chunks \in Seq(CsvChunk), NEW chunk \in CsvChunk
    PROVE  Gathered(recs, id, Append(chunks, chunk)) = Grown(Gathered(recs, id, chunks), id, chunk)
<1> DEFINE N == Len(chunks)
           more == Append(chunks, chunk)
<1>1. /\ N \in Nat /\ more \in Seq(CsvChunk) /\ Len(more) = N + 1
      /\ \A n \in 1..N : more[n] = chunks[n]
      /\ more[N + 1] = chunk
  BY AppendProperties
<1>2. PICK f : Grows(f, recs, id, chunks) /\ Gathered(recs, id, chunks) = f[N]
  BY ONLY recs \in Seq(Sample), chunks \in Seq(CsvChunk), GatheredGrows
<1> HIDE DEF more
<1>3. PICK g : Grows(g, recs, id, more) /\ Gathered(recs, id, more) = g[N + 1]
  BY ONLY recs \in Seq(Sample), <1>1, GatheredGrows
<1>4. f[0] = recs /\ \A n \in 1..N : f[n] = Grown(f[n - 1], id, chunks[n])
  BY ONLY <1>2 DEF Grows
<1>5. g[0] = recs /\ \A n \in 1..(N + 1) : g[n] = Grown(g[n - 1], id, more[n])
  BY ONLY <1>1, <1>3 DEF Grows
<1> DEFINE S == {n \in 0..N : g[n] = f[n]}
<1>6. 0 \in S
  BY ONLY <1>1, <1>4, <1>5
<1>7. ASSUME NEW n \in 1..N, n - 1 \in S PROVE n \in S
  <2>1. n \in 1..(N + 1) /\ g[n - 1] = f[n - 1] /\ n \in 0..N
    BY ONLY <1>1, <1>7
  <2>2. g[n] = Grown(g[n - 1], id, more[n]) /\ f[n] = Grown(f[n - 1], id, chunks[n])
    BY ONLY <1>4, <1>5, <2>1
  <2>3. g[n] = f[n]
    BY ONLY <1>1, <2>1, <2>2
  <2> QED BY ONLY <2>1, <2>3
<1>8. 0..N \subseteq S
  <2> HIDE DEF S
  <2> QED BY ONLY <1>1, <1>6, <1>7, UpTo
<1>9. g[N] = f[N]
  BY ONLY <1>1, <1>8
<1>10. g[N + 1] = Grown(g[N], id, more[N + 1])
  <2>1. N + 1 \in 1..(N + 1) /\ (N + 1) - 1 = N
    BY ONLY <1>1
  <2> QED BY ONLY <1>5, <2>1
<1> QED BY ONLY <1>1, <1>2, <1>3, <1>9, <1>10 DEF more

\* What was there before stays in front.
LEMMA GatheredBehind ==
    ASSUME NEW before \in Seq(Sample), NEW recs \in Seq(Sample), NEW id,
           NEW chunks \in Seq(CsvChunk)
    PROVE  /\ Gathered(recs, id, chunks) \in Seq(Sample)
           /\ Gathered(before \o recs, id, chunks) = before \o Gathered(recs, id, chunks)
<1> DEFINE N == Len(chunks)
           all == before \o recs
<1>1. N \in Nat /\ all \in Seq(Sample) /\ \A n \in 1..N : chunks[n] \in CsvChunk
  OBVIOUS
<1>2. PICK f : Grows(f, recs, id, chunks) /\ Gathered(recs, id, chunks) = f[N]
  BY ONLY recs \in Seq(Sample), chunks \in Seq(CsvChunk), GatheredGrows
<1>3. PICK g : Grows(g, all, id, chunks) /\ Gathered(all, id, chunks) = g[N]
  <2> HIDE DEF all
  <2> QED BY ONLY chunks \in Seq(CsvChunk), <1>1, GatheredGrows
<1>4. /\ f \in [0..N -> Seq(Sample)] /\ f[0] = recs
      /\ \A n \in 1..N : f[n] = Grown(f[n - 1], id, chunks[n])
  BY ONLY <1>2 DEF Grows
<1>5. /\ g[0] = all /\ \A n \in 1..N : g[n] = Grown(g[n - 1], id, chunks[n])
  BY ONLY <1>3 DEF Grows
<1> DEFINE S == {n \in 0..N : g[n] = before \o f[n]}
<1>6. 0 \in S
  BY ONLY <1>1, <1>4, <1>5
<1>7. ASSUME NEW n \in 1..N, n - 1 \in S PROVE n \in S
  <2>1. g[n - 1] = before \o f[n - 1] /\ n \in 0..N /\ n - 1 \in 0..N
    BY ONLY <1>1, <1>7
  <2>0. f[n - 1] \in Seq(Sample)
    BY ONLY <1>4, <2>1
  <2>2. g[n] = Grown(g[n - 1], id, chunks[n]) /\ f[n] = Grown(f[n - 1], id, chunks[n])
    BY ONLY <1>4, <1>5
  <2>3. chunks[n] \in CsvChunk
    BY ONLY <1>1
  <2>4. Grown(before \o f[n - 1], id, chunks[n]) = before \o Grown(f[n - 1], id, chunks[n])
    BY ONLY before \in Seq(Sample), <2>0, <2>3, GrownBehind
  <2>5. g[n] = before \o f[n]
    BY ONLY <2>1, <2>2, <2>4
  <2> QED BY ONLY <2>1, <2>5
<1>8. 0..N \subseteq S
  <2> HIDE DEF S
  <2> QED BY ONLY <1>1, <1>6, <1>7, UpTo
<1>9. N \in 0..N
  BY ONLY <1>1
<1>10. f[N] \in Seq(Sample)
  BY ONLY <1>4, <1>9
<1>11. g[N] = before \o f[N]
  BY ONLY <1>8, <1>9
<1> QED BY ONLY <1>2, <1>3, <1>10, <1>11

LEMMA GatheredTyped ==
    ASSUME NEW recs \in Seq(Sample), NEW id, NEW chunks \in Seq(CsvChunk)
    PROVE  Gathered(recs, id, chunks) \in Seq(Sample)
<1> DEFINE N == Len(chunks)
<1>1. N \in Nat
  OBVIOUS
<1>2. PICK f : Grows(f, recs, id, chunks) /\ Gathered(recs, id, chunks) = f[N]
  BY ONLY recs \in Seq(Sample), chunks \in Seq(CsvChunk), GatheredGrows
<1>3. f \in [0..N -> Seq(Sample)] /\ N \in 0..N
  BY ONLY <1>1, <1>2 DEF Grows
<1> QED BY ONLY <1>2, <1>3

\* What is gathered of chunks that follow others is gathered on top of what these left.
LEMMA GatheredThen ==
    ASSUME NEW recs \in Seq(Sample), NEW id, NEW a \in Seq(CsvChunk), NEW b \in Seq(CsvChunk)
    PROVE  Gathered(recs, id, a \o b) = Gathered(Gathered(recs, id, a), id, b)
<1> DEFINE N == Len(a)
           M == Len(b)
           all == a \o b
           half == Gathered(recs, id, a)
<1>1. /\ N \in Nat /\ M \in Nat /\ all \in Seq(CsvChunk) /\ Len(all) = N + M
      /\ \A n \in 1..N : all[n] = a[n]
      /\ \A n \in 1..M : all[N + n] = b[n]
  OBVIOUS
<1>2. half \in Seq(Sample)
  BY ONLY recs \in Seq(Sample), a \in Seq(CsvChunk), GatheredTyped
<1> HIDE DEF all
<1>3. PICK f : Grows(f, recs, id, a) /\ half = f[N]
  BY ONLY recs \in Seq(Sample), a \in Seq(CsvChunk), GatheredGrows
<1> HIDE DEF half
<1>4. PICK g : Grows(g, half, id, b) /\ Gathered(half, id, b) = g[M]
  BY ONLY <1>2, b \in Seq(CsvChunk), GatheredGrows
<1>5. PICK h : Grows(h, recs, id, all) /\ Gathered(recs, id, all) = h[N + M]
  <2>1. \E h : Grows(h, recs, id, all) /\ Gathered(recs, id, all) = h[Len(all)]
    BY ONLY recs \in Seq(Sample), <1>1, GatheredGrows
  <2> QED BY ONLY <1>1, <2>1
<1>6. f[0] = recs /\ \A n \in 1..N : f[n] = Grown(f[n - 1], id, a[n])
  BY ONLY <1>3 DEF Grows
<1>7. g[0] = half /\ \A n \in 1..M : g[n] = Grown(g[n - 1], id, b[n])
  BY ONLY <1>4 DEF Grows
<1>8. h[0] = recs /\ \A n \in 1..(N + M) : h[n] = Grown(h[n - 1], id, all[n])
  BY ONLY <1>1, <1>5 DEF Grows
<1> DEFINE S == {n \in 0..N : h[n] = f[n]}
           T == {n \in 0..M : h[N + n] = g[n]}
<1>9. 0 \in S
  BY ONLY <1>1, <1>6, <1>8
<1>10. ASSUME NEW n \in 1..N, n - 1 \in S PROVE n \in S
  <2>1. n \in 1..(N + M) /\ h[n - 1] = f[n - 1] /\ n \in 0..N
    BY ONLY <1>1, <1>10
  <2>2. h[n] = f[n]
    BY ONLY <1>1, <1>6, <1>8, <2>1
  <2> QED BY ONLY <2>1, <2>2
<1>11. h[N] = f[N]
  <2>1. 0..N \subseteq S
    <3> HIDE DEF S
    <3> QED BY ONLY <1>1, <1>9, <1>10, UpTo
  <2> QED BY ONLY <1>1, <2>1
<1>12. 0 \in T
  <2>1. N + 0 = N /\ 0 \in 0..M
    BY ONLY <1>1
  <2> QED BY ONLY <1>3, <1>7, <1>11, <2>1
<1>13. ASSUME NEW n \in 1..M, n - 1 \in T PROVE n \in T
  <2>1. /\ N + n \in 1..(N + M) /\ (N + n) - 1 = N + (n - 1) /\ h[N + (n - 1)] = g[n - 1]
        /\ n \in 0..M
    BY ONLY <1>1, <1>13
  <2>2. h[N + n] = Grown(h[(N + n) - 1], id, all[N + n]) /\ all[N + n] = b[n]
    BY ONLY <1>1, <1>8, <2>1
  <2>3. h[N + n] = g[n]
    BY ONLY <1>7, <2>1, <2>2
  <2> QED BY ONLY <2>1, <2>3
<1>14. h[N + M] = g[M]
  <2>1. 0..M \subseteq T
    <3> HIDE DEF T
    <3> QED BY ONLY <1>1, <1>12, <1>13, UpTo
  <2>2. M \in T
    <3> HIDE DEF T, M
    <3> QED BY ONLY <1>1, <2>1
  <2> QED BY ONLY <2>2
<1> QED BY ONLY <1>4, <1>5, <1>14 DEF all, half

\* What is gathered of chunks that all are the export's, and none of them empty.
LEMMA GatheredCounts ==
    ASSUME NEW id, NEW chunks \in Seq(CsvChunk),
           \A n \in DOMAIN chunks : chunks[n].id = id /\ chunks[n].recs # <<>>
    PROVE  Len(Gathered(<<>>, id, chunks)) >= Len(chunks)
<1> DEFINE N == Len(chunks)
           none == <<>>
<1>1. /\ N \in Nat /\ none \in Seq(Sample)
      /\ \A n \in 1..N : chunks[n].id = id /\ chunks[n].recs # <<>> /\ chunks[n] \in CsvChunk
  OBVIOUS
<1> HIDE DEF none
<1>2. PICK f : Grows(f, none, id, chunks) /\ Gathered(none, id, chunks) = f[N]
  BY ONLY <1>1, chunks \in Seq(CsvChunk), GatheredGrows
<1>3. /\ f \in [0..N -> Seq(Sample)]
      /\ \A n \in 1..N : f[n] = Grown(f[n - 1], id, chunks[n])
  BY ONLY <1>2 DEF Grows
<1> DEFINE S == {n \in 0..N : Len(f[n]) >= n}
<1>4. 0 \in S
  <2>1. f[0] \in Seq(Sample)
    BY ONLY <1>1, <1>3
  <2> QED BY ONLY <1>1, <2>1
<1>5. ASSUME NEW n \in 1..N, n - 1 \in S PROVE n \in S
  <2>1. f[n - 1] \in Seq(Sample) /\ Len(f[n - 1]) >= n - 1 /\ n \in 0..N
    BY ONLY <1>1, <1>3, <1>5
  <2> DEFINE old == f[n - 1]
             new == chunks[n].recs
  <2>2. new \in Seq(Sample) /\ new # <<>>
    BY ONLY <1>1 DEF CsvChunk
  <2>3. f[n] = old \o new
    BY ONLY <1>1, <1>3 DEF Grown
  <2> HIDE DEF old, new
  <2>4. Len(old \o new) = Len(old) + Len(new) /\ Len(new) >= 1 /\ Len(old) \in Nat
    BY ONLY <2>1, <2>2 DEF old
  <2>5. Len(f[n]) >= n
    BY ONLY <1>1, <2>1, <2>3, <2>4 DEF old
  <2> QED BY ONLY <2>1, <2>5
<1>6. N \in S
  <2>1. 0..N \subseteq S
    <3> HIDE DEF S
    <3> QED BY ONLY <1>1, <1>4, <1>5, UpTo
  <2> QED BY ONLY <1>1, <2>1
<1> QED BY ONLY <1>2, <1>6 DEF none

\* Members of a sequence in their order: all of them, some of them, and as many as there are.
LEMMA WithinAll ==
    ASSUME NEW S, NEW recs \in Seq(S)
    PROVE  Within(recs, recs)
<1> DEFINE at == [i \in DOMAIN recs |-> i]
<1>1. at \in [DOMAIN recs -> DOMAIN recs]
  OBVIOUS
<1>2. \A i, j \in DOMAIN recs : i < j => at[i] < at[j]
  OBVIOUS
<1>3. \A i \in DOMAIN recs : recs[i] = recs[at[i]]
  OBVIOUS
<1> QED BY ONLY <1>1, <1>2, <1>3 DEF Within

LEMMA ConcatItems ==
    ASSUME NEW S, NEW a \in Seq(S), NEW b \in Seq(S)
    PROVE  /\ a \o b \in Seq(S) /\ Len(a \o b) = Len(a) + Len(b)
           /\ DOMAIN (a \o b) = 1..(Len(a) + Len(b))
           /\ \A i \in 1..Len(a) : (a \o b)[i] = a[i]
           /\ \A i \in 1..Len(b) : (a \o b)[Len(a) + i] = b[i]
OBVIOUS

LEMMA WithinLess ==
    ASSUME NEW S, NEW recs \in Seq(S), NEW p \in Seq(S), NEW m \in Seq(S),
           NEW s \in Seq(S), Within((p \o m) \o s, recs)
    PROVE  Within(p \o s, recs)
<1> DEFINE N == Len(p)
           M == Len(m)
           K == Len(s)
           line == (p \o m) \o s
           less == p \o s
           skip(i) == IF i <= N THEN i ELSE i + M
<1>1. N \in Nat /\ M \in Nat /\ K \in Nat
  OBVIOUS
<1>2. /\ DOMAIN line = 1..(N + M + K)
      /\ \A i \in 1..N : line[i] = p[i]
      /\ \A i \in 1..K : line[(N + M) + i] = s[i]
  <2> DEFINE q == p \o m
  <2>1. q \in Seq(S) /\ Len(q) = N + M /\ \A i \in 1..N : q[i] = p[i]
    BY ConcatItems
  <2> HIDE DEF q
  <2>2. /\ DOMAIN (q \o s) = 1..(Len(q) + Len(s))
        /\ \A i \in 1..Len(q) : (q \o s)[i] = q[i]
        /\ \A i \in 1..Len(s) : (q \o s)[Len(q) + i] = s[i]
    <3>1. q \in Seq(S)
      BY ONLY <2>1
    <3> QED BY ONLY <3>1, s \in Seq(S), ConcatItems
  <2>3. \A i \in 1..N : i \in 1..(N + M)
    BY ONLY <1>1
  <2> QED BY ONLY <2>1, <2>2, <2>3 DEF q
<1>3. /\ DOMAIN less = 1..(N + K)
      /\ \A i \in 1..N : less[i] = p[i]
      /\ \A i \in 1..K : less[N + i] = s[i]
  BY ConcatItems
<1>4. PICK at \in [DOMAIN line -> DOMAIN recs] :
         /\ \A i, j \in DOMAIN line : i < j => at[i] < at[j]
         /\ \A i \in DOMAIN line : line[i] = recs[at[i]]
  BY DEF Within
<1> HIDE DEF line, less
<1>5. \A i \in 1..(N + K) : skip(i) \in 1..(N + M + K)
  BY ONLY <1>1
<1>6. \A i, j \in 1..(N + K) : i < j => skip(i) < skip(j)
  BY ONLY <1>1
<1>7. ASSUME NEW i \in 1..(N + K) PROVE less[i] = line[skip(i)]
  <2>1. CASE i <= N
    BY ONLY <1>1, <1>2, <1>3, <2>1, i \in 1..(N + K)
  <2>2. CASE i > N
    <3> DEFINE k == i - N
    <3> HIDE DEF N, M, K
    <3>1. k \in 1..K /\ N + k = i /\ (N + M) + k = skip(i)
      BY ONLY <1>1, <2>2, i \in 1..(N + K)
    <3> HIDE DEF k, skip
    <3>2. less[N + k] = s[k] /\ line[(N + M) + k] = s[k]
      BY ONLY <1>2, <1>3, <3>1
    <3> QED BY ONLY <3>1, <3>2
  <2> QED BY ONLY <1>1, <2>1, <2>2, i \in 1..(N + K)
<1> HIDE DEF skip
<1> DEFINE to == [i \in DOMAIN less |-> at[skip(i)]]
<1>8. to \in [DOMAIN less -> DOMAIN recs]
  BY ONLY <1>2, <1>3, <1>4, <1>5
<1>9. \A i, j \in DOMAIN less : i < j => to[i] < to[j]
  BY ONLY <1>2, <1>3, <1>4, <1>5, <1>6
<1>10. \A i \in DOMAIN less : less[i] = recs[to[i]]
  BY ONLY <1>2, <1>3, <1>4, <1>5, <1>7
<1>11. Within(less, recs)
  BY ONLY <1>8, <1>9, <1>10 DEF Within
<1> QED BY ONLY <1>11 DEF less

LEMMA WithinWhole ==
    ASSUME NEW recs \in Seq(Sample), NEW rows \in Seq(Sample), Len(rows) = Len(recs),
           Within(rows, recs)
    PROVE  rows = recs
<1> DEFINE N == Len(recs)
<1>1. N \in Nat /\ DOMAIN rows = 1..N /\ DOMAIN recs = 1..N
  OBVIOUS
<1>2. PICK at \in [1..N -> 1..N] : /\ \A i, j \in 1..N : i < j => at[i] < at[j]
                                   /\ \A i \in 1..N : rows[i] = recs[at[i]]
  BY ONLY <1>1, Within(rows, recs) DEF Within
<1> DEFINE S == {n \in 0..N : n > 0 => at[n] >= n}
           T == {n \in 0..N : n < N => at[N - n] <= N - n}
<1> HIDE DEF N
<1>3. ASSUME NEW n \in 1..N PROVE at[n] >= n
  <2>1. 0 \in S
    BY ONLY <1>1
  <2>2. ASSUME NEW k \in 1..N, k - 1 \in S PROVE k \in S
    <3>1. CASE k = 1
      BY ONLY <1>1, <1>2, <2>2, <3>1
    <3>2. CASE k > 1
      <4>1. k - 1 \in 1..N /\ at[k - 1] >= k - 1
        BY ONLY <1>1, <2>2, <3>2
      <4>2. at[k - 1] < at[k] /\ at[k - 1] \in Nat /\ at[k] \in Nat
        BY ONLY <1>1, <1>2, <2>2, <4>1
      <4> QED BY ONLY <1>1, <2>2, <4>1, <4>2
    <3> QED BY ONLY <1>1, <2>2, <3>1, <3>2
  <2>3. 0..N \subseteq S
    <3> HIDE DEF S
    <3> QED BY ONLY <1>1, <2>1, <2>2, UpTo
  <2> QED BY ONLY <1>1, <1>3, <2>3
<1>4. ASSUME NEW n \in 1..N PROVE at[n] <= n
  <2>1. 0 \in T
    BY ONLY <1>1, <1>2
  <2>2. ASSUME NEW k \in 1..N, k - 1 \in T PROVE k \in T
    <3>1. CASE k = N
      BY ONLY <1>1, <2>2, <3>1
    <3>2. CASE k < N
      <4>1. N - (k - 1) \in 1..N /\ N - k \in 1..N /\ at[N - (k - 1)] <= N - (k - 1)
        BY ONLY <1>1, <2>2, <3>2
      <4>2. /\ at[N - k] < at[N - (k - 1)]
            /\ at[N - k] \in Nat /\ at[N - (k - 1)] \in Nat
        BY ONLY <1>1, <1>2, <2>2, <4>1
      <4> QED BY ONLY <1>1, <2>2, <4>1, <4>2
    <3> QED BY ONLY <1>1, <2>2, <3>1, <3>2
  <2>3. 0..N \subseteq T
    <3> HIDE DEF T
    <3> QED BY ONLY <1>1, <2>1, <2>2, UpTo
  <2>4. N - n \in 0..N /\ N - n < N /\ N - (N - n) = n
    BY ONLY <1>1, <1>4
  <2> QED BY ONLY <2>3, <2>4
<1>5. \A i \in 1..N : at[i] = i
  BY ONLY <1>1, <1>2, <1>3, <1>4
<1>6. \A i \in 1..N : rows[i] = recs[i]
  BY ONLY <1>2, <1>5
<1> QED BY ONLY <1>1, <1>6, rows \in Seq(Sample), recs \in Seq(Sample)

\* What the node has not sent of an export yet, and what there is of it in the rows of a
\* file, in the chunks on their way and in the node.
CsvExport == [id : Nat, recs : Seq(Sample), truncated : BOOLEAN]
CsvRecord == [recs : Seq(Sample), overwritten : Nat]
Sending(id, out) == out # Nothing /\ out[1].id = id
Unsent(id, out) == IF Sending(id, out) THEN out[1].recs ELSE <<>>
Line(rows, id, chunks, out) == Gathered(rows, id, chunks) \o Unsent(id, out)
OutTyped(out) == out = Nothing \/ \E o \in CsvExport : out = <<o>>

LEMMA UnsentTyped ==
    ASSUME NEW id, NEW out, OutTyped(out)
    PROVE  Unsent(id, out) \in Seq(Sample)
<1>1. CASE out = Nothing
  BY <1>1 DEF Unsent, Sending
<1>2. ASSUME NEW o \in CsvExport, out = <<o>> PROVE Unsent(id, out) \in Seq(Sample)
  BY <1>2 DEF Unsent, Sending, CsvExport
<1> QED BY <1>1, <1>2 DEF OutTyped

LEMMA GatheredFront ==
    ASSUME NEW rows \in Seq(Sample), NEW id, NEW chunks \in Seq(CsvChunk)
    PROVE  /\ Gathered(<<>>, id, chunks) \in Seq(Sample)
           /\ Gathered(rows, id, chunks) = rows \o Gathered(<<>>, id, chunks)
<1> DEFINE none == <<>>
<1>1. none \in Seq(Sample)
  OBVIOUS
<1>2. rows \o none = rows
  BY ONLY rows \in Seq(Sample), ConcatEmptySeq
<1> HIDE DEF none
<1>3. /\ Gathered(none, id, chunks) \in Seq(Sample)
      /\ Gathered(rows \o none, id, chunks) = rows \o Gathered(none, id, chunks)
  BY ONLY <1>1, rows \in Seq(Sample), chunks \in Seq(CsvChunk), GatheredBehind
<1> QED BY ONLY <1>2, <1>3 DEF none

LEMMA GatheredOne ==
    ASSUME NEW rows \in Seq(Sample), NEW id, NEW chunk \in CsvChunk
    PROVE  Gathered(rows, id, <<chunk>>) = Grown(rows, id, chunk)
<1> DEFINE none == <<>>
<1>1. none \in Seq(CsvChunk) /\ DOMAIN none = {} /\ Append(none, chunk) = <<chunk>>
  OBVIOUS
<1> HIDE DEF none
<1>2. Gathered(rows, id, none) = rows
  BY ONLY <1>1, rows \in Seq(Sample), GatheredNone
<1>3. Gathered(rows, id, Append(none, chunk)) = Grown(Gathered(rows, id, none), id, chunk)
  BY ONLY <1>1, rows \in Seq(Sample), chunk \in CsvChunk, GatheredLast
<1> QED BY ONLY <1>1, <1>2, <1>3

\* What a chunk has of an export.
Share(id, chunk) == IF chunk.id = id THEN chunk.recs ELSE <<>>

LEMMA GrownIsShare ==
    ASSUME NEW rows \in Seq(Sample), NEW id, NEW chunk \in CsvChunk
    PROVE  Share(id, chunk) \in Seq(Sample) /\ Grown(rows, id, chunk) = rows \o Share(id, chunk)
<1>1. chunk.recs \in Seq(Sample) /\ <<>> \in Seq(Sample)
  BY DEF CsvChunk
<1>2. rows \o <<>> = rows
  BY ONLY rows \in Seq(Sample), ConcatEmptySeq
<1> QED BY ONLY <1>1, <1>2 DEF Share, Grown

\* A chunk in the middle is taken out.
Loses(line, m, less) == \E p, r \in Seq(Sample) : line = (p \o m) \o r /\ less = p \o r

LEMMA LineLoses ==
    ASSUME NEW rows \in Seq(Sample), NEW id, NEW a \in Seq(CsvChunk), NEW s \in Seq(CsvChunk),
           s # <<>>, NEW out, OutTyped(out)
    PROVE  Loses(Line(rows, id, a \o s, out), Share(id, Head(s)), Line(rows, id, a \o Tail(s), out))
<1> DEFINE c == Head(s)
           t == Tail(s)
           p == Gathered(rows, id, a)
           m == Share(id, c)
           b == Gathered(<<>>, id, t)
           u == Unsent(id, out)
           T == Seq(Sample)
           one == <<c>>
<1>1. c \in CsvChunk /\ t \in Seq(CsvChunk) /\ one \in Seq(CsvChunk) /\ s = one \o t
  OBVIOUS
<1> HIDE DEF c, t
<1>2. p \in T
  BY ONLY rows \in Seq(Sample), a \in Seq(CsvChunk), GatheredTyped
<1> HIDE DEF p
<1>3. m \in T /\ Gathered(p, id, one) = p \o m
  BY ONLY <1>1, <1>2, GatheredOne, GrownIsShare
<1> HIDE DEF m, one
<1>4. b \in T /\ u \in T
  BY ONLY <1>1, <1>2, OutTyped(out), GatheredFront, UnsentTyped
<1>5. p \o m \in T
  BY ONLY <1>2, <1>3, ConcatProperties
<1>6. Gathered(rows, id, a \o s) = (p \o m) \o b
  <2>1. Gathered(rows, id, a \o s) = Gathered(p, id, s)
    BY ONLY rows \in Seq(Sample), a \in Seq(CsvChunk), s \in Seq(CsvChunk), GatheredThen DEF p
  <2>2. Gathered(p, id, s) = Gathered(p \o m, id, t)
    <3>1. Gathered(p, id, one \o t) = Gathered(Gathered(p, id, one), id, t)
      BY ONLY <1>1, <1>2, GatheredThen
    <3> QED BY ONLY <1>1, <1>3, <3>1
  <2>3. Gathered(p \o m, id, t) = (p \o m) \o b
    BY ONLY <1>1, <1>5, GatheredFront
  <2> QED BY ONLY <2>1, <2>2, <2>3
<1>7. Gathered(rows, id, a \o t) = p \o b
  <2>1. Gathered(rows, id, a \o t) = Gathered(p, id, t)
    BY ONLY rows \in Seq(Sample), a \in Seq(CsvChunk), <1>1, GatheredThen DEF p
  <2>2. Gathered(p, id, t) = p \o b
    BY ONLY <1>1, <1>2, GatheredFront
  <2> QED BY ONLY <2>1, <2>2
<1> HIDE DEF b, u
<1>8. \A x, y, z \in T : (x \o y) \o z = x \o (y \o z)
  BY ONLY RowsAssociate
<1>9. b \o u \in T
  BY ONLY <1>4, ConcatProperties
<1> HIDE DEF T
<1>10. ((p \o m) \o b) \o u = (p \o m) \o (b \o u) /\ (p \o b) \o u = p \o (b \o u)
  BY ONLY <1>2, <1>4, <1>5, <1>8
<1>11. Line(rows, id, a \o s, out) = (p \o m) \o (b \o u)
  BY ONLY <1>6, <1>10 DEF Line, u
<1>12. Line(rows, id, a \o t, out) = p \o (b \o u)
  BY ONLY <1>7, <1>10 DEF Line, u
<1>13. Loses(Line(rows, id, a \o s, out), m, Line(rows, id, a \o t, out))
  BY ONLY <1>2, <1>9, <1>11, <1>12 DEF T, Loses
<1> QED BY ONLY <1>13 DEF m, c, t

\* A chunk leaves the node, which keeps the rest of the export.
Sends(o, chunk, left) ==
    \E rest \in Seq(Sample) :
        /\ chunk.id = o.id /\ chunk.recs \o rest = o.recs /\ chunk.last = (rest = <<>>)
        /\ chunk.recs = <<>> => o.recs = <<>>
        /\ left = IF rest = <<>> THEN Nothing ELSE <<[o EXCEPT !.recs = rest]>>

LEMMA LineLeaves ==
    ASSUME NEW rows \in Seq(Sample), NEW id, NEW chunks \in Seq(CsvChunk),
           NEW o \in CsvExport, NEW chunk \in CsvChunk, NEW left, Sends(o, chunk, left)
    PROVE  Line(rows, id, Append(chunks, chunk), left) = Line(rows, id, chunks, <<o>>)
<1> PICK rest \in Seq(Sample) :
       /\ chunk.id = o.id /\ chunk.recs \o rest = o.recs
       /\ left = IF rest = <<>> THEN Nothing ELSE <<[o EXCEPT !.recs = rest]>>
  BY DEF Sends
<1> DEFINE first == chunk.recs
<1> first \in Seq(Sample)
  BY DEF CsvChunk
<1> DEFINE out == <<o>>
           got == Gathered(rows, id, chunks)
           more == Append(chunks, chunk)
<1>1. /\ Unsent(id, out) = IF o.id = id THEN o.recs ELSE <<>>
      /\ Unsent(id, left) = IF o.id = id THEN rest ELSE <<>>
  BY DEF Unsent, Sending, Nothing, CsvExport
<1>2. got \in Seq(Sample)
  BY ONLY rows \in Seq(Sample), chunks \in Seq(CsvChunk), GatheredTyped
<1>3. Gathered(rows, id, more) = IF o.id = id THEN got \o first ELSE got
  <2>1. Gathered(rows, id, more) = Grown(got, id, chunk)
    BY ONLY rows \in Seq(Sample), chunks \in Seq(CsvChunk), chunk \in CsvChunk, GatheredLast
  <2> HIDE DEF got, more
  <2> QED BY ONLY <2>1, chunk.id = o.id DEF Grown
<1>4. (got \o first) \o rest = got \o o.recs
  <2> DEFINE S == Seq(Sample)
  <2>1. \A a, b, c \in S : (a \o b) \o c = a \o (b \o c)
    BY ONLY RowsAssociate
  <2>2. got \in S /\ first \in S /\ rest \in S
    BY <1>2
  <2> HIDE DEF S, got, first
  <2>3. (got \o first) \o rest = got \o (first \o rest)
    BY ONLY <2>1, <2>2
  <2> QED BY ONLY <2>3, chunk.recs \o rest = o.recs DEF first
<1>5. got \o Unsent(id, out) = Gathered(rows, id, more) \o Unsent(id, left)
  <2> HIDE DEF got, more, out, first
  <2> QED BY ONLY <1>1, <1>3, <1>4
<1> QED BY ONLY <1>5 DEF Line

\* Nothing is on its way.
LEMMA LineEnds ==
    ASSUME NEW rows \in Seq(Sample), NEW id, NEW chunks \in Seq(CsvChunk), NEW out,
           ~Sending(id, out), \A i \in DOMAIN chunks : chunks[i].id # id
    PROVE  Line(rows, id, chunks, out) = rows
<1>1. Gathered(rows, id, chunks) = rows
  BY GatheredNone
<1>2. Unsent(id, out) = <<>>
  BY DEF Unsent
<1>3. rows \o <<>> = rows
  BY ONLY rows \in Seq(Sample), ConcatEmptySeq
<1> QED BY ONLY <1>1, <1>2, <1>3 DEF Line

\* Members from which one is taken out, or from the front of which some are.
LEMMA WithinRest ==
    ASSUME NEW S, NEW a \in Seq(S), NEW s \in Seq(S), s # <<>>
    PROVE  a \o Tail(s) \in Seq(S) /\ Within(a \o Tail(s), a \o s)
<1> DEFINE one == <<Head(s)>>
           rest == Tail(s)
           all == a \o s
<1>1. one \in Seq(S) /\ rest \in Seq(S) /\ s = one \o rest
  OBVIOUS
<1> HIDE DEF one, rest
<1>2. all = (a \o one) \o rest /\ all \in Seq(S) /\ a \o rest \in Seq(S)
  <2>1. (a \o one) \o rest = a \o (one \o rest)
    BY ONLY <1>1, a \in Seq(S), ConcatAssociative
  <2> QED BY ONLY <1>1, <2>1, a \in Seq(S), s \in Seq(S), ConcatProperties
<1> HIDE DEF all
<1>3. Within((a \o one) \o rest, all)
  BY ONLY <1>2, WithinAll
<1>4. Within(a \o rest, all)
  BY ONLY <1>1, <1>2, <1>3, a \in Seq(S), WithinLess
<1> QED BY ONLY <1>2, <1>4 DEF all, rest

LEMMA WithinEnd ==
    ASSUME NEW S, NEW a \in Seq(S), NEW b \in Seq(S)
    PROVE  Within(b, a \o b)
<1> DEFINE none == <<>>
           all == a \o b
<1>1. none \in Seq(S) /\ none \o a = a /\ none \o b = b /\ all \in Seq(S)
  <2>1. <<>> \o a = a /\ <<>> \o b = b
    BY ONLY a \in Seq(S), b \in Seq(S), ConcatEmptySeq
  <2>2. all \in Seq(S)
    BY ONLY a \in Seq(S), b \in Seq(S), ConcatProperties
  <2> QED BY ONLY <2>1, <2>2
<1> HIDE DEF none
<1>2. Within((none \o a) \o b, all)
  BY ONLY <1>1, WithinAll DEF all
<1> HIDE DEF all
<1>3. Within(none \o b, all)
  BY ONLY <1>1, <1>2, a \in Seq(S), b \in Seq(S), WithinLess
<1> QED BY ONLY <1>1, <1>3 DEF all

\* The chunks on their way: their exports have begun, in the order of their ids; after the
\* last chunk of an export comes no other; and only an empty export has an empty chunk.
Latest(id, exports) == \A e \in DOMAIN exports : e <= id
Short(x) == Len(x.recs) <= CsvCap => x.overwritten = 0
ChunkOk(c, exports, out) ==
    /\ c.id \in DOMAIN exports /\ (c.last => ~Sending(c.id, out))
    /\ c.recs = <<>> => exports[c.id].recs = <<>>
Before(c, d) == c.id <= d.id /\ (c.last => c.id # d.id)

LineTyped(exports, chunks, out) ==
    /\ DOMAIN exports \subseteq Nat /\ \A id \in DOMAIN exports : exports[id] \in CsvRecord
    /\ chunks \in Seq(CsvChunk) /\ OutTyped(out)
LineOrder(exports, chunks, out) ==
    /\ out # Nothing => /\ out[1].id \in DOMAIN exports /\ Latest(out[1].id, exports)
                        /\ out[1].recs = <<>> => exports[out[1].id].recs = <<>>
    /\ \A i \in DOMAIN chunks : ChunkOk(chunks[i], exports, out)
    /\ \A i, j \in DOMAIN chunks : i < j => Before(chunks[i], chunks[j])

\* What is on its way and what was overwritten is not more than the export, and nothing is
\* overwritten of the newest export before a queue is full of it.
LineCounts(exports, chunks, out) ==
    \A id \in DOMAIN exports :
        /\ Len(Line(<<>>, id, chunks, out)) + exports[id].overwritten <= Len(exports[id].recs)
        /\ Latest(id, exports) => Short(exports[id])
LineOk(exports, chunks, out) ==
    LineTyped(exports, chunks, out) /\ LineOrder(exports, chunks, out)
    /\ LineCounts(exports, chunks, out)

LEMMA LessInOrder ==
    ASSUME NEW exports, NEW chunks, NEW out, LineOrder(exports, chunks, out),
           NEW less, Within(less, chunks)
    PROVE  LineOrder(exports, less, out)
<1>1. PICK at \in [DOMAIN less -> DOMAIN chunks] :
         /\ \A i, j \in DOMAIN less : i < j => at[i] < at[j]
         /\ \A i \in DOMAIN less : less[i] = chunks[at[i]]
  BY DEF Within
<1>2. \A i \in DOMAIN less : ChunkOk(less[i], exports, out)
  BY <1>1 DEF LineOrder
<1>3. \A i, j \in DOMAIN less : i < j => Before(less[i], less[j])
  BY <1>1 DEF LineOrder
<1> QED BY <1>2, <1>3 DEF LineOrder

LEMMA LineInSeq ==
    ASSUME NEW rows \in Seq(Sample), NEW id, NEW chunks \in Seq(CsvChunk), NEW out, OutTyped(out)
    PROVE  Line(rows, id, chunks, out) \in Seq(Sample)
<1>1. Gathered(rows, id, chunks) \in Seq(Sample) /\ Unsent(id, out) \in Seq(Sample)
  BY GatheredTyped, UnsentTyped
<1> QED BY ONLY <1>1, ConcatProperties DEF Line

\* A file gets what is on its way, but for what was overwritten; and nothing is missing of
\* a file but what was overwritten, when nothing is on its way to it.
Partly(x, line) == Within(line, x.recs) /\ Len(line) + x.overwritten = Len(x.recs)
Gone(id, chunks, out) == ~Sending(id, out) /\ \A i \in DOMAIN chunks : chunks[i].id # id
Arrives(rows, id, exports, chunks, out) ==
    IF id \in DOMAIN exports THEN Partly(exports[id], Line(rows, id, chunks, out))
    ELSE rows = <<>>
Accounted(rows, id, exports, chunks, out) ==
    /\ id \in DOMAIN exports /\ Partly(exports[id], rows) /\ Short(exports[id])
    /\ Gone(id, chunks, out)
Follows(exports, chunks, out, exports2, chunks2, out2) ==
    \A rows \in Seq(Sample), id \in Nat :
        /\ Arrives(rows, id, exports, chunks, out) => Arrives(rows, id, exports2, chunks2, out2)
        /\ Accounted(rows, id, exports, chunks, out) => Accounted(rows, id, exports2, chunks2, out2)

\* An export begins.
LEMMA LineBegins ==
    ASSUME NEW exports, NEW chunks, LineOk(exports, chunks, Nothing), NEW o \in CsvExport,
           \A id \in DOMAIN exports : id < o.id, NEW begun,
           begun = [i \in DOMAIN exports \cup {o.id} |->
                       IF i = o.id THEN [recs |-> o.recs, overwritten |-> 0] ELSE exports[i]]
    PROVE  /\ LineOk(begun, chunks, <<o>>)
           /\ Follows(exports, chunks, Nothing, begun, chunks, <<o>>)
<1> DEFINE out == <<o>>
           x == [recs |-> o.recs, overwritten |-> 0]
<1>1. out # Nothing /\ out[1] = o /\ OutTyped(out) /\ OutTyped(Nothing)
  BY DEF Nothing, OutTyped
<1> HIDE DEF out
<1>2. o.id \in Nat /\ o.recs \in Seq(Sample) /\ x \in CsvRecord
  BY DEF CsvExport, CsvRecord
<1>3. /\ LineTyped(exports, chunks, Nothing) /\ LineOrder(exports, chunks, Nothing)
      /\ LineCounts(exports, chunks, Nothing)
  BY DEF LineOk
<1>4. /\ DOMAIN exports \subseteq Nat /\ \A id \in DOMAIN exports : exports[id] \in CsvRecord
      /\ chunks \in Seq(CsvChunk)
  BY ONLY <1>3 DEF LineTyped
<1>5. o.id \notin DOMAIN exports
  BY ONLY <1>2, \A id \in DOMAIN exports : id < o.id
<1>6. /\ DOMAIN begun = DOMAIN exports \cup {o.id} /\ begun[o.id] = x
      /\ \A e \in DOMAIN exports : begun[e] = exports[e]
  BY ONLY <1>5, begun = [i \in DOMAIN exports \cup {o.id} |-> IF i = o.id THEN x ELSE exports[i]]
<1>7. x.recs = o.recs /\ x.overwritten = 0
  OBVIOUS
<1> HIDE DEF x
<1>8. LineTyped(begun, chunks, out)
  BY ONLY <1>1, <1>2, <1>4, <1>6 DEF LineTyped
<1>9. Latest(o.id, begun)
  <2>1. \A e \in DOMAIN exports : e <= o.id
    BY ONLY <1>2, <1>4, \A id \in DOMAIN exports : id < o.id
  <2> QED BY ONLY <1>2, <1>6, <2>1 DEF Latest
<1>10. \A i \in DOMAIN chunks : chunks[i].id \in DOMAIN exports
  BY ONLY <1>3 DEF LineOrder, ChunkOk
<1>11. LineOrder(begun, chunks, out)
  <2>1. \A c : ChunkOk(c, exports, Nothing) => ChunkOk(c, begun, out)
    BY ONLY <1>1, <1>5, <1>6 DEF ChunkOk, Sending
  <2> QED BY ONLY <1>1, <1>3, <1>6, <1>7, <1>9, <2>1 DEF LineOrder
<1>12. \A id : id # o.id => Unsent(id, out) = Unsent(id, Nothing)
  BY ONLY <1>1 DEF Unsent, Sending
<1>13. ASSUME NEW rows \in Seq(Sample)
       PROVE  Line(rows, o.id, chunks, out) = rows \o o.recs
  <2>1. Gathered(rows, o.id, chunks) = rows
    <3>1. \A n \in DOMAIN chunks : chunks[n].id # o.id
      BY ONLY <1>5, <1>10
    <3> QED BY ONLY <1>4, <1>13, <3>1, GatheredNone
  <2>2. Unsent(o.id, out) = o.recs
    BY ONLY <1>1 DEF Unsent, Sending
  <2> QED BY ONLY <2>1, <2>2 DEF Line
<1>14. <<>> \o o.recs = o.recs /\ Within(o.recs, o.recs) /\ Len(o.recs) \in Nat
  BY <1>2, ConcatEmptySeq, WithinAll
<1>15. LineCounts(begun, chunks, out)
  <2>1. ASSUME NEW id \in DOMAIN exports
        PROVE  /\ Len(Line(<<>>, id, chunks, out)) + begun[id].overwritten <= Len(begun[id].recs)
               /\ Latest(id, begun) => Short(begun[id])
    <3>1. id # o.id /\ begun[id] = exports[id] /\ Line(<<>>, id, chunks, out) = Line(<<>>, id, chunks, Nothing)
      BY ONLY <1>5, <1>6, <1>12, <2>1 DEF Line
    <3>2. ~ Latest(id, begun)
      BY ONLY <1>2, <1>4, <1>6, <2>1, \A e \in DOMAIN exports : e < o.id DEF Latest
    <3> QED BY ONLY <1>3, <2>1, <3>1, <3>2 DEF LineCounts
  <2>2. /\ Len(Line(<<>>, o.id, chunks, out)) + begun[o.id].overwritten <= Len(begun[o.id].recs)
        /\ Short(begun[o.id])
    <3>1. <<>> \in Seq(Sample)
      OBVIOUS
    <3>2. Line(<<>>, o.id, chunks, out) = o.recs
      BY ONLY <1>13, <1>14, <3>1
    <3> QED BY ONLY <1>6, <1>7, <1>14, <3>2 DEF Short
  <2> QED BY ONLY <1>6, <2>1, <2>2 DEF LineCounts
<1>16. Follows(exports, chunks, Nothing, begun, chunks, out)
  <2> SUFFICES ASSUME NEW rows \in Seq(Sample), NEW id \in Nat
               PROVE  /\ Arrives(rows, id, exports, chunks, Nothing) => Arrives(rows, id, begun, chunks, out)
                      /\ Accounted(rows, id, exports, chunks, Nothing)
                            => Accounted(rows, id, begun, chunks, out)
    BY DEF Follows
  <2>1. CASE id = o.id
    <3>1. Arrives(rows, id, exports, chunks, Nothing) => rows = <<>>
      BY ONLY <1>5, <2>1 DEF Arrives
    <3>2. rows = <<>> => Line(rows, id, chunks, out) = o.recs
      BY ONLY <1>13, <1>14, <2>1
    <3>3. Partly(x, o.recs)
      BY ONLY <1>7, <1>14 DEF Partly
    <3> QED BY ONLY <1>5, <1>6, <2>1, <3>1, <3>2, <3>3 DEF Arrives, Accounted
  <2>2. CASE id # o.id
    <3>1. Line(rows, id, chunks, out) = Line(rows, id, chunks, Nothing)
      BY ONLY <1>12, <2>2 DEF Line
    <3>2. ~Sending(id, out)
      BY ONLY <1>1, <2>2 DEF Sending
    <3>3. Arrives(rows, id, exports, chunks, Nothing) => Arrives(rows, id, begun, chunks, out)
      BY ONLY <1>6, <2>2, <3>1 DEF Arrives
    <3> QED BY ONLY <1>6, <2>2, <3>2, <3>3 DEF Accounted, Gone
  <2> QED BY ONLY <2>1, <2>2
<1> QED BY ONLY <1>8, <1>11, <1>15, <1>16 DEF LineOk, out

\* The oldest chunk of a queue is overwritten: of the newest export, when a queue full of it
\* and more are on their way.
LEMMA LineOverwritten ==
    ASSUME NEW exports, NEW a \in Seq(CsvChunk), NEW s \in Seq(CsvChunk), s # <<>>, NEW out,
           LineOk(exports, a \o s, out), NEW over,
           over = [exports EXCEPT ![Head(s).id].overwritten = @ + Len(Head(s).recs)],
           Latest(Head(s).id, exports) => \/ exports[Head(s).id].recs = <<>>
                                          \/ Len(s) + Len(Unsent(Head(s).id, out)) > CsvCap
    PROVE  /\ LineOk(over, a \o Tail(s), out)
           /\ Follows(exports, a \o s, out, over, a \o Tail(s), out)
<1> DEFINE c == Head(s)
           all == a \o s
           less == a \o Tail(s)
           N == Len(a)
<1>1. c \in CsvChunk /\ all \in Seq(CsvChunk) /\ Tail(s) \in Seq(CsvChunk)
  BY ConcatProperties
<1>2. /\ N \in Nat /\ N + 1 \in DOMAIN all /\ all[N + 1] = c
      /\ \A i \in DOMAIN s : N + i \in DOMAIN all /\ all[N + i] = s[i]
  BY ConcatItems
<1>3. less \in Seq(CsvChunk) /\ Within(less, all)
  BY ONLY s # <<>>, a \in Seq(CsvChunk), s \in Seq(CsvChunk), WithinRest
<1>4. /\ LineTyped(exports, all, out) /\ LineOrder(exports, all, out)
      /\ LineCounts(exports, all, out)
  BY DEF LineOk
<1>5. /\ DOMAIN exports \subseteq Nat /\ \A id \in DOMAIN exports : exports[id] \in CsvRecord
      /\ OutTyped(out)
  BY ONLY <1>4 DEF LineTyped
<1>6. c.id \in DOMAIN exports /\ c.recs \in Seq(Sample) /\ Len(c.recs) \in Nat
  <2>1. c.id \in DOMAIN exports
    BY ONLY <1>2, <1>4 DEF LineOrder, ChunkOk
  <2>2. c.recs \in Seq(Sample)
    BY ONLY <1>1 DEF CsvChunk
  <2> QED BY ONLY <2>1, <2>2
<1> DEFINE x == exports[c.id]
           y == [x EXCEPT !.overwritten = @ + Len(c.recs)]
<1>7. /\ x \in CsvRecord /\ y \in CsvRecord /\ y.recs = x.recs
      /\ y.overwritten = x.overwritten + Len(c.recs)
  <2>1. x \in CsvRecord
    BY ONLY <1>5, <1>6
  <2> QED BY ONLY <1>6, <2>1 DEF CsvRecord
<1>8. DOMAIN over = DOMAIN exports /\ over[c.id] = y /\ \A e \in DOMAIN exports : e # c.id => over[e] = exports[e]
  BY ONLY <1>6, over = [exports EXCEPT ![Head(s).id].overwritten = @ + Len(Head(s).recs)]
<1> HIDE DEF c, all, less, y, N
<1>9. \A e \in DOMAIN exports : over[e] \in CsvRecord /\ over[e].recs = exports[e].recs
  BY ONLY <1>5, <1>7, <1>8
<1>10. LineTyped(over, less, out)
  BY ONLY <1>3, <1>5, <1>8, <1>9 DEF LineTyped
<1>11. LineOrder(over, less, out)
  <2>1. LineOrder(exports, less, out)
    BY ONLY <1>3, <1>4, LessInOrder
  <2>2. \A d : ChunkOk(d, exports, out) => ChunkOk(d, over, out)
    BY ONLY <1>8, <1>9 DEF ChunkOk
  <2>3. \A id : Latest(id, exports) => Latest(id, over)
    BY ONLY <1>8 DEF Latest
  <2> QED BY ONLY <1>8, <1>9, <2>1, <2>2, <2>3 DEF LineOrder
\* The lines before and after.
<1> DEFINE Shorter(rows, id) ==
             /\ Loses(Line(rows, id, all, out), Share(id, c), Line(rows, id, less, out))
             /\ Share(id, c) \in Seq(Sample)
             /\ Len(Line(rows, id, all, out)) = Len(Line(rows, id, less, out)) + Len(Share(id, c))
             /\ Len(Line(rows, id, less, out)) \in Nat
<1>12. ASSUME NEW rows \in Seq(Sample), NEW id PROVE Shorter(rows, id)
  <2> DEFINE m == Share(id, c)
             line == Line(rows, id, all, out)
             rest == Line(rows, id, less, out)
  <2>1. Loses(line, m, rest)
    <3>1. Loses(Line(rows, id, a \o s, out), Share(id, Head(s)), Line(rows, id, a \o Tail(s), out))
      BY ONLY <1>5, rows \in Seq(Sample), s # <<>>, a \in Seq(CsvChunk), s \in Seq(CsvChunk),
              LineLoses
    <3> QED BY ONLY <3>1 DEF all, less, c
  <2>2. m \in Seq(Sample)
    BY ONLY <1>1, rows \in Seq(Sample), GrownIsShare
  <2> HIDE DEF m, line, rest
  <2>3. PICK p, r \in Seq(Sample) : line = (p \o m) \o r /\ rest = p \o r
    BY ONLY <2>1 DEF Loses
  <2> DEFINE q == p \o m
  <2>4. q \in Seq(Sample) /\ Len(q) = Len(p) + Len(m)
    BY ONLY <2>2, <2>3, ConcatProperties
  <2> HIDE DEF q
  <2>5. Len(q \o r) = Len(q) + Len(r) /\ Len(p \o r) = Len(p) + Len(r)
    BY ONLY <2>3, <2>4, ConcatProperties
  <2>6. Len(p) \in Nat /\ Len(m) \in Nat /\ Len(r) \in Nat
    BY ONLY <2>2, <2>3
  <2>7. Len(q \o r) = Len(p \o r) + Len(m) /\ Len(p \o r) \in Nat
    BY ONLY <2>4, <2>5, <2>6
  <2>8. Len(line) = Len(rest) + Len(m) /\ Len(rest) \in Nat
    BY ONLY <2>3, <2>7 DEF q
  <2> QED BY ONLY <2>1, <2>2, <2>8 DEF m, line, rest
<1> HIDE DEF Shorter
<1>13. Share(c.id, c) = c.recs /\ \A id : id # c.id => Share(id, c) = <<>>
  BY ONLY TRUE DEF Share
<1>14. <<>> \in Seq(Sample) /\ Len(<<>>) = 0
  OBVIOUS
<1>15. Latest(c.id, exports) => Short(y)
  <2> SUFFICES ASSUME Latest(c.id, exports) PROVE Short(y)
    OBVIOUS
  <2>1. /\ Len(Line(<<>>, c.id, all, out)) + x.overwritten <= Len(x.recs)
        /\ Short(x)
    BY ONLY <1>4, <1>6, Latest(c.id, exports) DEF LineCounts
  <2>2. Len(Line(<<>>, c.id, all, out)) >= Len(c.recs) /\ Len(Line(<<>>, c.id, all, out)) \in Nat
    <3>1. Shorter(<<>>, c.id)
      BY ONLY <1>12, <1>14
    <3> HIDE DEF c, all, less
    <3>2. /\ Len(Line(<<>>, c.id, all, out)) = Len(Line(<<>>, c.id, less, out)) + Len(c.recs)
          /\ Len(Line(<<>>, c.id, less, out)) \in Nat
      BY ONLY <1>13, <3>1 DEF Shorter
    <3> DEFINE before == Len(Line(<<>>, c.id, all, out))
               beyond == Len(Line(<<>>, c.id, less, out))
               lost == Len(c.recs)
    <3>3. before = beyond + lost /\ beyond \in Nat /\ lost \in Nat
      BY ONLY <1>6, <3>2
    <3> HIDE DEF before, beyond, lost
    <3>4. before >= lost /\ before \in Nat
      BY ONLY <3>3
    <3> QED BY ONLY <3>4 DEF before, lost
  <2>3. x.overwritten \in Nat /\ x.recs \in Seq(Sample) /\ Len(x.recs) \in Nat
    <3>1. x.overwritten \in Nat /\ x.recs \in Seq(Sample)
      BY ONLY <1>7 DEF CsvRecord
    <3> QED BY ONLY <3>1
  <2>4. CASE x.recs = <<>>
    <3>1. Len(x.recs) = 0
      BY ONLY <1>14, <2>4
    <3>2. Len(c.recs) = 0 /\ x.overwritten = 0
      BY ONLY <1>6, <2>1, <2>2, <2>3, <3>1
    <3> QED BY ONLY <1>7, <3>2 DEF Short
  <2>5. CASE x.recs # <<>>
    <3>1. ASSUME NEW i \in DOMAIN s PROVE s[i].id = c.id /\ s[i].recs # <<>>
      <4>1. ChunkOk(s[i], exports, out) /\ (i > 1 => Before(s[1], s[i])) /\ s[1] = c
        <5>1. N + i \in DOMAIN all /\ all[N + i] = s[i] /\ N + 1 \in DOMAIN all /\ all[N + 1] = c
          BY ONLY <1>2, <3>1
        <5>2. i > 1 => N + 1 < N + i
          BY ONLY <1>2, <3>1, s \in Seq(CsvChunk)
        <5>3. s[1] = c
          BY ONLY s \in Seq(CsvChunk), s # <<>> DEF c
        <5> QED BY ONLY <1>4, <5>1, <5>2, <5>3 DEF LineOrder
      <4>2. i = 1 \/ i > 1
        BY ONLY <3>1, s \in Seq(CsvChunk)
      <4>3. s[i].id \in DOMAIN exports /\ s[i].id <= c.id
        BY ONLY <4>1, Latest(c.id, exports) DEF ChunkOk, Latest
      <4>4. s[i].id = c.id
        BY ONLY <1>5, <1>6, <4>1, <4>2, <4>3 DEF Before
      <4> QED BY ONLY <2>5, <4>1, <4>4 DEF ChunkOk
    <3> DEFINE g == Gathered(<<>>, c.id, a)
               h == Gathered(<<>>, c.id, s)
               u == Unsent(c.id, out)
    <3>2. Len(h) >= Len(s) /\ h \in Seq(Sample)
      BY ONLY <1>14, <3>1, s \in Seq(CsvChunk), GatheredCounts, GatheredTyped
    <3>3. g \in Seq(Sample) /\ u \in Seq(Sample)
      BY ONLY <1>5, <1>14, a \in Seq(CsvChunk), GatheredTyped, UnsentTyped
    <3>4. Line(<<>>, c.id, all, out) = (g \o h) \o u
      <4>1. Gathered(<<>>, c.id, all) = Gathered(g, c.id, s)
        <5> DEFINE none == <<>>
        <5>1. none \in Seq(Sample)
          BY ONLY <1>14
        <5> HIDE DEF none, g
        <5>2. Gathered(none, c.id, a \o s) = Gathered(Gathered(none, c.id, a), c.id, s)
          BY ONLY <5>1, a \in Seq(CsvChunk), s \in Seq(CsvChunk), GatheredThen
        <5> QED BY ONLY <5>2 DEF all, none, g
      <4>2. Gathered(g, c.id, s) = g \o h
        BY ONLY <3>3, s \in Seq(CsvChunk), GatheredFront
      <4> QED BY ONLY <4>1, <4>2 DEF Line
    <3> HIDE DEF g, h, u
    <3>5. Len((g \o h) \o u) = (Len(g) + Len(h)) + Len(u)
      <4>1. g \o h \in Seq(Sample) /\ Len(g \o h) = Len(g) + Len(h)
        BY ONLY <3>2, <3>3, ConcatProperties
      <4> QED BY ONLY <3>3, <4>1, ConcatProperties
    <3>6. Len(g) \in Nat /\ Len(h) \in Nat /\ Len(u) \in Nat /\ Len(s) \in Nat
      BY ONLY <3>2, <3>3, s \in Seq(CsvChunk)
    <3>7. Len(s) + Len(u) > CsvCap
      BY ONLY <2>5, Latest(c.id, exports),
              Latest(Head(s).id, exports) => \/ exports[Head(s).id].recs = <<>>
                                             \/ Len(s) + Len(Unsent(Head(s).id, out)) > CsvCap
         DEF c, u
    <3>8. Len(x.recs) > CsvCap
      <4> DEFINE line == Len(Line(<<>>, c.id, all, out))
                 G == Len(g)
                 H == Len(h)
                 U == Len(u)
                 Q == Len(s)
                 R == Len(x.recs)
                 V == x.overwritten
      <4>1. line + V <= R /\ line = (G + H) + U /\ H >= Q /\ Q + U > CsvCap
        BY ONLY <2>1, <3>2, <3>4, <3>5, <3>7
      <4>2. {G, H, U, Q, R, V} \subseteq Nat /\ CsvCap \in Nat
        BY ONLY <2>3, <3>6, CsvAssumption
      <4> HIDE DEF line, G, H, U, Q, R, V
      <4>3. R > CsvCap
        BY ONLY <4>1, <4>2
      <4> QED BY ONLY <4>3 DEF R
    <3> QED BY ONLY <1>7, <2>3, <3>8, CsvAssumption DEF Short
  <2> QED BY ONLY <2>4, <2>5
<1>16. LineCounts(over, less, out)
  <2> SUFFICES ASSUME NEW id \in DOMAIN exports
               PROVE  /\ Len(Line(<<>>, id, less, out)) + over[id].overwritten <= Len(over[id].recs)
                      /\ Latest(id, over) => Short(over[id])
    BY <1>8 DEF LineCounts
  <2>1. /\ Len(Line(<<>>, id, all, out)) + exports[id].overwritten <= Len(exports[id].recs)
        /\ Latest(id, exports) => Short(exports[id])
    BY ONLY <1>4 DEF LineCounts
  <2>2. /\ Len(Line(<<>>, id, all, out)) = Len(Line(<<>>, id, less, out)) + Len(Share(id, c))
        /\ Len(Line(<<>>, id, less, out)) \in Nat
    <3>1. Shorter(<<>>, id)
      BY ONLY <1>12, <1>14
    <3> QED BY ONLY <3>1 DEF Shorter
  <2>3. Latest(id, over) => Latest(id, exports)
    BY ONLY <1>8 DEF Latest
  <2>4. exports[id].overwritten \in Nat /\ Len(exports[id].recs) \in Nat
    <3>1. exports[id].overwritten \in Nat /\ exports[id].recs \in Seq(Sample)
      BY ONLY <1>5 DEF CsvRecord
    <3> QED BY ONLY <3>1
  <2>5. CASE id = c.id
    <3>1. over[id] = y /\ exports[id] = x /\ Share(id, c) = c.recs
      BY ONLY <1>8, <1>13, <2>5
    <3>2. Latest(id, over) => Short(over[id])
      BY ONLY <1>15, <2>3, <2>5, <3>1
    <3>3. over[id].overwritten = exports[id].overwritten + Len(c.recs) /\ over[id].recs = exports[id].recs
      BY ONLY <1>7, <3>1
    <3>4. Len(Line(<<>>, id, less, out)) + over[id].overwritten <= Len(over[id].recs)
      <4> DEFINE A == Len(Line(<<>>, id, less, out))
                 B == Len(Line(<<>>, id, all, out))
                 C == Len(c.recs)
      <4>1. B + exports[id].overwritten <= Len(exports[id].recs) /\ B = A + C /\ A \in Nat /\ C \in Nat
        BY ONLY <1>6, <2>1, <2>2, <3>1
      <4> HIDE DEF A, B, C
      <4>2. A + (exports[id].overwritten + C) <= Len(exports[id].recs)
        BY ONLY <2>4, <4>1
      <4> QED BY ONLY <3>3, <4>2 DEF A, C
    <3> QED BY ONLY <3>2, <3>4
  <2>6. CASE id # c.id
    BY ONLY <1>8, <1>13, <1>14, <2>1, <2>2, <2>3, <2>4, <2>6
  <2> QED BY ONLY <2>5, <2>6
<1>17. Follows(exports, all, out, over, less, out)
  <2> SUFFICES ASSUME NEW rows \in Seq(Sample), NEW id \in Nat
               PROVE  /\ Arrives(rows, id, exports, all, out) => Arrives(rows, id, over, less, out)
                      /\ Accounted(rows, id, exports, all, out) => Accounted(rows, id, over, less, out)
    BY DEF Follows
  <2>1. Arrives(rows, id, exports, all, out) => Arrives(rows, id, over, less, out)
    <3> SUFFICES ASSUME id \in DOMAIN exports, Partly(exports[id], Line(rows, id, all, out))
                 PROVE  Partly(over[id], Line(rows, id, less, out))
      BY <1>8 DEF Arrives
    <3> DEFINE line == Line(rows, id, all, out)
               rest == Line(rows, id, less, out)
               m == Share(id, c)
    <3>0. Shorter(rows, id)
      BY ONLY <1>12, rows \in Seq(Sample)
    <3>1. Loses(line, m, rest) /\ m \in Seq(Sample) /\ Len(line) = Len(rest) + Len(m)
          /\ Len(rest) \in Nat
      BY ONLY <3>0 DEF Shorter
    <3>2. exports[id].recs \in Seq(Sample) /\ exports[id].overwritten \in Nat
      BY ONLY <1>5, id \in DOMAIN exports DEF CsvRecord
    <3>3. Within(line, exports[id].recs) /\ Len(line) + exports[id].overwritten = Len(exports[id].recs)
      BY ONLY Partly(exports[id], Line(rows, id, all, out)) DEF Partly
    <3> HIDE DEF line, rest
    <3>4. Within(rest, exports[id].recs)
      <4> HIDE DEF m
      <4>1. PICK p, r \in Seq(Sample) : line = (p \o m) \o r /\ rest = p \o r
        BY ONLY <3>1 DEF Loses
      <4>2. Within((p \o m) \o r, exports[id].recs)
        BY ONLY <3>3, <4>1
      <4>3. Within(p \o r, exports[id].recs)
        BY ONLY <3>1, <3>2, <4>1, <4>2, WithinLess
      <4> QED BY ONLY <4>1, <4>3
    <3>5. /\ over[id].recs = exports[id].recs
          /\ over[id].overwritten = exports[id].overwritten + Len(m)
      <4>1. CASE id = c.id
        BY ONLY <1>7, <1>8, <1>13, <4>1
      <4>2. CASE id # c.id
        BY ONLY <1>8, <1>13, <1>14, <3>2, <4>2, id \in DOMAIN exports
      <4> QED BY ONLY <4>1, <4>2
    <3> HIDE DEF m
    <3>6. Len(rest) + over[id].overwritten = Len(over[id].recs)
      <4>1. Len(m) \in Nat
        BY ONLY <3>1
      <4> QED BY ONLY <3>1, <3>2, <3>3, <3>5, <4>1
    <3> QED BY ONLY <3>4, <3>5, <3>6 DEF Partly, rest
  <2>2. Accounted(rows, id, exports, all, out) => Accounted(rows, id, over, less, out)
    <3> SUFFICES ASSUME Accounted(rows, id, exports, all, out)
                 PROVE  Accounted(rows, id, over, less, out)
      OBVIOUS
    <3>1. Gone(id, all, out) /\ id \in DOMAIN exports
      BY ONLY Accounted(rows, id, exports, all, out) DEF Accounted
    <3>2. id # c.id
      BY ONLY <1>2, <3>1 DEF Gone
    <3>3. Gone(id, less, out)
      BY ONLY <1>3, <3>1 DEF Gone, Within
    <3> QED BY ONLY <1>8, <3>1, <3>2, <3>3, Accounted(rows, id, exports, all, out) DEF Accounted
  <2> QED BY ONLY <2>1, <2>2
<1> QED BY ONLY <1>10, <1>11, <1>16, <1>17 DEF LineOk, all, less

\* The next chunk of the export being sent.
LEMMA LineSends ==
    ASSUME NEW exports, NEW chunks, NEW o \in CsvExport, LineOk(exports, chunks, <<o>>),
           NEW chunk \in CsvChunk, NEW left, Sends(o, chunk, left)
    PROVE  /\ LineOk(exports, Append(chunks, chunk), left)
           /\ Follows(exports, chunks, <<o>>, exports, Append(chunks, chunk), left)
<1> PICK rest \in Seq(Sample) :
       /\ chunk.id = o.id /\ chunk.recs \o rest = o.recs /\ chunk.last = (rest = <<>>)
       /\ chunk.recs = <<>> => o.recs = <<>>
       /\ left = IF rest = <<>> THEN Nothing ELSE <<[o EXCEPT !.recs = rest]>>
  BY DEF Sends
<1> DEFINE out == <<o>>
           more == Append(chunks, chunk)
<1>1. /\ LineTyped(exports, chunks, out) /\ LineOrder(exports, chunks, out)
      /\ LineCounts(exports, chunks, out)
  BY DEF LineOk
<1>2. /\ DOMAIN exports \subseteq Nat /\ \A id \in DOMAIN exports : exports[id] \in CsvRecord
      /\ chunks \in Seq(CsvChunk)
  BY ONLY <1>1 DEF LineTyped
<1>3. /\ more \in Seq(CsvChunk) /\ DOMAIN more = 1..(Len(chunks) + 1) /\ Len(chunks) \in Nat
      /\ DOMAIN chunks = 1..Len(chunks)
      /\ \A i \in DOMAIN chunks : more[i] = chunks[i]
      /\ more[Len(chunks) + 1] = chunk
  BY ONLY <1>2, chunk \in CsvChunk
<1>4. /\ out # Nothing /\ out[1].id = o.id /\ out[1].recs = o.recs
      /\ left # Nothing => left[1].id = o.id /\ left[1].recs # <<>>
      /\ left # Nothing <=> rest # <<>>
  BY DEF Nothing, CsvExport
<1>5. OutTyped(left)
  <2>1. [o EXCEPT !.recs = rest] \in CsvExport
    BY DEF CsvExport
  <2> QED BY ONLY <2>1, left = IF rest = <<>> THEN Nothing ELSE <<[o EXCEPT !.recs = rest]>>
          DEF OutTyped
<1>6. ASSUME NEW rows \in Seq(Sample), NEW id
      PROVE  Line(rows, id, more, left) = Line(rows, id, chunks, out)
  BY ONLY <1>2, rows \in Seq(Sample), o \in CsvExport, chunk \in CsvChunk,
          Sends(o, chunk, left), LineLeaves
<1> HIDE DEF more, out
<1>7. LineTyped(exports, more, left)
  BY ONLY <1>1, <1>3, <1>5 DEF LineTyped
<1>8. \A id : Sending(id, left) => Sending(id, out)
  BY ONLY <1>4 DEF Sending
<1>9. /\ o.id \in DOMAIN exports /\ Latest(o.id, exports)
      /\ o.recs = <<>> => exports[o.id].recs = <<>>
  BY ONLY <1>1, <1>4 DEF LineOrder
<1>10. LineOrder(exports, more, left)
  <2>1. ChunkOk(chunk, exports, left)
    <3>1. chunk.last => ~Sending(chunk.id, left)
      BY ONLY <1>4, chunk.last = (rest = <<>>) DEF Sending
    <3> QED BY ONLY <1>9, <3>1, chunk.id = o.id, chunk.recs = <<>> => o.recs = <<>> DEF ChunkOk
  <2>2. ASSUME NEW i \in DOMAIN chunks
        PROVE  ChunkOk(more[i], exports, left) /\ Before(more[i], chunk)
    <3>1. ChunkOk(chunks[i], exports, out) /\ more[i] = chunks[i]
      BY ONLY <1>1, <1>3, <2>2 DEF LineOrder
    <3>2. Sending(chunk.id, out)
      BY ONLY <1>4, chunk.id = o.id DEF Sending
    <3>3. more[i].id <= chunk.id
      BY ONLY <1>9, <3>1, chunk.id = o.id DEF ChunkOk, Latest
    <3> QED BY ONLY <1>8, <3>1, <3>2, <3>3 DEF ChunkOk, Before
  <2>3. \A i \in DOMAIN more : i \in DOMAIN chunks \/ i = Len(chunks) + 1
    BY ONLY <1>3
  <2>4. \A i \in DOMAIN more : ChunkOk(more[i], exports, left)
    BY ONLY <1>3, <2>1, <2>2, <2>3
  <2>5. ASSUME NEW i \in DOMAIN more, NEW j \in DOMAIN more, i < j
        PROVE  Before(more[i], more[j])
    <3>1. i \in DOMAIN chunks
      BY ONLY <1>3, <2>5
    <3>2. CASE j \in DOMAIN chunks
      BY ONLY <1>1, <1>3, <2>5, <3>1, <3>2 DEF LineOrder
    <3>3. CASE j = Len(chunks) + 1
      BY ONLY <1>3, <2>2, <3>1, <3>3
    <3> QED BY ONLY <2>3, <2>5, <3>2, <3>3
  <2> QED BY ONLY <1>4, <1>9, <2>4, <2>5 DEF LineOrder
<1>11. LineCounts(exports, more, left)
  <2> DEFINE none == <<>>
  <2>1. none \in Seq(Sample)
    OBVIOUS
  <2> HIDE DEF none
  <2>2. \A id : Line(none, id, more, left) = Line(none, id, chunks, out)
    BY ONLY <1>6, <2>1
  <2> QED BY ONLY <1>1, <2>2 DEF LineCounts, none
<1>12. Follows(exports, chunks, out, exports, more, left)
  <2> SUFFICES ASSUME NEW rows \in Seq(Sample), NEW id \in Nat
               PROVE  /\ Arrives(rows, id, exports, chunks, out)
                            => Arrives(rows, id, exports, more, left)
                      /\ Accounted(rows, id, exports, chunks, out)
                            => Accounted(rows, id, exports, more, left)
    BY DEF Follows
  <2>1. Line(rows, id, more, left) = Line(rows, id, chunks, out)
    BY ONLY <1>6, rows \in Seq(Sample)
  <2>2. Gone(id, chunks, out) => Gone(id, more, left)
    <3> SUFFICES ASSUME Gone(id, chunks, out) PROVE Gone(id, more, left)
      OBVIOUS
    <3>1. id # o.id
      BY ONLY <1>4, Gone(id, chunks, out) DEF Gone, Sending
    <3>2. \A i \in DOMAIN more : i \in DOMAIN chunks \/ i = Len(chunks) + 1
      BY ONLY <1>3
    <3> QED BY ONLY <1>3, <1>8, <3>1, <3>2, Gone(id, chunks, out), chunk.id = o.id DEF Gone
  <2> QED BY ONLY <2>1, <2>2 DEF Arrives, Accounted
<1> QED BY ONLY <1>7, <1>10, <1>11, <1>12 DEF LineOk, more, out

\* Chunks are taken from the front.
LEMMA LineShorter ==
    ASSUME NEW exports, NEW a \in Seq(CsvChunk), NEW b \in Seq(CsvChunk), NEW out,
           LineOk(exports, a \o b, out)
    PROVE  LineOk(exports, b, out)
<1>1. /\ LineTyped(exports, a \o b, out) /\ LineOrder(exports, a \o b, out)
      /\ LineCounts(exports, a \o b, out)
  BY DEF LineOk
<1>2. /\ DOMAIN exports \subseteq Nat /\ \A id \in DOMAIN exports : exports[id] \in CsvRecord
      /\ OutTyped(out)
  BY ONLY <1>1 DEF LineTyped
<1>3. LineTyped(exports, b, out)
  BY ONLY <1>1, b \in Seq(CsvChunk) DEF LineTyped
<1>4. LineOrder(exports, b, out)
  <2>1. Within(b, a \o b)
    BY ONLY a \in Seq(CsvChunk), b \in Seq(CsvChunk), WithinEnd
  <2> QED BY ONLY <1>1, <2>1, LessInOrder
<1>5. LineCounts(exports, b, out)
  <2> SUFFICES ASSUME NEW id \in DOMAIN exports
               PROVE  /\ Len(Line(<<>>, id, b, out)) + exports[id].overwritten
                            <= Len(exports[id].recs)
                      /\ Latest(id, exports) => Short(exports[id])
    BY DEF LineCounts
  <2> DEFINE none == <<>>
             g == Gathered(none, id, a)
             h == Gathered(none, id, b)
             u == Unsent(id, out)
  <2>1. none \in Seq(Sample)
    OBVIOUS
  <2> HIDE DEF none
  <2>2. g \in Seq(Sample) /\ h \in Seq(Sample) /\ u \in Seq(Sample)
    BY ONLY <1>2, <2>1, a \in Seq(CsvChunk), b \in Seq(CsvChunk), GatheredTyped, UnsentTyped
  <2> HIDE DEF g
  <2>3. Gathered(none, id, a \o b) = g \o h
    <3>1. Gathered(none, id, a \o b) = Gathered(Gathered(none, id, a), id, b)
      BY ONLY <2>1, a \in Seq(CsvChunk), b \in Seq(CsvChunk), GatheredThen
    <3>2. Gathered(g, id, b) = g \o h
      BY ONLY <2>2, b \in Seq(CsvChunk), GatheredFront DEF none
    <3> QED BY ONLY <3>1, <3>2 DEF g
  <2> HIDE DEF h, u
  <2>4. Line(none, id, a \o b, out) = (g \o h) \o u /\ Line(none, id, b, out) = h \o u
    BY ONLY <2>3 DEF Line, h, u
  <2>5. Len((g \o h) \o u) = (Len(g) + Len(h)) + Len(u) /\ Len(h \o u) = Len(h) + Len(u)
    <3>1. g \o h \in Seq(Sample) /\ Len(g \o h) = Len(g) + Len(h)
      BY ONLY <2>2, ConcatProperties
    <3> QED BY ONLY <2>2, <3>1, ConcatProperties
  <2>6. Len(g) \in Nat /\ Len(h) \in Nat /\ Len(u) \in Nat
    BY ONLY <2>2
  <2>7. /\ Len(Line(none, id, a \o b, out)) + exports[id].overwritten <= Len(exports[id].recs)
        /\ Latest(id, exports) => Short(exports[id])
    BY ONLY <1>1, id \in DOMAIN exports DEF LineCounts, none
  <2>8. exports[id].overwritten \in Nat /\ Len(exports[id].recs) \in Nat
    <3>1. exports[id].overwritten \in Nat /\ exports[id].recs \in Seq(Sample)
      BY ONLY <1>2, id \in DOMAIN exports DEF CsvRecord
    <3> QED BY ONLY <3>1
  <2> DEFINE G == Len(g)
             H == Len(h)
             U == Len(u)
             V == exports[id].overwritten
             R == Len(exports[id].recs)
  <2>9. (G + H) + U + V <= R
    BY ONLY <2>4, <2>5, <2>7
  <2>10. {G, H, U, V, R} \subseteq Nat
    BY ONLY <2>6, <2>8
  <2> HIDE DEF G, H, U, V, R
  <2>11. (H + U) + V <= R
    BY ONLY <2>9, <2>10
  <2>12. Len(Line(none, id, b, out)) + exports[id].overwritten <= Len(exports[id].recs)
    BY ONLY <2>4, <2>5, <2>11 DEF H, U, V, R
  <2> QED BY ONLY <2>7, <2>12 DEF none
<1> QED BY ONLY <1>3, <1>4, <1>5 DEF LineOk

LEMMA LineTaken ==
    ASSUME NEW exports, NEW a \in Seq(CsvChunk), NEW b \in Seq(CsvChunk), NEW out,
           LineOk(exports, a \o b, out), NEW rows \in Seq(Sample), NEW id
    PROVE  /\ Arrives(rows, id, exports, a \o b, out)
                 => Arrives(Gathered(rows, id, a), id, exports, b, out)
           /\ Accounted(rows, id, exports, a \o b, out) => Accounted(rows, id, exports, b, out)
<1>1. \A i \in DOMAIN (a \o b) : (a \o b)[i].id \in DOMAIN exports
  BY DEF LineOk, LineOrder, ChunkOk
<1>2. /\ Len(a) \in Nat
      /\ \A i \in DOMAIN a : i \in DOMAIN (a \o b) /\ (a \o b)[i] = a[i]
      /\ \A i \in DOMAIN b : Len(a) + i \in DOMAIN (a \o b) /\ (a \o b)[Len(a) + i] = b[i]
  BY ONLY a \in Seq(CsvChunk), b \in Seq(CsvChunk), ConcatItems
<1>3. Line(rows, id, a \o b, out) = Line(Gathered(rows, id, a), id, b, out)
  <2>1. Gathered(rows, id, a \o b) = Gathered(Gathered(rows, id, a), id, b)
    BY ONLY rows \in Seq(Sample), a \in Seq(CsvChunk), b \in Seq(CsvChunk), GatheredThen
  <2> QED BY ONLY <2>1 DEF Line
<1>4. id \notin DOMAIN exports => Gathered(rows, id, a) = rows
  <2>1. id \notin DOMAIN exports => \A n \in DOMAIN a : a[n].id # id
    BY ONLY <1>1, <1>2
  <2> QED BY ONLY <2>1, rows \in Seq(Sample), a \in Seq(CsvChunk), GatheredNone
<1>5. Gone(id, a \o b, out) => Gone(id, b, out)
  BY ONLY <1>2 DEF Gone
<1>6. Arrives(rows, id, exports, a \o b, out) => Arrives(Gathered(rows, id, a), id, exports, b, out)
  BY ONLY <1>3, <1>4 DEF Arrives
<1> QED BY ONLY <1>5, <1>6 DEF Accounted

\* The last one of the newest export among them.
LEMMA LineLast ==
    ASSUME NEW exports, NEW a \in Seq(CsvChunk), NEW b \in Seq(CsvChunk), NEW out,
           LineOk(exports, a \o b, out), NEW rows \in Seq(Sample), NEW id, Latest(id, exports),
           NEW i \in DOMAIN a, a[i].id = id, a[i].last, Arrives(rows, id, exports, b, out)
    PROVE  Accounted(rows, id, exports, b, out)
<1>1. LineOrder(exports, a \o b, out) /\ LineCounts(exports, a \o b, out)
  BY DEF LineOk
<1>2. /\ i \in DOMAIN (a \o b) /\ (a \o b)[i] = a[i]
      /\ \A j \in DOMAIN b : /\ Len(a) + j \in DOMAIN (a \o b) /\ (a \o b)[Len(a) + j] = b[j]
                             /\ i < Len(a) + j
  BY ONLY a \in Seq(CsvChunk), b \in Seq(CsvChunk), i \in DOMAIN a, ConcatItems
<1>3. id \in DOMAIN exports /\ ~Sending(id, out)
  BY ONLY <1>1, <1>2, a[i].id = id, a[i].last DEF LineOrder, ChunkOk
<1>4. \A j \in DOMAIN b : b[j].id # id
  BY ONLY <1>1, <1>2, a[i].id = id, a[i].last DEF LineOrder, Before
<1>5. Line(rows, id, b, out) = rows
  BY ONLY <1>3, <1>4, rows \in Seq(Sample), b \in Seq(CsvChunk), LineEnds
<1>6. Short(exports[id])
  BY ONLY <1>1, <1>3, Latest(id, exports) DEF LineCounts
<1> QED BY ONLY <1>3, <1>4, <1>5, <1>6, Arrives(rows, id, exports, b, out)
        DEF Arrives, Accounted, Gone
\* The types of what the exports are made of.
LogOk(l) ==
    \E w, t : l \in [memory : [Probes -> Seq(Sample)], spill : Seq(Sample), truncated : BOOLEAN,
                     running : BOOLEAN, window : {w}, latest : {t}]
CsvJob == [id : Nat, done : BOOLEAN, failed : BOOLEAN, expired : BOOLEAN, recs : Seq(Sample)]
SrvOk(s) ==
    \E w, b, q : s \in [watch : {w}, batches : {b}, nextSeq : {q}, nextId : Nat, job : CsvJob]
File == [id : Nat, rows : Seq(Sample), at : {"stream", "ended", "saved", "refused"},
         lost : BOOLEAN]

NodeTyped == tap \in [Probes -> Seq(Sample)] /\ LogOk(log) /\ used \in [Counted -> Nat]
Chunks == csvToServer \o csvReplies
ExportsTyped ==
    /\ csvToNode \in Seq(Nat)
    /\ csvToServer \in Seq(CsvChunk) /\ csvReplies \in Seq(CsvChunk)
    /\ LineOk(exported, Chunks, csvOut)
CsvTyped == NodeTyped /\ ExportsTyped /\ SrvOk(srv) /\ files \in Seq(File)

\* The ids of the exports grow: none that has begun is past the server's current one, and
\* one that is on its way to the node is past all that have begun.
ExportIds ==
    /\ srv.job.id < srv.nextId /\ Latest(srv.job.id, exported)
    /\ \A i \in DOMAIN csvToNode : /\ csvToNode[i] <= srv.job.id
                                   /\ \A id \in DOMAIN exported : id < csvToNode[i]
Rising(fs, last) ==
    /\ \A i \in DOMAIN fs : fs[i].id <= last
    /\ \A i, j \in DOMAIN fs : i < j => fs[i].id < fs[j].id

\* A file of the current export, of which no poll was given up, gets what arrives, and when
\* it ends, nothing is missing that was not overwritten, if the export did not fail.
FileOk(f, job, exports, chunks, out) ==
    /\ f.at = "saved" /\ ~f.lost => Accounted(f.rows, f.id, exports, chunks, out)
    /\ f.id = job.id /\ ~f.lost =>
          /\ f.at = "stream" /\ ~job.done => Arrives(f.rows \o job.recs, f.id, exports, chunks, out)
          /\ f.at = "stream" /\ job.done /\ ~job.failed
                => Accounted(f.rows \o job.recs, f.id, exports, chunks, out)
          /\ f.at = "ended" => /\ job.done
                               /\ ~job.failed => Accounted(f.rows, f.id, exports, chunks, out)
FilesOk == \A i \in DOMAIN files : FileOk(files[i], srv.job, exported, Chunks, csvOut)

CsvInv == ExportIds /\ Rising(files, srv.job.id) /\ FilesOk

LEMMA PairTyped ==
    ASSUME NEW S, NEW a \in S, NEW b \in S
    PROVE  [pin |-> a, tx |-> b] \in [Probes -> S]
BY DEF Probes

LEMMA InitCsv == Init => CsvTyped /\ CsvInv
<1> SUFFICES ASSUME Init PROVE CsvTyped /\ CsvInv
  OBVIOUS
<1>1. NodeTyped
  <2> DEFINE s == [probe |-> "pin", time |-> 0, value |-> "Low"]
  <2>1. s \in Sample
    BY DEF Sample, Probes, Levels
  <2> HIDE DEF s
  <2>2. <<s>> \in Seq(Sample) /\ <<>> \in Seq(Sample)
    BY ONLY <2>1
  <2>3. tap = [pin |-> <<s>>, tx |-> <<>>]
    BY DEF Init, ProbeInit, s, Nothing
  <2>4. tap \in [Probes -> Seq(Sample)]
    BY ONLY <2>2, <2>3, PairTyped
  <2> DEFINE m == [p \in Probes |-> <<>>]
             t == [p \in Probes |-> Nothing]
  <2>5. m \in [Probes -> Seq(Sample)]
    BY ONLY <2>2
  <2>6. LogOk(log)
    <3>1. log = [memory |-> m, spill |-> <<>>, truncated |-> FALSE, running |-> FALSE,
                 window |-> <<>>, latest |-> t]
      BY DEF Init, ProbeInit
    <3> HIDE DEF m, t
    <3>2. log \in [memory : [Probes -> Seq(Sample)], spill : Seq(Sample), truncated : BOOLEAN,
                   running : BOOLEAN, window : {<<>>}, latest : {t}]
      BY ONLY <2>2, <2>5, <3>1
    <3> QED BY ONLY <3>2 DEF LogOk
  <2>7. used \in [Counted -> Nat]
    BY DEF Init
  <2> QED BY ONLY <2>4, <2>6, <2>7 DEF NodeTyped
<1>2. /\ exported = <<>> /\ csvToNode = <<>> /\ csvToServer = <<>> /\ csvReplies = <<>>
      /\ csvOut = Nothing
  BY DEF Init, ProbeInit, ServerInit
<1>7. ExportsTyped
  <2>1. LineTyped(<<>>, <<>>, Nothing) /\ LineOrder(<<>>, <<>>, Nothing)
        /\ LineCounts(<<>>, <<>>, Nothing)
    BY DEF LineTyped, LineOrder, LineCounts, OutTyped
  <2>2. Chunks = <<>>
    BY ONLY <1>2 DEF Chunks
  <2>3. <<>> \in Seq(Nat) /\ <<>> \in Seq(CsvChunk)
    OBVIOUS
  <2> QED BY ONLY <1>2, <2>1, <2>2, <2>3 DEF ExportsTyped, LineOk
<1>3. SrvOk(srv)
  <2>1. NoJob \in CsvJob
    BY DEF NoJob, CsvJob
  <2>2. srv = [watch |-> {}, batches |-> <<>>, nextSeq |-> 1, nextId |-> 1, job |-> NoJob]
    BY DEF Init, ServerInit
  <2>3. srv \in [watch : {{}}, batches : {<<>>}, nextSeq : {1}, nextId : Nat, job : CsvJob]
    BY ONLY <2>1, <2>2
  <2> QED BY ONLY <2>3 DEF SrvOk
<1>4. files \in Seq(File) /\ files = <<>>
  BY DEF Init
<1>5. ExportIds
  BY <1>2 DEF Init, ServerInit, NoJob, ExportIds, Latest
<1>6. Rising(files, srv.job.id) /\ FilesOk
  BY ONLY <1>4 DEF Rising, FilesOk
<1> QED BY ONLY <1>1, <1>3, <1>4, <1>5, <1>6, <1>7 DEF CsvTyped, CsvInv

\* What a step leaves alone that the exports do not concern.
CsvQuiet ==
    /\ UNCHANGED <<csvToNode, csvToServer, csvReplies, csvOut, exported, files>>
    /\ SrvOk(srv') /\ srv'.nextId >= srv.nextId /\ srv'.job.id = srv.job.id
    /\ srv'.job.recs = srv.job.recs /\ srv'.job.done = srv.job.done
    /\ srv'.job.failed = srv.job.failed

LEMMA QuietKeeps ==
    ASSUME CsvTyped, CsvInv, NodeTyped', CsvQuiet
    PROVE  CsvTyped' /\ CsvInv'
<1>1. CsvTyped'
  BY DEF CsvTyped, CsvQuiet, ExportsTyped, Chunks
<1>2. srv.nextId \in Nat /\ srv'.nextId \in Nat /\ srv.job.id \in Nat
  BY DEF CsvTyped, CsvQuiet, SrvOk, CsvJob
<1>3. ExportIds'
  <2>1. ExportIds /\ CsvQuiet
    BY DEF CsvInv
  <2> QED BY ONLY <1>2, <2>1 DEF ExportIds, CsvQuiet
<1>4. Rising(files, srv.job.id)'
  BY DEF CsvInv, Rising, CsvQuiet
<1>5. FilesOk'
  <2>1. ASSUME NEW f, FileOk(f, srv.job, exported, Chunks, csvOut)
        PROVE  FileOk(f, srv'.job, exported, Chunks, csvOut)
    BY ONLY <2>1, CsvQuiet DEF FileOk, CsvQuiet
  <2>2. UNCHANGED <<Chunks, csvOut, exported, files>>
    BY DEF CsvQuiet, Chunks
  <2>3. FilesOk
    BY DEF CsvInv
  <2> QED BY ONLY <2>1, <2>2, <2>3 DEF FilesOk
<1> QED BY ONLY <1>1, <1>3, <1>4, <1>5 DEF CsvInv

\* The files go with what is on its way.
LEMMA FileFollows ==
    ASSUME NEW f \in File, NEW job \in CsvJob, NEW exports, NEW chunks, NEW out,
           NEW exports2, NEW chunks2, NEW out2,
           Follows(exports, chunks, out, exports2, chunks2, out2),
           FileOk(f, job, exports, chunks, out)
    PROVE  FileOk(f, job, exports2, chunks2, out2)
<1> DEFINE rows == f.rows \o job.recs
<1>1. f.rows \in Seq(Sample) /\ f.id \in Nat /\ job.recs \in Seq(Sample)
  BY DEF File, CsvJob
<1>2. rows \in Seq(Sample)
  BY ONLY <1>1, ConcatProperties
<1> HIDE DEF rows
<1>3. Arrives(rows, f.id, exports, chunks, out) => Arrives(rows, f.id, exports2, chunks2, out2)
  BY ONLY <1>1, <1>2, Follows(exports, chunks, out, exports2, chunks2, out2) DEF Follows
<1>4. Accounted(rows, f.id, exports, chunks, out) => Accounted(rows, f.id, exports2, chunks2, out2)
  BY ONLY <1>1, <1>2, Follows(exports, chunks, out, exports2, chunks2, out2) DEF Follows
<1>5. Accounted(f.rows, f.id, exports, chunks, out)
         => Accounted(f.rows, f.id, exports2, chunks2, out2)
  BY ONLY <1>1, Follows(exports, chunks, out, exports2, chunks2, out2) DEF Follows
<1> QED BY ONLY <1>3, <1>4, <1>5, FileOk(f, job, exports, chunks, out) DEF FileOk, rows

LEMMA LineKeeps ==
    ASSUME CsvTyped, CsvInv, NodeTyped', UNCHANGED <<srv, files>>, csvToNode' \in Seq(Nat),
           csvToServer' \in Seq(CsvChunk), csvReplies' \in Seq(CsvChunk), ExportIds',
           LineOk(exported', Chunks', csvOut'),
           Follows(exported, Chunks, csvOut, exported', Chunks', csvOut')
    PROVE  CsvTyped' /\ CsvInv'
<1>1. SrvOk(srv) /\ files \in Seq(File) /\ Rising(files, srv.job.id) /\ FilesOk
  BY DEF CsvTyped, CsvInv
<1>2. ExportsTyped'
  BY DEF ExportsTyped
<1>3. CsvTyped'
  BY ONLY <1>1, <1>2, NodeTyped', UNCHANGED <<srv, files>> DEF CsvTyped
<1>4. srv.job \in CsvJob
  BY ONLY <1>1 DEF SrvOk
<1>5. ASSUME NEW i \in DOMAIN files
      PROVE  FileOk(files[i], srv.job, exported', Chunks', csvOut')
  <2>1. files[i] \in File /\ FileOk(files[i], srv.job, exported, Chunks, csvOut)
    BY ONLY <1>1, i \in DOMAIN files DEF FilesOk
  <2> QED BY ONLY <1>4, <2>1, FileFollows,
                  Follows(exported, Chunks, csvOut, exported', Chunks', csvOut')
<1>6. FilesOk' /\ Rising(files, srv.job.id)'
  BY ONLY <1>1, <1>5, UNCHANGED <<srv, files>> DEF FilesOk, Rising
<1> QED BY ONLY <1>3, <1>6, ExportIds' DEF CsvInv

LEMMA FollowsAlways ==
    ASSUME NEW exports, NEW chunks, NEW out
    PROVE  Follows(exports, chunks, out, exports, chunks, out)
BY DEF Follows

LEMMA FollowsOn ==
    ASSUME NEW e1, NEW c1, NEW o1, NEW e2, NEW c2, NEW o2, NEW e3, NEW c3, NEW o3,
           Follows(e1, c1, o1, e2, c2, o2), Follows(e2, c2, o2, e3, c3, o3)
    PROVE  Follows(e1, c1, o1, e3, c3, o3)
BY DEF Follows

\* The log of the node.
Logs(w, t) == [memory : [Probes -> Seq(Sample)], spill : Seq(Sample), truncated : BOOLEAN,
               running : BOOLEAN, window : {w}, latest : {t}]

LEMMA SpillKeeps ==
    ASSUME NEW w, NEW t, NEW l \in Logs(w, t), NEW p \in Probes, AtCap(l, p)
    PROVE  SpillOldest(l, p) \in Logs(w, t)
<1>1. l.memory \in [Probes -> Seq(Sample)] /\ l.spill \in Seq(Sample)
  BY DEF Logs
<1> DEFINE held == l.memory[p]
<1>2. held \in Seq(Sample)
  BY ONLY <1>1, p \in Probes
<1>3. Len(held) >= MemCap /\ MemCap \in Nat \ {0}
  BY ONLY AtCap(l, p), MemAssumption DEF AtCap
<1> DEFINE rest == Tail(held)
           first == Head(held)
<1> HIDE DEF held
<1>4. rest \in Seq(Sample) /\ first \in Sample
  BY ONLY <1>2, <1>3
<1> DEFINE m == [l.memory EXCEPT ![p] = rest]
           s == Append(l.spill, first)
<1> HIDE DEF rest, first
<1>5. m \in [Probes -> Seq(Sample)] /\ s \in Seq(Sample)
  BY ONLY <1>1, <1>4
<1>6. SpillOldest(l, p) = [l EXCEPT !.memory = m, !.spill = s]
  BY ONLY l \in Logs(w, t) DEF SpillOldest, Logs, m, s, held, rest, first
<1> HIDE DEF m, s
<1>7. [l EXCEPT !.memory = m, !.spill = s] \in Logs(w, t)
  BY ONLY l \in Logs(w, t), <1>5 DEF Logs
<1> QED BY ONLY <1>6, <1>7

LEMMA PushKeeps ==
    ASSUME NEW l, LogOk(l), NEW rec \in Sample, NEW spills
    PROVE  LogOk(Push(l, rec, spills))
<1> DEFINE others == Beside(rec, l.window)
           room == IF AtCap(l, rec.probe) THEN SpillOldest(l, rec.probe) ELSE l
<1>1. PICK w, t : l \in Logs(w, t)
  BY ONLY LogOk(l) DEF LogOk, Logs
<1>2. rec.probe \in Probes
  BY DEF Sample
<1>3. room \in Logs(w, t)
  BY ONLY <1>1, <1>2, SpillKeeps
<1> HIDE DEF room, others
<1>4. CASE Push(l, rec, spills) = [l EXCEPT !.truncated = TRUE]
  <2>1. [l EXCEPT !.truncated = TRUE] \in Logs(w, t)
    BY ONLY <1>1, Zenon DEF Logs
  <2> QED BY ONLY <1>4, <2>1 DEF LogOk, Logs
<1> DEFINE m == [room.memory EXCEPT ![rec.probe] = Append(@, rec)]
           latest == [room.latest EXCEPT ![rec.probe] = <<rec>>]
           window == IF l.running THEN Append(others, rec) ELSE room.window
<1>5. CASE Push(l, rec, spills) = [room EXCEPT !.memory = m, !.latest = latest,
                                               !.window = window]
  <2>1. room.memory \in [Probes -> Seq(Sample)]
    BY ONLY <1>3 DEF Logs
  <2>2. m \in [Probes -> Seq(Sample)]
    BY ONLY <2>1, <1>2, rec \in Sample
  <2> HIDE DEF m, latest, window
  <2>3. [room EXCEPT !.memory = m, !.latest = latest, !.window = window] \in Logs(window, latest)
    BY ONLY <1>3, <2>2 DEF Logs
  <2> QED BY ONLY <1>5, <2>3 DEF LogOk, Logs
<1>6. [room EXCEPT !.memory[rec.probe] = Append(@, rec), !.latest[rec.probe] = <<rec>>,
                   !.window = IF l.running THEN Append(others, rec) ELSE @]
      = [room EXCEPT !.memory = m, !.latest = latest, !.window = window]
  BY ONLY <1>3 DEF Logs
<1> HIDE DEF m, latest, window
<1> QED BY <1>4, <1>5, <1>6 DEF Push, room, others

LEMMA IngestKeeps ==
    ASSUME NEW l, LogOk(l), NEW held \in [Probes -> Seq(Sample)], NEW spills
    PROVE  LogOk(Ingest(l, held, spills))
<1>1. ASSUME NEW k, LogOk(k), NEW s \in Seq(Sample) PROVE LogOk(PushHeld(k, s, spills))
  <2>1. CASE s = Nothing
    BY ONLY <1>1, <2>1 DEF PushHeld
  <2>2. CASE s # Nothing
    <3>1. s[1] \in Sample
      BY ONLY s \in Seq(Sample), <2>2 DEF Nothing
    <3>2. LogOk(Push(k, s[1], spills))
      BY ONLY <1>1, <3>1, PushKeeps
    <3> QED BY ONLY <2>2, <3>2 DEF PushHeld
  <2> QED BY ONLY <2>1, <2>2
<1>2. held.pin \in Seq(Sample) /\ held.tx \in Seq(Sample)
  BY DEF Probes
<1>3. LogOk(PushHeld(l, held.pin, spills))
  BY ONLY LogOk(l), <1>1, <1>2
<1> QED BY ONLY <1>1, <1>2, <1>3 DEF Ingest

LEMMA ExportIsTyped ==
    ASSUME NEW l, LogOk(l)
    PROVE  Export(l) \in Seq(Sample)
<1>1. l.spill \in Seq(Sample) /\ l.memory["pin"] \in Seq(Sample) /\ l.memory["tx"] \in Seq(Sample)
  BY DEF LogOk, Probes
<1>2. \A a, b \in Seq(Sample) : a \o b \in Seq(Sample)
  BY ConcatProperties
<1> QED BY ONLY <1>1, <1>2 DEF Export

\* What the taps, the window and the counters are set to.
LEMMA DrivePinKeeps ==
    ASSUME tap \in [Probes -> Seq(Sample)], NEW levels \in Seq(Levels), NEW time \in Nat,
           DrivePin(levels, time)
    PROVE  tap' \in [Probes -> Seq(Sample)]
<1>1. CASE UNCHANGED tap
  BY <1>1
<1>2. CASE /\ \E i \in DOMAIN levels : levels[i] # level
           /\ tap' = [tap EXCEPT !.pin = <<[probe |-> "pin", time |-> time,
                                           value |-> Last(levels)]>>]
  <2> DEFINE value == levels[Len(levels)]
             s == [probe |-> "pin", time |-> time, value |-> value]
  <2>1. value \in Levels
    BY ONLY <1>2, levels \in Seq(Levels)
  <2>2. s \in Sample
    <3> HIDE DEF value
    <3> QED BY ONLY <2>1, time \in Nat DEF Sample, Probes
  <2>3. tap' = [tap EXCEPT !.pin = <<s>>]
    BY <1>2 DEF Last
  <2> HIDE DEF s
  <2> DEFINE held == <<s>>
  <2>4. held \in Seq(Sample)
    BY ONLY <2>2
  <2>5. tap' = [tap EXCEPT !["pin"] = held]
    BY ONLY <2>3
  <2> HIDE DEF held
  <2> QED BY ONLY tap \in [Probes -> Seq(Sample)], <2>4, <2>5
<1> QED BY <1>1, <1>2 DEF DrivePin

LEMMA SetRunningKeeps ==
    ASSUME LogOk(log), NEW on \in BOOLEAN, SetRunning(on)
    PROVE  LogOk(log')
<1>1. PICK w, t : log \in Logs(w, t)
  BY DEF LogOk, Logs
<1> DEFINE window == IF on = log.running THEN log.window ELSE <<>>
<1>2. log' = [log EXCEPT !.running = on, !.window = window]
  BY <1>1 DEF SetRunning, Logs
<1> HIDE DEF window
<1>3. [log EXCEPT !.running = on, !.window = window] \in Logs(window, t)
  BY ONLY <1>1, on \in BOOLEAN, Zenon DEF Logs
<1> QED BY ONLY <1>2, <1>3 DEF LogOk, Logs

LEMMA CountKeeps ==
    ASSUME used \in [Counted -> Nat], NEW what \in Counted, Count(what)
    PROVE  used' \in [Counted -> Nat]
BY DEF Count

\* What is pushed to the viewer is not the job's.
LEMMA PushBatchKeeps ==
    ASSUME NEW s, SrvOk(s), NEW seq, NEW recs
    PROVE  /\ SrvOk(PushBatch(s, seq, recs))
           /\ PushBatch(s, seq, recs).job = s.job /\ PushBatch(s, seq, recs).nextId = s.nextId
<1> DEFINE all == IF recs = <<>> THEN s.batches
                  ELSE Append(s.batches, [seq |-> seq, recs |-> recs])
           kept == IF Len(all) > KeepBatches THEN Tail(all) ELSE all
<1>1. PushBatch(s, seq, recs) = [s EXCEPT !.batches = kept]
  BY DEF PushBatch
<1> HIDE DEF kept
<1>2. /\ SrvOk([s EXCEPT !.batches = kept])
      /\ [s EXCEPT !.batches = kept].job = s.job /\ [s EXCEPT !.batches = kept].nextId = s.nextId
  BY ONLY SrvOk(s) DEF SrvOk
<1> QED BY ONLY <1>1, <1>2

LEMMA FanoutKeeps ==
    ASSUME SrvOk(srv), NEW live
    PROVE  /\ SrvOk(FanoutLive(live))
           /\ FanoutLive(live).job = srv.job /\ FanoutLive(live).nextId = srv.nextId
<1>1. CASE live = <<>>
  BY <1>1 DEF FanoutLive
<1>2. CASE live # <<>>
  <2> DEFINE s == [srv EXCEPT !.nextSeq = @ + 1]
  <2>1. SrvOk(s) /\ s.job = srv.job /\ s.nextId = srv.nextId
    <3> DEFINE q == srv.nextSeq + 1
    <3>1. s = [srv EXCEPT !.nextSeq = q]
      OBVIOUS
    <3> HIDE DEF q, s
    <3> QED BY ONLY SrvOk(srv), <3>1 DEF SrvOk
  <2>2. FanoutLive(live) = PushBatch(s, srv.nextSeq, live)
    BY <1>2 DEF FanoutLive
  <2> HIDE DEF s
  <2> QED BY ONLY <2>1, <2>2, PushBatchKeeps
<1> QED BY <1>1, <1>2

\* A query takes an id, and leaves the job alone.
LEMMA AskKeeps ==
    ASSUME NEW s, SrvOk(s), NEW for, NEW query, Ask(for, s, query)
    PROVE  SrvOk(srv') /\ srv'.job = s.job /\ srv'.nextId > s.nextId
<1> DEFINE next == s.nextId + 1
<1>1. srv' = [s EXCEPT !.nextId = next]
  BY DEF Ask
<1>2. next \in Nat /\ next > s.nextId
  BY DEF SrvOk
<1> HIDE DEF next
<1> QED BY ONLY SrvOk(s), <1>1, <1>2 DEF SrvOk

\* The steps of the node but Service leave the exports alone.
LEMMA ControlIsQuiet ==
    ASSUME ActionsTyped, CsvTyped, HandleControl \/ EndControl
    PROVE  NodeTyped' /\ CsvQuiet
<1>1. CASE EndControl
  <2>1. UNCHANGED <<tap, log, used, srv, csvToNode, csvToServer, csvReplies, csvOut, exported, files>>
    BY <1>1 DEF EndControl, nodeKept, probeVars, serverVars
  <2>2. NodeTyped /\ SrvOk(srv)
    BY DEF CsvTyped
  <2>3. srv.nextId \in Nat
    BY <2>2 DEF SrvOk
  <2> QED BY ONLY <2>1, <2>2, <2>3 DEF NodeTyped, CsvQuiet
<1>2. CASE HandleControl
  <2>1. UNCHANGED <<used, srv, csvToNode, csvToServer, csvReplies, csvOut, exported, files>>
    BY <1>2 DEF HandleControl, nodeKept, serverVars
  <2>2. NodeTyped /\ SrvOk(srv)
    BY DEF CsvTyped
  <2>3. srv.nextId \in Nat
    BY <2>2 DEF SrvOk
  <2>4. CsvQuiet
    BY ONLY <2>1, <2>2, <2>3 DEF CsvQuiet
  <2>5. \/ UNCHANGED tap /\ \E on \in BOOLEAN : SetRunning(on)
        \/ UNCHANGED log /\ DrivePin(<<"Low">>, now)
        \/ UNCHANGED <<tap, log>>
    BY <1>2 DEF HandleControl
  <2>6. tap' \in [Probes -> Seq(Sample)]
    <3>1. <<"Low">> \in Seq(Levels) /\ now \in Nat
      BY DEF Levels, ActionsTyped
    <3>2. tap \in [Probes -> Seq(Sample)]
      BY <2>2 DEF NodeTyped
    <3> QED BY ONLY <2>5, <3>1, <3>2, DrivePinKeeps
  <2>7. LogOk(log')
    <3>1. LogOk(log)
      BY <2>2 DEF NodeTyped
    <3> QED BY ONLY <2>5, <3>1, SetRunningKeeps
  <2> QED BY ONLY <2>1, <2>2, <2>4, <2>6, <2>7 DEF NodeTyped
<1> QED BY <1>1, <1>2

LEMMA PassIsQuiet ==
    ASSUME ActionsTyped, CsvTyped, NEW to \in Steps, NEW spills, NEW emits,
           NEW at, at = NoTick \/ at \in now..to, Pass(to, at, spills, emits)
    PROVE  NodeTyped' /\ CsvQuiet
<1>1. UNCHANGED <<srv, csvToNode, csvToServer, csvReplies, csvOut, exported, files>>
  BY DEF Pass, nodeKept, serverVars
<1>2. NodeTyped /\ SrvOk(srv)
  BY DEF CsvTyped
<1>3. CsvQuiet
  <2>1. srv.nextId \in Nat
    BY <1>2 DEF SrvOk
  <2> QED BY ONLY <1>1, <1>2, <2>1 DEF CsvQuiet
<1>4. tap' \in [Probes -> Seq(Sample)]
  <2>1. tap' = [p \in Probes |-> Nothing]
    BY DEF Pass
  <2>2. Nothing \in Seq(Sample)
    BY DEF Nothing
  <2> QED BY ONLY <2>1, <2>2
<1>5. used' \in [Counted -> Nat]
  <2>1. used \in [Counted -> Nat]
    BY <1>2 DEF NodeTyped
  <2> DEFINE words == IF at = NoTick THEN used.words ELSE used.words + 1
             fails == IF spills THEN used.fails ELSE used.fails + 1
  <2>2. used' = [used EXCEPT !.words = words, !.fails = fails]
    BY <2>1 DEF Pass, Counted
  <2>3. words \in Nat /\ fails \in Nat
    BY ONLY <2>1 DEF Counted
  <2> HIDE DEF words, fails
  <2> QED BY ONLY <2>1, <2>2, <2>3 DEF Counted
<1> DEFINE word == [probe |-> "tx", time |-> at, value |-> used.words + 1]
           held == IF at = NoTick THEN tap ELSE [tap EXCEPT !.tx = <<word>>]
           got == Ingest(log, held, spills)
<1>6. held \in [Probes -> Seq(Sample)]
  <2>1. tap \in [Probes -> Seq(Sample)] /\ used.words \in Nat /\ now \in Nat
    BY <1>2 DEF NodeTyped, ActionsTyped, Counted
  <2>2. CASE at = NoTick
    BY <2>1, <2>2
  <2>3. CASE at # NoTick
    <3>1. at \in Nat
      BY <2>1, <2>3
    <3>2. word \in Sample
      BY <2>1, <3>1 DEF Sample, Probes
    <3> DEFINE s == <<word>>
    <3> HIDE DEF word
    <3>3. s \in Seq(Sample)
      BY ONLY <3>2
    <3>4. held = [tap EXCEPT !["tx"] = s]
      BY <2>3
    <3> HIDE DEF s, held
    <3> QED BY ONLY <2>1, <3>3, <3>4
  <2> QED BY <2>2, <2>3
<1>7. LogOk(got)
  <2>1. LogOk(log)
    BY <1>2 DEF NodeTyped
  <2> HIDE DEF held
  <2> QED BY ONLY <1>6, <2>1, IngestKeeps
<1>8. LogOk(log')
  <2>1. log' = IF emits THEN [got EXCEPT !.window = <<>>] ELSE got
    BY DEF Pass
  <2> HIDE DEF got
  <2>2. LogOk([got EXCEPT !.window = <<>>])
    BY ONLY <1>7 DEF LogOk
  <2> QED BY ONLY <1>7, <2>1, <2>2
<1> QED BY ONLY <1>3, <1>4, <1>5, <1>8 DEF NodeTyped

LEMMA ArbiterIsQuiet ==
    ASSUME CsvTyped, HostCommand \/ Forward \/ ForwardWatch \/ ForwardQuery
    PROVE  NodeTyped' /\ CsvQuiet
<1>1. UNCHANGED <<tap, log, srv, csvToNode, csvToServer, csvReplies, csvOut, exported, files>>
  <2>1. CASE HostCommand
    BY <2>1 DEF HostCommand, arbKept, probeVars, serverVars
  <2>2. CASE Forward
    BY <2>2 DEF Forward, arbKept, probeVars, serverVars
  <2>3. CASE ForwardWatch
    BY <2>3 DEF ForwardWatch, arbKept, probeVars
  <2>4. CASE ForwardQuery
    BY <2>4 DEF ForwardQuery, ForwardQueries, arbKept
  <2> QED BY <2>1, <2>2, <2>3, <2>4
<1>2. NodeTyped /\ SrvOk(srv)
  BY DEF CsvTyped
<1>3. used' \in [Counted -> Nat]
  <2>1. used \in [Counted -> Nat]
    BY <1>2 DEF NodeTyped
  <2>2. used' = used \/ Count("commands")
    BY DEF HostCommand, Forward, ForwardWatch, ForwardQuery
  <2>3. "commands" \in Counted
    BY DEF Counted
  <2> QED BY ONLY <2>1, <2>2, <2>3, CountKeeps
<1>4. srv.nextId \in Nat
  BY <1>2 DEF SrvOk
<1> QED BY ONLY <1>1, <1>2, <1>3, <1>4 DEF NodeTyped, CsvQuiet

\* So do the steps of the server and its clients that are not about a file.
CsvApart == Invoke \/ Watch \/ StreamWatch \/ SeeStatus \/ ReadUart \/ UartAnswered \/ QueryTimeout
            \/ Collect

LEMMA ApartKeepsSrv ==
    ASSUME SrvOk(srv), CsvApart
    PROVE  SrvOk(srv') /\ srv'.job = srv.job /\ srv'.nextId >= srv.nextId
<1> DEFINE P == SrvOk(srv') /\ srv'.job = srv.job /\ srv'.nextId >= srv.nextId
<1>1. srv.nextId \in Nat
  BY DEF SrvOk
<1>2. CASE srv' = srv
  BY ONLY SrvOk(srv), <1>1, <1>2
<1>3. ASSUME NEW seq, NEW recs, srv' = PushBatch(srv, seq, recs) PROVE P
  BY ONLY SrvOk(srv), <1>1, <1>3, PushBatchKeeps
<1>4. ASSUME NEW s, SrvOk(s), s.job = srv.job, s.nextId = srv.nextId,
             NEW for, NEW query, Ask(for, s, query)
      PROVE  P
  <2>1. SrvOk(srv') /\ srv'.job = s.job /\ srv'.nextId > s.nextId
    BY ONLY <1>4, AskKeeps
  <2>2. srv'.nextId \in Nat
    BY ONLY <2>1 DEF SrvOk
  <2> QED BY ONLY <1>1, <1>4, <2>1, <2>2
<1>5. CASE Watch
  <2>1. CASE PutWatch({"pin"})
    <3> DEFINE q == srv.nextSeq + 1
               s == [srv EXCEPT !.watch = {"pin"}, !.nextSeq = @ + 1]
    <3>1. s = [srv EXCEPT !.watch = {"pin"}, !.nextSeq = q]
      OBVIOUS
    <3>2. Ask("watcher", s, LatestQuery({"pin"}))
      BY <2>1 DEF PutWatch
    <3> HIDE DEF q, s
    <3>3. SrvOk(s) /\ s.job = srv.job /\ s.nextId = srv.nextId
      BY ONLY SrvOk(srv), <3>1 DEF SrvOk
    <3> QED BY <1>4, <3>2, <3>3
  <2>2. CASE ClearWatch
    <3> DEFINE w == {}
               b == <<>>
    <3>1. srv' = [srv EXCEPT !.watch = w, !.batches = b]
      BY <2>2 DEF ClearWatch
    <3> HIDE DEF w, b
    <3>2. SrvOk(srv') /\ srv'.job = srv.job /\ srv'.nextId = srv.nextId
      BY ONLY SrvOk(srv), <3>1 DEF SrvOk
    <3> QED BY ONLY <1>1, <3>2
  <2> QED BY <1>5, <2>1, <2>2 DEF Watch
<1>6. CASE StreamWatch
  <2>1. srv' = [srv EXCEPT !.batches = <<>>]
    BY <1>6 DEF StreamWatch
  <2> QED BY ONLY SrvOk(srv), <1>1, <2>1 DEF SrvOk
<1>7. CASE ReadUart
  BY <1>4, <1>7 DEF ReadUart
<1>8. CASE Invoke \/ SeeStatus \/ UartAnswered \/ QueryTimeout
  <2>1. srv' = srv
    BY <1>8 DEF Invoke, SeeStatus, UartAnswered, QueryTimeout, serverVars
  <2> QED BY <1>2, <2>1
<1>9. CASE Collect
  <2>1. CASE CollectReply \/ SkipLast
    <3>1. srv' = srv
      BY <2>1 DEF CollectReply, SkipLast
    <3> QED BY <1>2, <3>1
  <2>2. CASE SnapshotWatch
    BY <1>3, <2>2 DEF SnapshotWatch
  <2> QED BY <1>9, <2>1, <2>2 DEF Collect
<1> QED BY <1>5, <1>6, <1>7, <1>8, <1>9 DEF CsvApart

LEMMA ApartIsQuiet ==
    ASSUME CsvTyped, CsvApart
    PROVE  NodeTyped' /\ CsvQuiet
<1>1. UNCHANGED <<tap, log, csvToNode, csvToServer, csvReplies, csvOut, exported, files>>
  <2>1. CASE Invoke
    BY <2>1 DEF Invoke, probeKept, nodeProbes
  <2>2. CASE Watch
    BY <2>2 DEF Watch, probeKept, nodeProbes
  <2>3. CASE StreamWatch \/ ReadUart
    BY <2>3 DEF StreamWatch, ReadUart, probeKept, nodeProbes
  <2>4. CASE SeeStatus
    BY <2>4 DEF SeeStatus, probeVars, serverVars
  <2>5. CASE UartAnswered \/ Collect
    BY <2>5 DEF UartAnswered, Collect, nodeProbes
  <2>6. CASE QueryTimeout
    BY <2>6 DEF QueryTimeout, probeKept, nodeProbes
  <2> QED BY <2>1, <2>2, <2>3, <2>4, <2>5, <2>6 DEF CsvApart
<1>2. NodeTyped /\ SrvOk(srv)
  BY DEF CsvTyped
<1>3. used' \in [Counted -> Nat]
  <2>1. used \in [Counted -> Nat]
    BY <1>2 DEF NodeTyped
  <2>2. used' = used \/ \E what \in Counted : Count(what)
    <3>1. CASE Invoke \/ Watch \/ ReadUart \/ QueryTimeout
      BY <3>1 DEF Invoke, Watch, ReadUart, QueryTimeout, Counted
    <3>2. CASE StreamWatch \/ SeeStatus \/ UartAnswered \/ Collect
      BY <3>2 DEF StreamWatch, SeeStatus, UartAnswered, Collect
    <3> QED BY <3>1, <3>2 DEF CsvApart
  <2> QED BY ONLY <2>1, <2>2, CountKeeps
<1>4. SrvOk(srv') /\ srv'.job = srv.job /\ srv'.nextId >= srv.nextId
  BY <1>2, ApartKeepsSrv
<1> QED BY ONLY <1>1, <1>2, <1>3, <1>4 DEF NodeTyped, CsvQuiet

\* The arbiter passes a chunk on; the oldest that waits for the server may give way to it.
LEMMA ForwardKeepsCsv ==
    ASSUME CsvTyped, CsvInv, ForwardChunk
    PROVE  CsvTyped' /\ CsvInv'
<1> DEFINE s == csvToServer
           r == csvReplies
           c == Head(r)
<1>1. /\ UNCHANGED <<tap, log, used, srv, files, csvToNode, csvOut>>
      /\ r # <<>> /\ csvReplies' = Tail(r) /\ csvToServer' = Append(Room(s), c)
      /\ exported' = Overwritten(s, exported)
  BY DEF ForwardChunk, ForwardCsv, arbKept
<1>2. NodeTyped /\ ExportsTyped /\ ExportIds
  BY DEF CsvTyped, CsvInv
<1>3. NodeTyped'
  BY ONLY <1>1, <1>2 DEF NodeTyped
<1>4. s \in Seq(CsvChunk) /\ r \in Seq(CsvChunk) /\ csvToNode \in Seq(Nat)
      /\ LineOk(exported, Chunks, csvOut)
  BY ONLY <1>2 DEF ExportsTyped
<1>5. c \in CsvChunk /\ Tail(r) \in Seq(CsvChunk) /\ r = <<c>> \o Tail(r)
  BY ONLY <1>1, <1>4
<1> HIDE DEF c
<1>6. CsvCap \in Nat \ {0}
  BY CsvAssumption
<1>7. CASE Len(s) < CsvCap
  <2>1. csvToServer' = Append(s, c) /\ exported' = exported
    BY ONLY <1>1, <1>7 DEF Room, Overwritten
  <2>2. csvToServer' \in Seq(CsvChunk) /\ Append(s, c) = s \o <<c>>
    BY ONLY <1>4, <1>5, <2>1
  <2>3. (s \o <<c>>) \o Tail(r) = s \o (<<c>> \o Tail(r))
    <3>1. <<c>> \in Seq(CsvChunk)
      BY ONLY <1>5
    <3> QED BY ONLY <1>4, <1>5, <3>1, ConcatAssociative
  <2>4. Chunks' = Chunks
    BY ONLY <1>1, <1>5, <2>1, <2>2, <2>3 DEF Chunks
  <2>5. ExportIds'
    BY ONLY <1>1, <1>2, <2>1 DEF ExportIds
  <2>6. csvReplies' \in Seq(CsvChunk) /\ csvToNode' \in Seq(Nat) /\ LineOk(exported', Chunks', csvOut')
    BY ONLY <1>1, <1>4, <1>5, <2>1, <2>4
  <2>7. Follows(exported, Chunks, csvOut, exported', Chunks', csvOut')
    BY ONLY <1>1, <2>1, <2>4, FollowsAlways
  <2>8. UNCHANGED <<srv, files>>
    BY ONLY <1>1
  <2> QED BY <1>3, <2>2, <2>5, <2>6, <2>7, <2>8, LineKeeps
<1>8. CASE ~(Len(s) < CsvCap)
  <2> DEFINE over == [exported EXCEPT ![Head(s).id].overwritten = @ + Len(Head(s).recs)]
  <2>1. csvToServer' = Append(Tail(s), c) /\ exported' = over
    BY ONLY <1>1, <1>8 DEF Room, Overwritten
  <2>2. s # <<>> /\ Tail(s) \in Seq(CsvChunk) /\ s = <<Head(s)>> \o Tail(s)
        /\ <<Head(s)>> \in Seq(CsvChunk) /\ Len(s) >= CsvCap
    <3> DEFINE Q == Len(s)
    <3>1. Q \in Nat /\ (s = <<>> => Q = 0)
      BY ONLY <1>4
    <3> HIDE DEF Q
    <3>2. Q >= CsvCap /\ Q # 0
      BY ONLY <1>6, <1>8, <3>1 DEF Q
    <3>3. s # <<>>
      BY ONLY <3>1, <3>2
    <3>4. Tail(s) \in Seq(CsvChunk) /\ s = <<Head(s)>> \o Tail(s) /\ <<Head(s)>> \in Seq(CsvChunk)
      BY ONLY <1>4, <3>3
    <3> QED BY ONLY <3>2, <3>3, <3>4 DEF Q
  <2>3. Append(Tail(s), c) \in Seq(CsvChunk) /\ Append(Tail(s), c) = Tail(s) \o <<c>>
    <3> DEFINE rest == Tail(s)
    <3>1. rest \in Seq(CsvChunk)
      BY ONLY <2>2
    <3> HIDE DEF rest
    <3>2. Append(rest, c) \in Seq(CsvChunk) /\ Append(rest, c) = rest \o <<c>>
      BY ONLY <1>5, <3>1
    <3> QED BY ONLY <3>2 DEF rest
  <2> DEFINE t == Tail(s) \o r
             none == <<>>
  <2>4. Append(Tail(s), c) \o Tail(r) = t
    <3>1. <<c>> \in Seq(CsvChunk)
      BY ONLY <1>5
    <3> DEFINE rest == Tail(s)
    <3>2. (rest \o <<c>>) \o Tail(r) = rest \o (<<c>> \o Tail(r))
      <4> HIDE DEF rest
      <4>1. rest \in Seq(CsvChunk)
        BY ONLY <2>2 DEF rest
      <4> QED BY ONLY <1>5, <3>1, <4>1, ConcatAssociative
    <3> QED BY ONLY <1>5, <2>3, <3>2
  <2>5. Chunks' = t
    BY ONLY <1>1, <2>1, <2>4 DEF Chunks
  <2>6. /\ Chunks \in Seq(CsvChunk) /\ Chunks # <<>> /\ Head(Chunks) = Head(s)
        /\ Tail(Chunks) = t /\ Len(Chunks) > CsvCap
    <3>1. Chunks \in Seq(CsvChunk) /\ Len(Chunks) = Len(s) + Len(r) /\ Chunks[1] = s[1]
      <4>1. Len(s) >= 1
        BY ONLY <1>4, <2>2
      <4>2. 1 \in 1..Len(s)
        BY ONLY <1>4, <4>1
      <4> QED BY ONLY <1>4, <4>2, ConcatItems DEF Chunks
    <3>2. Len(r) >= 1 /\ Len(s) \in Nat /\ Len(r) \in Nat
      BY ONLY <1>1, <1>4
    <3>3. Len(Chunks) > CsvCap
      BY ONLY <1>6, <2>2, <3>1, <3>2
    <3>4. Chunks # <<>> /\ Head(Chunks) = Chunks[1] /\ Head(s) = s[1]
      BY ONLY <1>4, <1>6, <2>2, <3>1, <3>3
    <3>5. Tail(Chunks) = t
      <4> DEFINE h == Head(s)
                 rest == Tail(s)
      <4>1. h \in CsvChunk /\ rest \in Seq(CsvChunk) /\ <<h>> \in Seq(CsvChunk) /\ s = <<h>> \o rest
        BY ONLY <1>4, <2>2
      <4> HIDE DEF h, rest
      <4>2. Chunks = <<h>> \o (rest \o r)
        BY ONLY <1>4, <4>1, ConcatAssociative DEF Chunks
      <4> DEFINE u == rest \o r
      <4>3. u \in Seq(CsvChunk)
        BY ONLY <1>4, <4>1, ConcatProperties
      <4> HIDE DEF u
      <4>4. Tail(<<h>> \o u) = u
        BY ONLY <4>1, <4>3
      <4> QED BY ONLY <4>2, <4>4 DEF u, rest
    <3> QED BY ONLY <3>1, <3>3, <3>4, <3>5
  <2> HIDE DEF t, none
  <2>7. none \in Seq(CsvChunk) /\ none \o Chunks = Chunks /\ none \o t = t
    <3>1. <<>> \o Chunks = Chunks
      BY ONLY <2>6, ConcatEmptySeq
    <3>2. t \in Seq(CsvChunk)
      BY ONLY <1>4, <2>2, ConcatProperties DEF t
    <3>3. <<>> \o t = t
      BY ONLY <3>2, ConcatEmptySeq
    <3>4. <<>> \in Seq(CsvChunk)
      OBVIOUS
    <3> QED BY ONLY <3>1, <3>3, <3>4 DEF none
  <2>8. Len(Chunks) + Len(Unsent(Head(Chunks).id, csvOut)) > CsvCap
    <3>1. Unsent(Head(Chunks).id, csvOut) \in Seq(Sample)
      BY ONLY <1>4, UnsentTyped DEF LineOk, LineTyped
    <3>2. Len(Unsent(Head(Chunks).id, csvOut)) \in Nat /\ Len(Chunks) \in Nat
      BY ONLY <2>6, <3>1
    <3> QED BY ONLY <1>6, <2>6, <3>2
  <2>9. /\ LineOk(over, none \o Tail(Chunks), csvOut)
        /\ Follows(exported, none \o Chunks, csvOut, over, none \o Tail(Chunks), csvOut)
    <3>1. LineOk(exported, none \o Chunks, csvOut)
      BY ONLY <1>4, <2>7
    <3>2. over = [exported EXCEPT ![Head(Chunks).id].overwritten = @ + Len(Head(Chunks).recs)]
      BY ONLY <2>6
    <3> HIDE DEF over
    <3> QED BY ONLY <2>6, <2>7, <2>8, <3>1, <3>2, LineOverwritten
  <2>10. LineOk(exported', Chunks', csvOut')
    BY ONLY <1>1, <2>1, <2>5, <2>6, <2>7, <2>9
  <2>11. Follows(exported, Chunks, csvOut, exported', Chunks', csvOut')
    BY ONLY <1>1, <2>1, <2>5, <2>6, <2>7, <2>9
  <2>12. ExportIds'
    <3>1. DOMAIN exported' = DOMAIN exported
      BY ONLY <2>1
    <3> QED BY ONLY <1>1, <1>2, <3>1 DEF ExportIds, Latest
  <2>13. csvToServer' \in Seq(CsvChunk) /\ csvReplies' \in Seq(CsvChunk) /\ csvToNode' \in Seq(Nat)
    BY ONLY <1>1, <1>4, <1>5, <2>1, <2>3
  <2>14. UNCHANGED <<srv, files>>
    BY ONLY <1>1
  <2> QED BY <1>3, <2>10, <2>11, <2>12, <2>13, <2>14, LineKeeps
<1> QED BY <1>7, <1>8

\* service_csv: the export the pass is about, if there is one, and then its chunk.
Begins == csvOut = Nothing /\ csvToNode # <<>>
Sent == IF Begins THEN <<[id |-> Head(csvToNode), recs |-> Export(log),
                          truncated |-> log.truncated]>>
        ELSE csvOut
Begun == IF Begins THEN [i \in DOMAIN exported \cup {Sent[1].id} |->
                            IF i = Sent[1].id THEN [recs |-> Sent[1].recs, overwritten |-> 0]
                            ELSE exported[i]]
         ELSE exported

\* The export has begun, and nothing of it is sent yet in this pass.
LEMMA ServiceBegins ==
    ASSUME CsvTyped, CsvInv
    PROVE  /\ LineOk(Begun, Chunks, Sent)
           /\ Follows(exported, Chunks, csvOut, Begun, Chunks, Sent)
           /\ Latest(srv.job.id, Begun)
<1>1. LineOk(exported, Chunks, csvOut) /\ csvToNode \in Seq(Nat) /\ ExportIds /\ LogOk(log)
  BY DEF CsvTyped, NodeTyped, ExportsTyped, CsvInv
<1>2. CASE ~Begins
  BY ONLY <1>1, <1>2, FollowsAlways DEF Begun, Sent, ExportIds
<1>3. CASE Begins
  <2> DEFINE o == [id |-> Head(csvToNode), recs |-> Export(log), truncated |-> log.truncated]
  <2>1. o \in CsvExport /\ o.id = csvToNode[1] /\ 1 \in DOMAIN csvToNode
    <3>1. Export(log) \in Seq(Sample) /\ log.truncated \in BOOLEAN
      <4>1. log.truncated \in BOOLEAN
        BY ONLY <1>1 DEF LogOk
      <4> QED BY ONLY <1>1, <4>1, ExportIsTyped
    <3>2. Head(csvToNode) \in Nat /\ Head(csvToNode) = csvToNode[1] /\ 1 \in DOMAIN csvToNode
      BY ONLY <1>1, <1>3 DEF Begins
    <3> QED BY ONLY <3>1, <3>2 DEF CsvExport
  <2>2. Sent = <<o>> /\ Sent[1] = o /\ csvOut = Nothing
    BY ONLY <1>3 DEF Sent, Begins
  <2> HIDE DEF o
  <2>3. Begun = [i \in DOMAIN exported \cup {o.id} |->
                    IF i = o.id THEN [recs |-> o.recs, overwritten |-> 0] ELSE exported[i]]
    BY ONLY <1>3, <2>2 DEF Begun
  <2>4. (\A id \in DOMAIN exported : id < o.id) /\ o.id <= srv.job.id
    BY ONLY <1>1, <2>1 DEF ExportIds
  <2>5. LineOk(exported, Chunks, Nothing)
    BY ONLY <1>1, <2>2
  <2>6. LineOk(Begun, Chunks, <<o>>) /\ Follows(exported, Chunks, Nothing, Begun, Chunks, <<o>>)
    <3> DEFINE begun == Begun
    <3> HIDE DEF begun
    <3>1. begun = [i \in DOMAIN exported \cup {o.id} |->
                      IF i = o.id THEN [recs |-> o.recs, overwritten |-> 0] ELSE exported[i]]
      BY ONLY <2>3 DEF begun
    <3>2. LineOk(begun, Chunks, <<o>>) /\ Follows(exported, Chunks, Nothing, begun, Chunks, <<o>>)
      BY ONLY <2>1, <2>4, <2>5, <3>1, LineBegins
    <3> QED BY ONLY <3>2 DEF begun
  <2>7. Latest(srv.job.id, Begun)
    <3>1. DOMAIN Begun = DOMAIN exported \cup {o.id}
      BY ONLY <2>3
    <3> QED BY ONLY <1>1, <2>4, <3>1 DEF Latest, ExportIds
  <2> QED BY ONLY <2>2, <2>6, <2>7
<1> QED BY ONLY <1>2, <1>3

\* A chunk leaves, for which the oldest in the queue may have to give way.
LEMMA ServiceSends ==
    ASSUME CsvTyped, NEW begun, NEW o \in CsvExport, LineOk(begun, Chunks, <<o>>),
           NEW chunk \in CsvChunk, NEW left, Sends(o, chunk, left),
           NEW over, over = Overwritten(csvReplies, begun),
           NEW more, more = Append(Room(csvReplies), chunk)
    PROVE  /\ more \in Seq(CsvChunk) /\ DOMAIN over = DOMAIN begun
           /\ LineOk(over, csvToServer \o more, left)
           /\ Follows(begun, Chunks, <<o>>, over, csvToServer \o more, left)
<1> DEFINE a == csvToServer
           s == csvReplies
           room == Room(s)
           out == <<o>>
<1>1. a \in Seq(CsvChunk) /\ s \in Seq(CsvChunk)
  BY DEF CsvTyped, ExportsTyped
<1>2. CsvCap \in Nat \ {0}
  BY CsvAssumption
<1>3. /\ room \in Seq(CsvChunk) /\ DOMAIN over = DOMAIN begun /\ LineOk(over, a \o room, out)
      /\ Follows(begun, Chunks, out, over, a \o room, out)
  <2>1. CASE Len(s) < CsvCap
    <3>1. room = s /\ over = begun /\ Chunks = a \o s
      BY ONLY <2>1, over = Overwritten(csvReplies, begun) DEF Room, Overwritten, Chunks
    <3> QED BY ONLY <1>1, <3>1, LineOk(begun, Chunks, <<o>>), FollowsAlways
  <2>2. CASE ~(Len(s) < CsvCap)
    <3> DEFINE c == Head(s)
               Q == Len(s)
    <3>1. Q \in Nat /\ (s = <<>> => Q = 0)
      BY ONLY <1>1
    <3> HIDE DEF Q
    <3>2. Q >= CsvCap /\ Q # 0
      BY ONLY <1>2, <2>2, <3>1 DEF Q
    <3>3. s # <<>> /\ Len(s) >= CsvCap
      BY ONLY <3>1, <3>2 DEF Q
    <3>4. Tail(s) \in Seq(CsvChunk) /\ c \in CsvChunk /\ s[1] = c /\ 1 \in 1..Len(s)
      BY ONLY <1>1, <3>3
    <3>5. /\ room = Tail(s) /\ Chunks = a \o s
          /\ over = [begun EXCEPT ![c.id].overwritten = @ + Len(c.recs)]
      BY ONLY <2>2, over = Overwritten(csvReplies, begun) DEF Room, Overwritten, Chunks
    <3>6. /\ o.id \in DOMAIN begun /\ Latest(o.id, begun) /\ c.id \in DOMAIN begun
          /\ o.recs = <<>> => begun[o.id].recs = <<>>
          /\ DOMAIN begun \subseteq Nat
      <4>1. LineOrder(begun, Chunks, out) /\ LineTyped(begun, Chunks, out)
        BY DEF LineOk
      <4>2. out # Nothing /\ out[1] = o
        BY DEF Nothing
      <4>3. Len(a) + 1 \in DOMAIN Chunks /\ Chunks[Len(a) + 1] = c
        BY ONLY <1>1, <3>4, <3>5, ConcatItems
      <4> HIDE DEF out, c
      <4> QED BY ONLY <4>1, <4>2, <4>3 DEF LineOrder, LineTyped, ChunkOk
    <3>7. Latest(c.id, begun) => begun[c.id].recs = <<>> \/ Len(s) + Len(Unsent(c.id, out)) > CsvCap
      <4> SUFFICES ASSUME Latest(c.id, begun)
                   PROVE  begun[c.id].recs = <<>> \/ Len(s) + Len(Unsent(c.id, out)) > CsvCap
        OBVIOUS
      <4>1. c.id = o.id
        <5>1. c.id <= o.id /\ o.id <= c.id /\ c.id \in Nat /\ o.id \in Nat
          BY ONLY <3>6, Latest(c.id, begun) DEF Latest
        <5> QED BY ONLY <5>1
      <4>2. Unsent(c.id, out) = o.recs
        BY <4>1 DEF Unsent, Sending, Nothing
      <4>3. o.recs # <<>> => Len(o.recs) \in Nat /\ Len(o.recs) >= 1
        <5>1. o.recs \in Seq(Sample)
          BY DEF CsvExport
        <5> QED BY ONLY <5>1
      <4>4. o.recs # <<>> => Len(s) + Len(Unsent(c.id, out)) > CsvCap
        <5> HIDE DEF out, c
        <5>1. Len(s) \in Nat
          BY ONLY <1>1
        <5> QED BY ONLY <1>2, <3>3, <4>2, <4>3, <5>1
      <4> HIDE DEF out, c
      <4> QED BY ONLY <3>6, <4>1, <4>4
    <3> HIDE DEF out
    <3>8. LineOk(over, a \o Tail(s), out) /\ Follows(begun, a \o s, out, over, a \o Tail(s), out)
      <4>1. LineOk(begun, a \o s, out)
        BY ONLY <3>5, LineOk(begun, Chunks, <<o>>) DEF out
      <4> QED BY ONLY <1>1, <3>3, <3>5, <3>7, <4>1, LineOverwritten
    <3>9. DOMAIN over = DOMAIN begun
      BY ONLY <3>5
    <3> QED BY ONLY <3>4, <3>5, <3>8, <3>9
  <2> QED BY ONLY <2>1, <2>2
<1> HIDE DEF room, out
<1>4. more \in Seq(CsvChunk) /\ a \o more = Append(a \o room, chunk)
  <2>1. more = Append(room, chunk) /\ room \in Seq(CsvChunk)
    BY ONLY <1>3, more = Append(Room(csvReplies), chunk) DEF room
  <2> QED BY ONLY <1>1, <2>1, chunk \in CsvChunk
<1>5. /\ LineOk(over, Append(a \o room, chunk), left)
      /\ Follows(over, a \o room, out, over, Append(a \o room, chunk), left)
  <2>1. LineOk(over, a \o room, <<o>>)
    BY ONLY <1>3 DEF out
  <2> DEFINE line == a \o room
  <2> HIDE DEF line
  <2>2. LineOk(over, line, <<o>>)
    BY ONLY <2>1 DEF line
  <2>3. /\ LineOk(over, Append(line, chunk), left)
        /\ Follows(over, line, <<o>>, over, Append(line, chunk), left)
    BY ONLY <2>2, o \in CsvExport, chunk \in CsvChunk, Sends(o, chunk, left), LineSends
  <2> QED BY ONLY <2>3 DEF line, out
<1>6. Follows(begun, Chunks, out, over, a \o more, left)
  BY ONLY <1>3, <1>4, <1>5, FollowsOn
<1> QED BY ONLY <1>3, <1>4, <1>5, <1>6 DEF out

LEMMA ServiceKeepsCsv ==
    ASSUME CsvTyped, CsvInv, NodeTyped', ServiceCsv, UNCHANGED <<srv, files, csvToServer>>
    PROVE  CsvTyped' /\ CsvInv'
<1>1. /\ LineOk(Begun, Chunks, Sent) /\ Latest(srv.job.id, Begun)
      /\ Follows(exported, Chunks, csvOut, Begun, Chunks, Sent)
  BY ServiceBegins
<1>2. csvToNode' = <<>>
  BY DEF ServiceCsv
<1>3. ExportsTyped /\ ExportIds
  BY DEF CsvTyped, CsvInv
<1>4. SUFFICES /\ csvReplies' \in Seq(CsvChunk) /\ LineOk(exported', Chunks', csvOut')
               /\ Follows(Begun, Chunks, Sent, exported', Chunks', csvOut')
               /\ DOMAIN exported' = DOMAIN Begun
  <2>1. Follows(exported, Chunks, csvOut, exported', Chunks', csvOut')
    BY ONLY <1>1, <1>4, FollowsOn
  <2>2. ExportIds'
    BY ONLY <1>1, <1>2, <1>3, <1>4, UNCHANGED <<srv, files, csvToServer>> DEF ExportIds, Latest
  <2>3. csvToServer' \in Seq(CsvChunk) /\ csvToNode' \in Seq(Nat)
    BY ONLY <1>2, <1>3, UNCHANGED <<srv, files, csvToServer>> DEF ExportsTyped
  <2> QED BY <1>4, <2>1, <2>2, <2>3, LineKeeps
<1>5. OutTyped(Sent)
  BY ONLY <1>1 DEF LineOk, LineTyped
<1>6. CASE Sent = Nothing
  <2>1. csvReplies' = csvReplies /\ csvOut' = Nothing /\ exported' = exported /\ Begun = exported
    <3>1. ~Begins /\ csvOut = Nothing /\ Begun = exported
      BY <1>6 DEF Sent, Begun, Nothing
    <3> QED BY <3>1 DEF ServiceCsv, Begins
  <2>2. Chunks' = Chunks
    BY <2>1 DEF Chunks
  <2> QED BY ONLY <1>1, <1>3, <1>6, <2>1, <2>2, FollowsAlways DEF ExportsTyped
<1>7. ASSUME NEW o \in CsvExport, Sent = <<o>>
      PROVE  /\ csvReplies' \in Seq(CsvChunk) /\ LineOk(exported', Chunks', csvOut')
             /\ Follows(Begun, Chunks, Sent, exported', Chunks', csvOut')
             /\ DOMAIN exported' = DOMAIN Begun
  <2> DEFINE rest == IF o.recs = <<>> THEN <<>> ELSE Tail(o.recs)
             first == IF o.recs = <<>> THEN <<>> ELSE <<Head(o.recs)>>
             chunk == Chunk(o.id, first, rest = <<>>, o.truncated)
  <2>1. o.recs \in Seq(Sample) /\ o.id \in Nat /\ o.truncated \in BOOLEAN
    BY DEF CsvExport
  <2>2. /\ rest \in Seq(Sample) /\ first \in Seq(Sample) /\ first \o rest = o.recs
        /\ first = <<>> => o.recs = <<>>
    BY ONLY <2>1
  <2>3. /\ csvReplies' = Append(Room(csvReplies), chunk)
        /\ csvOut' = IF rest = <<>> THEN Nothing ELSE <<[o EXCEPT !.recs = rest]>>
        /\ exported' = Overwritten(csvReplies, Begun)
    <3>1. Sent # Nothing /\ Sent[1] = o
      BY <1>7 DEF Nothing
    <3>2. csvReplies' = Append(Room(csvReplies),
                               Chunk(Sent[1].id,
                                  IF Sent[1].recs = <<>> THEN <<>> ELSE <<Head(Sent[1].recs)>>,
                                  (IF Sent = Nothing \/ Sent[1].recs = <<>> THEN <<>>
                                   ELSE Tail(Sent[1].recs)) = <<>>,
                                  Sent[1].truncated))
      BY <3>1 DEF ServiceCsv, Sent, Begins
    <3>3. csvOut' = IF (IF Sent = Nothing \/ Sent[1].recs = <<>> THEN <<>>
                        ELSE Tail(Sent[1].recs)) = <<>> THEN Nothing
                    ELSE <<[Sent[1] EXCEPT !.recs = IF Sent = Nothing \/ Sent[1].recs = <<>>
                                                    THEN <<>> ELSE Tail(Sent[1].recs)]>>
      BY DEF ServiceCsv, Sent, Begins
    <3>4. exported' = Overwritten(csvReplies, Begun)
      BY <3>1 DEF ServiceCsv, Sent, Begins, Begun
    <3> QED BY ONLY <3>1, <3>2, <3>3, <3>4
  <2> HIDE DEF rest, first
  <2>4. chunk.id = o.id /\ chunk.recs = first /\ chunk.last = (rest = <<>>) /\ chunk \in CsvChunk
    BY ONLY <2>1, <2>2 DEF Chunk, CsvChunk
  <2> HIDE DEF chunk
  <2>5. Sends(o, chunk, csvOut')
    BY ONLY <2>2, <2>3, <2>4 DEF Sends
  <2>6. Chunks' = csvToServer \o csvReplies'
    BY DEF Chunks
  <2> DEFINE begun == Begun
             more == csvReplies'
             over == exported'
             left == csvOut'
  <2> HIDE DEF begun, more, over, left
  <2>7. /\ over = Overwritten(csvReplies, begun) /\ more = Append(Room(csvReplies), chunk)
        /\ Sends(o, chunk, left) /\ LineOk(begun, Chunks, <<o>>)
    BY ONLY <1>1, <1>7, <2>3, <2>5 DEF begun, more, over, left
  <2>8. /\ more \in Seq(CsvChunk) /\ DOMAIN over = DOMAIN begun
        /\ LineOk(over, csvToServer \o more, left)
        /\ Follows(begun, Chunks, <<o>>, over, csvToServer \o more, left)
    BY ONLY CsvTyped, o \in CsvExport, <2>4, <2>7, ServiceSends
  <2> QED BY ONLY <1>7, <2>6, <2>8 DEF begun, more, over, left
<1> QED BY ONLY <1>5, <1>6, <1>7 DEF OutTyped

LEMMA PollKeepsCsv ==
    ASSUME CsvTyped, CsvInv, Poll
    PROVE  CsvTyped' /\ CsvInv'
<1> DEFINE job == srv.job
           later == IngestCsv(job, csvToServer)
<1>1. /\ UNCHANGED <<tap, log, used, csvToNode, csvReplies, csvOut, exported, files>>
      /\ csvToServer' = IF srv.job.done THEN csvToServer ELSE <<>>
  BY DEF Poll, PollProbes, nodeProbes
<1>2. /\ NodeTyped /\ SrvOk(srv) /\ files \in Seq(File) /\ csvToServer \in Seq(CsvChunk)
      /\ csvReplies \in Seq(CsvChunk) /\ csvToNode \in Seq(Nat) /\ LineOk(exported, Chunks, csvOut)
  BY DEF CsvTyped, ExportsTyped
<1>3. ExportIds /\ Rising(files, srv.job.id) /\ FilesOk
  BY DEF CsvInv
<1>4. job \in CsvJob /\ srv.nextId \in Nat
  BY <1>2 DEF SrvOk
<1>5. \E live : srv' = [FanoutLive(live) EXCEPT !.job = IngestCsv(@, csvToServer)]
  BY DEF Poll, PollProbes
<1>6. later \in CsvJob /\ later.id = job.id
  <2>1. Gathered(job.recs, job.id, csvToServer) \in Seq(Sample)
    BY ONLY <1>2, <1>4, GatheredTyped DEF CsvJob
  <2> DEFINE all == \E i \in DOMAIN csvToServer : csvToServer[i].id = job.id /\ csvToServer[i].last
             got == Gathered(job.recs, job.id, csvToServer)
             done == all \/ job.expired
             failed == ~all /\ job.expired
  <2>2. later = IF job.done THEN job
                ELSE [job EXCEPT !.recs = got, !.done = done, !.failed = failed]
    BY <1>4 DEF IngestCsv, CsvJob
  <2>3. done \in BOOLEAN /\ failed \in BOOLEAN
    BY <1>4 DEF CsvJob
  <2> HIDE DEF got, done, failed, job
  <2>4. [job EXCEPT !.recs = got, !.done = done, !.failed = failed] \in CsvJob
    BY ONLY <1>4, <2>1, <2>3, Zenon DEF CsvJob, got
  <2>5. [job EXCEPT !.recs = got, !.done = done, !.failed = failed].id = job.id
    BY ONLY <1>4 DEF CsvJob
  <2> QED BY ONLY <1>4, <2>2, <2>4, <2>5
<1>7. SrvOk(srv') /\ srv'.job = later /\ srv'.nextId = srv.nextId
  <2>1. PICK live : srv' = [FanoutLive(live) EXCEPT !.job = IngestCsv(@, csvToServer)]
    BY ONLY <1>5
  <2> DEFINE s == FanoutLive(live)
  <2>2. SrvOk(s) /\ s.job = job /\ s.nextId = srv.nextId
    BY ONLY <1>2, FanoutKeeps
  <2> HIDE DEF s, later
  <2>3. srv' = [s EXCEPT !.job = later]
    BY ONLY <2>1, <2>2 DEF s, later
  <2> QED BY ONLY <1>6, <2>2, <2>3 DEF SrvOk
<1>8. csvToServer' \in Seq(CsvChunk) /\ LineOk(exported, Chunks', csvOut)
  <2>1. CASE srv.job.done
    <3>1. csvToServer' = csvToServer /\ csvReplies' = csvReplies
      BY ONLY <1>1, <2>1
    <3> QED BY ONLY <1>2, <3>1 DEF Chunks
  <2>2. CASE ~srv.job.done
    <3>1. csvToServer' = <<>> /\ csvReplies' = csvReplies
      BY ONLY <1>1, <2>2
    <3>2. <<>> \o csvReplies = csvReplies
      BY ONLY <1>2, ConcatEmptySeq
    <3>3. Chunks' = csvReplies
      BY ONLY <3>1, <3>2 DEF Chunks
    <3>4. LineOk(exported, csvReplies, csvOut)
      BY ONLY <1>2, LineShorter DEF Chunks
    <3>5. <<>> \in Seq(CsvChunk)
      OBVIOUS
    <3> QED BY ONLY <3>1, <3>3, <3>4, <3>5
  <2> QED BY ONLY <2>1, <2>2
<1>9. CsvTyped'
  <2>1. NodeTyped' /\ ExportsTyped'
    BY ONLY <1>1, <1>2, <1>8 DEF NodeTyped, ExportsTyped
  <2> QED BY ONLY <1>1, <1>2, <1>7, <2>1 DEF CsvTyped
<1>10. ExportIds' /\ Rising(files, srv.job.id)'
  <2> HIDE DEF later
  <2> QED BY ONLY <1>1, <1>3, <1>6, <1>7 DEF ExportIds, Rising
<1>11. FilesOk'
  <2>1. CASE job.done
    <3>1. later = job /\ csvToServer' = csvToServer /\ csvReplies' = csvReplies
      BY ONLY <1>1, <2>1 DEF IngestCsv
    <3>2. Chunks' = Chunks
      BY ONLY <3>1 DEF Chunks
    <3> HIDE DEF later
    <3> QED BY ONLY <1>1, <1>3, <1>7, <3>1, <3>2 DEF FilesOk
  <2>2. CASE ~job.done
    <3> DEFINE got == Gathered(job.recs, job.id, csvToServer)
               all == \E i \in DOMAIN csvToServer :
                          csvToServer[i].id = job.id /\ csvToServer[i].last
    <3>1. /\ later.recs = got /\ later.done = (all \/ job.expired)
          /\ later.failed = (~all /\ job.expired)
      BY ONLY <1>1, <1>4, <2>2 DEF IngestCsv, CsvJob
    <3>2. Chunks' = csvReplies
      <4>1. <<>> \o csvReplies = csvReplies
        BY ONLY <1>2, ConcatEmptySeq
      <4>2. csvToServer' = <<>> /\ csvReplies' = csvReplies
        BY ONLY <1>1, <2>2
      <4> QED BY ONLY <4>1, <4>2 DEF Chunks
    <3>3. Latest(job.id, exported)
      BY ONLY <1>3 DEF ExportIds
    <3>4. ASSUME NEW i \in DOMAIN files
          PROVE  FileOk(files[i], later, exported, csvReplies, csvOut)
      <4> DEFINE f == files[i]
      <4>1. f \in File /\ f.rows \in Seq(Sample)
        <5>1. f \in File
          BY ONLY <1>2, <3>4
        <5> HIDE DEF f
        <5>2. f.rows \in Seq(Sample)
          BY ONLY <5>1 DEF File
        <5> QED BY ONLY <5>1, <5>2
      <4>2. job.recs \in Seq(Sample)
        BY ONLY <1>4 DEF CsvJob
      <4>3. FileOk(f, job, exported, Chunks, csvOut)
        BY ONLY <1>3, <3>4 DEF FilesOk
      <4> SUFFICES FileOk(f, later, exported, csvReplies, csvOut)
        OBVIOUS
      <4> HIDE DEF f, later, job
      <4>4. LineOk(exported, csvToServer \o csvReplies, csvOut)
        BY ONLY <1>2 DEF Chunks
      <4>5. Accounted(f.rows, f.id, exported, Chunks, csvOut)
               => Accounted(f.rows, f.id, exported, csvReplies, csvOut)
        BY ONLY <1>2, <4>1, <4>4, LineTaken DEF Chunks
      <4>6. CASE f.id # job.id
        BY ONLY <1>6, <4>3, <4>5, <4>6 DEF FileOk
      <4>7. CASE f.id = job.id
        <5> DEFINE before == f.rows \o job.recs
                   rows == f.rows \o got
        <5>1. before \in Seq(Sample) /\ rows \in Seq(Sample) /\ Gathered(before, f.id, csvToServer) = rows
          <6>1. before \in Seq(Sample)
            BY ONLY <4>1, <4>2, ConcatProperties
          <6>2. got \in Seq(Sample) /\ Gathered(before, job.id, csvToServer) = rows
            <7>1. f.rows \in Seq(Sample) /\ csvToServer \in Seq(CsvChunk)
              BY ONLY <1>2, <4>1
            <7> DEFINE recs == job.recs
                       head == f.rows
                       id == job.id
            <7>2. recs \in Seq(Sample) /\ head \in Seq(Sample)
              BY ONLY <4>2, <7>1
            <7> HIDE DEF recs, head, id
            <7>3. /\ Gathered(recs, id, csvToServer) \in Seq(Sample)
                  /\ Gathered(head \o recs, id, csvToServer)
                        = head \o Gathered(recs, id, csvToServer)
              BY ONLY <7>1, <7>2, GatheredBehind
            <7> QED BY ONLY <7>3 DEF recs, head, id
          <6> HIDE DEF got
          <6>3. rows \in Seq(Sample)
            BY ONLY <4>1, <6>2, ConcatProperties
          <6> HIDE DEF before, rows
          <6> QED BY ONLY <4>7, <6>1, <6>2, <6>3
        <5> HIDE DEF before, got, rows
        <5>2. Arrives(before, f.id, exported, Chunks, csvOut)
                 => Arrives(rows, f.id, exported, csvReplies, csvOut)
          <6>1. Arrives(before, f.id, exported, csvToServer \o csvReplies, csvOut)
                   => Arrives(Gathered(before, f.id, csvToServer), f.id, exported, csvReplies, csvOut)
            BY ONLY <1>2, <4>4, <5>1, LineTaken
          <6> QED BY ONLY <5>1, <6>1 DEF Chunks
        <5>3. all /\ Arrives(rows, f.id, exported, csvReplies, csvOut)
                 => Accounted(rows, f.id, exported, csvReplies, csvOut)
          <6> SUFFICES ASSUME NEW k \in DOMAIN csvToServer, csvToServer[k].id = job.id,
                              csvToServer[k].last, Arrives(rows, f.id, exported, csvReplies, csvOut)
                       PROVE  Accounted(rows, f.id, exported, csvReplies, csvOut)
            OBVIOUS
          <6>1. csvToServer[k].id = f.id /\ Latest(f.id, exported)
            BY ONLY <3>3, <4>7, csvToServer[k].id = job.id
          <6> QED BY ONLY <1>2, <4>4, <5>1, <6>1, k \in DOMAIN csvToServer, csvToServer[k].last,
                          Arrives(rows, f.id, exported, csvReplies, csvOut), LineLast
        <5> HIDE DEF all
        <5>4. f.at = "saved" /\ ~f.lost => Accounted(f.rows, f.id, exported, csvReplies, csvOut)
          <6>1. f.at = "saved" /\ ~f.lost => Accounted(f.rows, f.id, exported, Chunks, csvOut)
            BY ONLY <4>3, Zenon DEF FileOk
          <6> QED BY ONLY <4>5, <6>1
        <5>5. ASSUME ~f.lost PROVE f.at # "ended"
          BY ONLY <2>2, <4>3, <4>7, <5>5 DEF FileOk, job
        <5>6. ASSUME ~f.lost, f.at = "stream"
              PROVE  Arrives(rows, f.id, exported, csvReplies, csvOut)
          BY ONLY <2>2, <4>3, <4>7, <5>2, <5>6 DEF FileOk, before, job
        <5>7. f.rows \o later.recs = rows
          BY ONLY <3>1 DEF rows
        <5>8. later.done /\ ~later.failed => all
          BY ONLY <3>1
        <5>9. ~f.lost /\ f.at = "stream" /\ later.done /\ ~later.failed
                 => Accounted(rows, f.id, exported, csvReplies, csvOut)
          BY ONLY <5>3, <5>6, <5>8
        <5> QED BY ONLY <5>4, <5>5, <5>6, <5>7, <5>9 DEF FileOk
      <4> QED BY ONLY <4>6, <4>7
    <3> HIDE DEF later
    <3> QED BY ONLY <1>1, <1>7, <3>2, <3>4 DEF FilesOk
  <2> QED BY ONLY <2>1, <2>2
<1> QED BY ONLY <1>9, <1>10, <1>11 DEF CsvInv

LEMMA DeadlineIsQuiet ==
    ASSUME CsvTyped, CsvDeadline
    PROVE  NodeTyped' /\ CsvQuiet
<1>1. UNCHANGED <<tap, log, csvToNode, csvToServer, csvReplies, csvOut, exported, files>>
  BY DEF CsvDeadline, fileKept, nodeProbes
<1>2. NodeTyped /\ SrvOk(srv)
  BY DEF CsvTyped
<1>3. used' \in [Counted -> Nat]
  <2>1. Count("timeouts") /\ "timeouts" \in Counted
    BY DEF CsvDeadline, Counted
  <2>2. used \in [Counted -> Nat]
    BY <1>2 DEF NodeTyped
  <2> QED BY ONLY <2>1, <2>2, CountKeeps
<1> DEFINE later == [srv.job EXCEPT !.expired = TRUE]
<1>4. srv' = [srv EXCEPT !.job = later]
  BY DEF CsvDeadline
<1>5. srv.job \in CsvJob /\ srv.nextId \in Nat
  BY <1>2 DEF SrvOk
<1>6. /\ later \in CsvJob /\ later.id = srv.job.id /\ later.recs = srv.job.recs
      /\ later.done = srv.job.done /\ later.failed = srv.job.failed
  BY ONLY <1>5, Zenon DEF CsvJob
<1> HIDE DEF later
<1>7. SrvOk(srv') /\ srv'.job = later /\ srv'.nextId = srv.nextId
  BY ONLY <1>2, <1>4, <1>6 DEF SrvOk
<1> QED BY ONLY <1>1, <1>2, <1>3, <1>5, <1>6, <1>7 DEF NodeTyped, CsvQuiet

\* A new export has the greatest id, and nothing of it has begun.
LEMMA DownloadKeepsCsv ==
    ASSUME CsvTyped, CsvInv, Download
    PROVE  CsvTyped' /\ CsvInv'
<1> DEFINE file == [id |-> srv.nextId, rows |-> <<>>, at |-> "stream", lost |-> FALSE]
           job == [NoJob EXCEPT !.id = srv.nextId, !.done = FALSE]
           next == srv.nextId + 1
           last == Len(files) + 1
<1>1. /\ UNCHANGED <<tap, log, csvToServer, csvReplies, csvOut, exported>>
      /\ csvToNode' = Append(csvToNode, srv.nextId) /\ files' = Append(files, file)
      /\ srv' = [srv EXCEPT !.nextId = next, !.job = job]
  BY DEF Download, StartCsv, fileKept, nodeProbes
<1>2. NodeTyped /\ ExportsTyped /\ SrvOk(srv) /\ files \in Seq(File)
  BY DEF CsvTyped
<1>3. ExportIds /\ Rising(files, srv.job.id) /\ FilesOk
  BY DEF CsvInv
<1>4. srv.nextId \in Nat /\ next \in Nat /\ next > srv.nextId /\ srv.job.id \in Nat
  BY ONLY <1>2 DEF SrvOk, CsvJob
<1>5. used' \in [Counted -> Nat]
  <2>1. Count("exports") /\ "exports" \in Counted
    BY DEF Download, Counted
  <2>2. used \in [Counted -> Nat]
    BY <1>2 DEF NodeTyped
  <2> QED BY ONLY <2>1, <2>2, CountKeeps
<1>6. /\ file \in File /\ file.id = srv.nextId /\ file.rows = <<>> /\ file.at = "stream"
      /\ job \in CsvJob /\ job.id = srv.nextId /\ job.recs = <<>> /\ ~job.done /\ ~job.failed
  <2> DEFINE id == srv.nextId
  <2>1. id \in Nat
    BY ONLY <1>4
  <2> HIDE DEF id
  <2>2. NoJob \in CsvJob /\ NoJob.recs = <<>> /\ ~NoJob.failed
    BY DEF NoJob, CsvJob
  <2> DEFINE d == FALSE
             new == [NoJob EXCEPT !.id = id, !.done = d]
  <2>3. d \in BOOLEAN /\ ~d
    OBVIOUS
  <2> HIDE DEF d
  <2>4. /\ new \in CsvJob /\ new.id = id /\ new.recs = NoJob.recs /\ new.done = d
        /\ new.failed = NoJob.failed
    BY ONLY <2>1, <2>2, <2>3 DEF CsvJob
  <2>5. file \in File
    BY ONLY <1>4 DEF File
  <2>6. job = new
    BY DEF d, id
  <2> HIDE DEF job, new
  <2> QED BY ONLY <2>2, <2>3, <2>4, <2>5, <2>6 DEF id
<1> HIDE DEF job, next
<1>7. SrvOk(srv') /\ srv'.job = job /\ srv'.nextId = next
  BY ONLY <1>1, <1>2, <1>4, <1>6 DEF SrvOk
<1> DEFINE more == Append(files, file)
<1> HIDE DEF file
<1>8. /\ more \in Seq(File) /\ DOMAIN more = DOMAIN files \cup {last}
      /\ \A i \in DOMAIN files : more[i] = files[i]
      /\ more[last] = file
      /\ \A i \in DOMAIN files : i < last
  BY ONLY <1>2, <1>6
<1>9. DOMAIN files \subseteq Nat /\ last \in Nat /\ last \notin DOMAIN files
  BY ONLY <1>2
<1>10. \A i \in DOMAIN files : files[i].id \in Nat /\ files[i].id <= srv.job.id
  <2>1. \A i \in DOMAIN files : files[i] \in File
    BY ONLY <1>2
  <2>2. \A f \in File : f.id \in Nat
    BY ONLY TRUE DEF File
  <2>3. \A i \in DOMAIN files : files[i].id <= srv.job.id
    BY ONLY <1>3 DEF Rising
  <2> QED BY ONLY <2>1, <2>2, <2>3
<1> HIDE DEF more, last
<1>11. CsvTyped'
  <2>1. csvToNode' \in Seq(Nat)
    BY ONLY <1>1, <1>2, <1>4 DEF ExportsTyped
  <2>2. ExportsTyped'
    BY ONLY <1>1, <1>2, <2>1 DEF ExportsTyped, Chunks
  <2>3. NodeTyped'
    BY ONLY <1>1, <1>2, <1>5 DEF NodeTyped
  <2>4. files' \in Seq(File)
    BY ONLY <1>1, <1>8 DEF more
  <2> QED BY ONLY <1>7, <2>2, <2>3, <2>4 DEF CsvTyped
<1>12. ExportIds'
  <2>1. Latest(srv.job.id, exported) /\ DOMAIN exported \subseteq Nat /\ srv.job.id < srv.nextId
    BY ONLY <1>2, <1>3 DEF ExportsTyped, LineOk, LineTyped, ExportIds
  <2>2. \A id \in DOMAIN exported : id < srv.nextId
    BY ONLY <1>4, <2>1 DEF Latest
  <2>3. Latest(job.id, exported)
    BY ONLY <1>4, <1>6, <2>1, <2>2 DEF Latest
  <2>4. csvToNode \in Seq(Nat) /\ \A i \in DOMAIN csvToNode :
           csvToNode[i] <= srv.job.id /\ \A id \in DOMAIN exported : id < csvToNode[i]
    BY ONLY <1>2, <1>3 DEF ExportsTyped, ExportIds
  <2>5. ASSUME NEW i \in DOMAIN csvToNode'
        PROVE  csvToNode'[i] <= job.id /\ \A id \in DOMAIN exported : id < csvToNode'[i]
    <3>1. DOMAIN csvToNode' = DOMAIN csvToNode \cup {Len(csvToNode) + 1}
          /\ csvToNode'[Len(csvToNode) + 1] = srv.nextId
          /\ \A k \in DOMAIN csvToNode : csvToNode'[k] = csvToNode[k] /\ csvToNode[k] \in Nat
      BY ONLY <1>1, <1>4, <2>4
    <3>2. CASE i = Len(csvToNode) + 1
      BY ONLY <1>4, <1>6, <2>2, <3>1, <3>2
    <3>3. CASE i \in DOMAIN csvToNode
      BY ONLY <1>4, <1>6, <2>1, <2>4, <3>1, <3>3
    <3> QED BY ONLY <2>5, <3>1, <3>2, <3>3
  <2> QED BY ONLY <1>1, <1>4, <1>6, <1>7, <2>3, <2>5 DEF ExportIds
<1>13. Rising(more, job.id)
  <2>1. \A i \in DOMAIN files : files[i].id < job.id /\ files[i].id <= job.id
    BY ONLY <1>3, <1>4, <1>6, <1>10 DEF ExportIds
  <2>2. file.id = job.id /\ job.id <= job.id
    BY ONLY <1>4, <1>6
  <2>3. ASSUME NEW i \in DOMAIN more PROVE more[i].id <= job.id
    BY ONLY <1>8, <2>1, <2>2, <2>3
  <2>4. ASSUME NEW i \in DOMAIN more, NEW j \in DOMAIN more, i < j
        PROVE  more[i].id < more[j].id
    <3>1. i \in DOMAIN files
      BY ONLY <1>8, <1>9, <2>4
    <3>2. CASE j = last
      BY ONLY <1>8, <2>1, <2>2, <3>1, <3>2
    <3>3. CASE j \in DOMAIN files
      BY ONLY <1>3, <1>8, <2>4, <3>1, <3>3 DEF Rising
    <3> QED BY ONLY <1>8, <2>4, <3>2, <3>3
  <2> QED BY ONLY <2>3, <2>4 DEF Rising
<1>14. ASSUME NEW i \in DOMAIN more
       PROVE  FileOk(more[i], job, exported, Chunks, csvOut)
  <2>1. CASE i \in DOMAIN files
    <3> DEFINE f == files[i]
    <3>1. FileOk(f, srv.job, exported, Chunks, csvOut)
      BY ONLY <1>3, <2>1 DEF FilesOk
    <3>2. f.id # job.id
      BY ONLY <1>3, <1>4, <1>6, <1>10, <2>1 DEF ExportIds
    <3> HIDE DEF f
    <3>3. FileOk(f, job, exported, Chunks, csvOut)
      BY ONLY <3>1, <3>2 DEF FileOk
    <3> QED BY ONLY <1>8, <2>1, <3>3 DEF f
  <2>2. CASE i = last
    <3>1. file.rows \o job.recs = <<>>
      BY ONLY <1>6
    <3>2. file.id \notin DOMAIN exported
      <4>1. Latest(srv.job.id, exported) /\ DOMAIN exported \subseteq Nat /\ srv.job.id < srv.nextId
        BY ONLY <1>2, <1>3 DEF ExportsTyped, LineOk, LineTyped, ExportIds
      <4> QED BY ONLY <1>4, <1>6, <4>1 DEF Latest
    <3>3. Arrives(file.rows \o job.recs, file.id, exported, Chunks, csvOut)
      BY ONLY <3>1, <3>2 DEF Arrives
    <3>4. FileOk(file, job, exported, Chunks, csvOut)
      BY ONLY <1>6, <3>3 DEF FileOk
    <3> QED BY ONLY <1>8, <2>2, <3>4
  <2> QED BY ONLY <1>8, <1>14, <2>1, <2>2
<1>15. Rising(files, srv.job.id)' /\ FilesOk'
  BY ONLY <1>1, <1>7, <1>13, <1>14 DEF more, FilesOk, Rising, Chunks
<1> QED BY ONLY <1>11, <1>12, <1>15 DEF CsvInv

\* A step of one file: what the worker hands out of the current export it hands to the file
\* of that export.
LEMMA FileKeeps ==
    ASSUME CsvTyped, CsvInv, NodeTyped', UNCHANGED <<csvToNode, csvToServer, csvReplies, csvOut, exported>>,
           NEW i \in DOMAIN files, NEW file \in File, file.id = files[i].id,
           files' = [files EXCEPT ![i] = file],
           SrvOk(srv'), srv'.nextId = srv.nextId, srv'.job.id = srv.job.id,
           srv'.job.done = srv.job.done, srv'.job.failed = srv.job.failed,
           srv'.job.recs = srv.job.recs \/ file.id = srv.job.id,
           FileOk(file, srv'.job, exported, Chunks, csvOut)
    PROVE  CsvTyped' /\ CsvInv'
<1>1. ExportsTyped /\ files \in Seq(File)
  BY DEF CsvTyped
<1>2. ExportIds /\ Rising(files, srv.job.id) /\ FilesOk
  BY DEF CsvInv
<1>3. /\ files' \in Seq(File) /\ DOMAIN files' = DOMAIN files /\ files'[i] = file
      /\ \A j \in DOMAIN files : j # i => files'[j] = files[j]
  BY ONLY <1>1, i \in DOMAIN files, file \in File, files' = [files EXCEPT ![i] = file]
<1>4. DOMAIN files \subseteq Nat
  BY ONLY <1>1
<1>5. CsvTyped'
  <2>1. ExportsTyped'
    BY <1>1 DEF ExportsTyped, Chunks
  <2> QED BY <1>3, <2>1 DEF CsvTyped
<1>6. ExportIds'
  BY <1>2 DEF ExportIds
<1>7. \A j \in DOMAIN files : files'[j].id = files[j].id
  BY ONLY <1>3, file.id = files[i].id
<1>8. Rising(files, srv.job.id)'
  BY ONLY <1>2, <1>3, <1>7, srv'.job.id = srv.job.id DEF Rising
<1>9. ASSUME NEW j \in DOMAIN files'
      PROVE  FileOk(files'[j], srv'.job, exported, Chunks, csvOut)
  <2>1. CASE j = i
    BY <1>3, <2>1
  <2>2. CASE j # i
    <3> DEFINE f == files[j]
    <3>1. FileOk(f, srv.job, exported, Chunks, csvOut) /\ files'[j] = f
      BY ONLY <1>2, <1>3, <1>9, <2>2 DEF FilesOk
    <3>2. f.id # srv.job.id \/ srv'.job.recs = srv.job.recs
      <4>1. SUFFICES ASSUME file.id = srv.job.id PROVE f.id # srv.job.id
        OBVIOUS
      <4>2. i < j \/ j < i
        BY ONLY <1>3, <1>4, <1>9, <2>2, i \in DOMAIN files
      <4>3. files[i].id < files[j].id \/ files[j].id < files[i].id
        BY ONLY <1>2, <1>3, <1>9, <4>2, i \in DOMAIN files DEF Rising
      <4>4. files[i].id \in Nat /\ files[j].id \in Nat
        <5>1. files[i] \in File /\ files[j] \in File
          BY ONLY <1>1, <1>3, <1>9, i \in DOMAIN files
        <5> QED BY ONLY <5>1 DEF File
      <4> QED BY ONLY <4>1, <4>3, <4>4, file.id = files[i].id
    <3> HIDE DEF f
    <3>3. FileOk(f, srv'.job, exported, Chunks, csvOut)
      BY ONLY <3>1, <3>2, srv'.job.id = srv.job.id, srv'.job.done = srv.job.done,
              srv'.job.failed = srv.job.failed DEF FileOk
    <3> QED BY <3>1, <3>3
  <2> QED BY <2>1, <2>2
<1>10. FilesOk'
  <2>1. UNCHANGED <<exported, Chunks, csvOut>>
    BY DEF Chunks
  <2> QED BY ONLY <1>9, <2>1 DEF FilesOk
<1> QED BY ONLY <1>5, <1>6, <1>8, <1>10 DEF CsvInv

\* The records of the export are handed out.
LEMMA TakenRecs ==
    ASSUME CsvTyped, srv' = [srv EXCEPT !.job.recs = <<>>]
    PROVE  /\ SrvOk(srv') /\ srv'.nextId = srv.nextId /\ srv'.job.id = srv.job.id
           /\ srv'.job.done = srv.job.done /\ srv'.job.failed = srv.job.failed
           /\ srv'.job.recs = <<>>
<1> DEFINE none == <<>>
           job == [srv.job EXCEPT !.recs = none]
<1>1. SrvOk(srv) /\ none \in Seq(Sample)
  BY DEF CsvTyped
<1>2. srv.job \in CsvJob
  BY ONLY <1>1 DEF SrvOk
<1>3. srv' = [srv EXCEPT !.job = job]
  BY <1>1 DEF SrvOk
<1> HIDE DEF none
<1>4. /\ job \in CsvJob /\ job.id = srv.job.id /\ job.done = srv.job.done
      /\ job.failed = srv.job.failed /\ job.recs = none
  BY ONLY <1>1, <1>2 DEF CsvJob
<1> HIDE DEF job
<1>5. SrvOk(srv') /\ srv'.nextId = srv.nextId /\ srv'.job = job
  BY ONLY <1>1, <1>3, <1>4 DEF SrvOk
<1> QED BY ONLY <1>4, <1>5 DEF none

LEMMA FilePollKeepsCsv ==
    ASSUME CsvTyped, CsvInv, NEW i \in DOMAIN files, FilePoll(i)
    PROVE  CsvTyped' /\ CsvInv'
<1> DEFINE f == files[i]
           job == srv.job
           got == [f EXCEPT !.rows = @ \o job.recs]
           rows == f.rows \o job.recs
<1>1. UNCHANGED <<csvToNode, csvToServer, csvReplies, csvOut, exported>> /\ NodeTyped'
  <2>1. UNCHANGED <<tap, log, used, csvToNode, csvToServer, csvReplies, csvOut, exported>>
    BY DEF FilePoll, fileKept, nodeProbes
  <2>2. NodeTyped
    BY DEF CsvTyped
  <2> QED BY ONLY <2>1, <2>2 DEF NodeTyped
<1>2. f \in File /\ SrvOk(srv) /\ job \in CsvJob
  <2>1. files \in Seq(File) /\ SrvOk(srv)
    BY DEF CsvTyped
  <2> QED BY ONLY <2>1, i \in DOMAIN files DEF SrvOk
<1>3. FileOk(f, job, exported, Chunks, csvOut)
  BY DEF CsvInv, FilesOk
<1>4. f.at = "stream"
  BY DEF FilePoll
<1>5. rows \in Seq(Sample) /\ rows \o <<>> = rows
  <2>1. f.rows \in Seq(Sample) /\ job.recs \in Seq(Sample)
    <3> HIDE DEF f, job
    <3> QED BY ONLY <1>2 DEF File, CsvJob
  <2>2. rows \in Seq(Sample)
    BY ONLY <2>1, ConcatProperties
  <2> HIDE DEF rows
  <2> QED BY ONLY <2>2, ConcatEmptySeq
<1>6. CASE f.id # job.id
  <2> DEFINE end == EndsStream(f)
  <2>1. srv' = srv /\ files' = [files EXCEPT ![i] = end]
    BY <1>6 DEF FilePoll, CurrentJob
  <2>2. end \in File /\ end.id = f.id /\ end.at = "ended"
    <3> HIDE DEF f
    <3> QED BY ONLY <1>2 DEF File, EndsStream
  <2> HIDE DEF end, f
  <2>3. FileOk(end, job, exported, Chunks, csvOut)
    BY ONLY <1>6, <2>2 DEF FileOk
  <2> QED BY <1>1, <1>2, <2>1, <2>2, <2>3, FileKeeps DEF f
<1>7. CASE f.id = job.id
  <2> DEFINE file == IF job.done THEN EndsStream(got) ELSE got
  <2>1. srv' = [srv EXCEPT !.job.recs = <<>>] /\ files' = [files EXCEPT ![i] = file]
    BY <1>7 DEF FilePoll, CurrentJob
  <2>2. /\ SrvOk(srv') /\ srv'.nextId = srv.nextId /\ srv'.job.id = job.id
        /\ srv'.job.done = job.done /\ srv'.job.failed = job.failed /\ srv'.job.recs = <<>>
    BY <2>1, TakenRecs
  <2>3. /\ file \in File /\ file.id = f.id /\ file.rows = rows /\ file.lost = f.lost
        /\ file.at = IF job.done THEN "ended" ELSE "stream"
    <3>1. got = [f EXCEPT !.rows = rows]
      BY ONLY <1>2 DEF File
    <3> HIDE DEF rows, f, got, job
    <3>2. got \in File /\ got.id = f.id /\ got.rows = rows /\ got.lost = f.lost /\ got.at = f.at
      BY ONLY <1>2, <1>5, <3>1 DEF File
    <3>3. /\ EndsStream(got) \in File /\ EndsStream(got).id = got.id
          /\ EndsStream(got).rows = got.rows /\ EndsStream(got).lost = got.lost
          /\ EndsStream(got).at = "ended"
      BY ONLY <3>2 DEF File, EndsStream
    <3> QED BY ONLY <1>4, <3>2, <3>3
  <2> HIDE DEF file, f, job
  <2>4. FileOk(file, srv'.job, exported, Chunks, csvOut)
    <3>1. file.rows \o srv'.job.recs = rows
      BY ONLY <1>5, <2>2, <2>3
    <3>2. ~f.lost => IF job.done THEN ~job.failed => Accounted(rows, f.id, exported, Chunks, csvOut)
                     ELSE Arrives(rows, f.id, exported, Chunks, csvOut)
      BY ONLY <1>3, <1>4, <1>7 DEF FileOk
    <3> HIDE DEF rows
    <3> QED BY ONLY <2>2, <2>3, <3>1, <3>2 DEF FileOk
  <2> QED BY <1>1, <1>7, <2>1, <2>2, <2>3, <2>4, FileKeeps DEF f, job
<1> QED BY ONLY <1>6, <1>7

LEMMA GivenUpKeepsCsv ==
    ASSUME CsvTyped, CsvInv, NEW i \in DOMAIN files, FilePollGivenUp(i)
    PROVE  CsvTyped' /\ CsvInv'
<1> DEFINE f == files[i]
           yes == TRUE
           file == [EndsStream(f) EXCEPT !.lost = yes]
<1>1. UNCHANGED <<csvToNode, csvToServer, csvReplies, csvOut, exported>> /\ NodeTyped'
  <2>1. UNCHANGED <<tap, log, csvToNode, csvToServer, csvReplies, csvOut, exported>> /\ Count("timeouts")
    BY DEF FilePollGivenUp, fileKept, nodeProbes
  <2>2. NodeTyped
    BY DEF CsvTyped
  <2>3. used' \in [Counted -> Nat]
    BY ONLY <2>1, <2>2, CountKeeps DEF NodeTyped, Counted
  <2> QED BY ONLY <2>1, <2>2, <2>3 DEF NodeTyped
<1>2. f \in File
  BY DEF CsvTyped
<1>3. /\ f.id = srv.job.id /\ srv' = [srv EXCEPT !.job.recs = <<>>]
      /\ files' = [files EXCEPT ![i] = file]
  BY DEF FilePollGivenUp, CurrentJob
<1>4. /\ SrvOk(srv') /\ srv'.nextId = srv.nextId /\ srv'.job.id = srv.job.id
      /\ srv'.job.done = srv.job.done /\ srv'.job.failed = srv.job.failed
  BY <1>3, TakenRecs
<1>5. file \in File /\ file.id = f.id /\ file.lost
  <2>1. yes \in BOOLEAN /\ yes
    OBVIOUS
  <2> HIDE DEF yes, f
  <2>2. EndsStream(f) \in File /\ EndsStream(f).id = f.id
    BY ONLY <1>2 DEF File, EndsStream
  <2> DEFINE ended == EndsStream(f)
  <2> HIDE DEF ended
  <2>3. [ended EXCEPT !.lost = yes] \in File /\ [ended EXCEPT !.lost = yes].id = ended.id
        /\ [ended EXCEPT !.lost = yes].lost = yes
    BY ONLY <2>1, <2>2 DEF File, ended
  <2> QED BY ONLY <2>1, <2>2, <2>3 DEF ended
<1> HIDE DEF f, file
<1>6. FileOk(file, srv'.job, exported, Chunks, csvOut)
  BY ONLY <1>5 DEF FileOk
<1> QED BY <1>1, <1>3, <1>4, <1>5, <1>6, FileKeeps DEF f

LEMMA SaveKeepsCsv ==
    ASSUME CsvTyped, CsvInv, NEW i \in DOMAIN files, SaveFile(i)
    PROVE  CsvTyped' /\ CsvInv'
<1> DEFINE f == files[i]
           at == IF f.id = srv.job.id /\ ~srv.job.failed THEN "saved" ELSE "refused"
           file == [f EXCEPT !.at = at]
<1>1. UNCHANGED <<csvToNode, csvToServer, csvReplies, csvOut, exported>> /\ NodeTyped' /\ srv' = srv
  <2>1. UNCHANGED <<tap, log, used, srv, csvToNode, csvToServer, csvReplies, csvOut, exported>>
    BY DEF SaveFile, fileKept, nodeProbes
  <2>2. NodeTyped
    BY DEF CsvTyped
  <2> QED BY ONLY <2>1, <2>2 DEF NodeTyped
<1>2. f \in File /\ SrvOk(srv) /\ files \in Seq(File)
  BY DEF CsvTyped
<1>3. FileOk(f, srv.job, exported, Chunks, csvOut)
  BY DEF CsvInv, FilesOk
<1>4. f.at = "ended" /\ files' = [files EXCEPT ![i] = file]
  <2>1. f.at = "ended" /\ files' = [files EXCEPT ![i].at = at]
    BY DEF SaveFile, CurrentJob
  <2>2. [files EXCEPT ![i].at = at] = [files EXCEPT ![i] = file]
    <3> HIDE DEF at
    <3> QED BY ONLY <1>2, i \in DOMAIN files
  <2> QED BY ONLY <2>1, <2>2
<1>5. file \in File /\ file.id = f.id /\ file.rows = f.rows /\ file.lost = f.lost /\ file.at = at
  <2>1. at \in {"saved", "refused"}
    OBVIOUS
  <2> HIDE DEF at, f
  <2> QED BY ONLY <1>2, <2>1 DEF File
<1>6. FileOk(file, srv.job, exported, Chunks, csvOut)
  <2> HIDE DEF f, file
  <2>1. at = "saved" => f.id = srv.job.id /\ ~srv.job.failed
    OBVIOUS
  <2>2. at # "stream" /\ at # "ended"
    OBVIOUS
  <2> HIDE DEF at
  <2>3. at = "saved" /\ ~f.lost => Accounted(f.rows, f.id, exported, Chunks, csvOut)
    BY ONLY <1>3, <1>4, <2>1, Zenon DEF FileOk
  <2> QED BY ONLY <1>5, <2>2, <2>3 DEF FileOk
<1> HIDE DEF file
<1> QED BY <1>1, <1>2, <1>4, <1>5, <1>6, FileKeeps

LEMMA NextCsv ==
    ASSUME ActionsTyped, HoldInv, CsvTyped, CsvInv, [Next]_vars
    PROVE  CsvTyped' /\ CsvInv'
<1>1. ASSUME NodeTyped' /\ CsvQuiet PROVE CsvTyped' /\ CsvInv'
  BY <1>1, QuietKeeps
<1>2. CASE UNCHANGED vars
  <2>1. UNCHANGED <<tap, log, used, srv, csvToNode, csvToServer, csvReplies, csvOut, exported, files>>
    BY <1>2 DEF vars, probeVars, serverVars, benchVars
  <2>2. NodeTyped /\ SrvOk(srv)
    BY DEF CsvTyped
  <2>3. srv.nextId \in Nat
    BY <2>2 DEF SrvOk
  <2>4. NodeTyped' /\ CsvQuiet
    BY ONLY <2>1, <2>2, <2>3 DEF NodeTyped, CsvQuiet
  <2> QED BY <1>1, <2>4
<1>3. CASE HandleControl \/ EndControl
  BY <1>1, <1>3, ControlIsQuiet
<1>4. CASE Service
  <2>1. ServiceCsv /\ UNCHANGED <<srv, files, csvToServer, log, used>>
    BY <1>4 DEF Service, nodeKept, serverVars
  <2>2. NodeTyped
    BY DEF CsvTyped
  <2>3. now \in Nat /\ tap \in [Probes -> Seq(Sample)]
    BY <2>2 DEF ActionsTyped, NodeTyped
  <2>4. tap' \in [Probes -> Seq(Sample)]
    <3>1. CASE ~running
      BY <1>4, <2>3, <3>1 DEF Service
    <3>2. CASE running
      <4>1. DrivePin(Serviced(now).levels, now)
        BY <1>4, <3>2 DEF Service
      <4>2. Serviced(now) \in State
        BY <2>3, ServicedTurns DEF HoldInv
      <4>3. Serviced(now).levels \in Seq(Levels)
        BY ONLY <4>2 DEF State
      <4> QED BY ONLY <2>3, <4>1, <4>3, DrivePinKeeps
    <3> QED BY <3>1, <3>2
  <2>5. NodeTyped'
    BY ONLY <2>1, <2>2, <2>4 DEF NodeTyped
  <2> QED BY <2>1, <2>5, ServiceKeepsCsv
<1>5. CASE EmitPass \/ QuietPass
  <2>1. \E emits : GuestPass(emits)
    BY <1>5 DEF EmitPass, QuietPass
  <2>2. PICK to \in Steps : \E spills, emits, at :
                                (at = NoTick \/ at \in now..to) /\ Pass(to, at, spills, emits)
    BY ONLY <2>1 DEF GuestPass
  <2>3. PICK spills, emits, at : (at = NoTick \/ at \in now..to) /\ Pass(to, at, spills, emits)
    BY ONLY <2>2
  <2>4. NodeTyped' /\ CsvQuiet
    BY <2>3, PassIsQuiet
  <2> QED BY <1>1, <2>4
<1>6. CASE Arbiter
  <2>1. CASE HostCommand \/ Forward \/ ForwardWatch \/ ForwardQuery
    BY <1>1, <2>1, ArbiterIsQuiet
  <2>2. CASE ForwardChunk
    BY <2>2, ForwardKeepsCsv
  <2> QED BY ONLY <1>6, <2>1, <2>2 DEF Arbiter
<1>7. CASE CsvApart
  BY <1>1, <1>7, ApartIsQuiet
<1>8. CASE CsvDeadline
  BY <1>1, <1>8, DeadlineIsQuiet
<1>9. CASE Poll
  BY <1>9, PollKeepsCsv
<1>10. CASE Download
  BY <1>10, DownloadKeepsCsv
<1>11. ASSUME NEW i \in DOMAIN files, FilePoll(i) \/ FilePollGivenUp(i) \/ SaveFile(i)
       PROVE  CsvTyped' /\ CsvInv'
  BY <1>11, FilePollKeepsCsv, GivenUpKeepsCsv, SaveKeepsCsv
<1>12. Node \/ Arbiter \/ Server \/ Client \/ UNCHANGED vars
  BY DEF Next
<1>13. Node => HandleControl \/ EndControl \/ Service \/ EmitPass \/ QuietPass
  BY DEF Node
<1>14. Server => CsvApart \/ Poll \/ CsvDeadline
  BY DEF Server, CsvApart
<1>15. Client => \/ CsvApart \/ Download
                 \/ \E i \in DOMAIN files : FilePoll(i) \/ FilePollGivenUp(i) \/ SaveFile(i)
  BY DEF Client, CsvApart
<1> QED BY ONLY <1>2, <1>3, <1>4, <1>5, <1>6, <1>7, <1>8, <1>9, <1>10, <1>11, <1>12, <1>13,
                <1>14, <1>15

\* What the two conjuncts about a saved file rest on, from its own.
LEMMA SavedIsAccounted ==
    ASSUME CsvInv, NEW file \in Saved
    PROVE  Accounted(file.rows, file.id, exported, Chunks, csvOut)
<1>1. PICK i \in DOMAIN files : file = files[i] /\ files[i].at = "saved" /\ ~files[i].lost
  BY DEF Saved
<1>2. FileOk(files[i], srv.job, exported, Chunks, csvOut)
  BY DEF CsvInv, FilesOk
<1> QED BY ONLY <1>1, <1>2 DEF FileOk

\* By the time a chunk of an export no longer than a queue could be overwritten all that
\* earlier exports left in the queues has been, so its file is whole.
LEMMA ShortIsWhole ==
    ASSUME CsvTyped, CsvInv, NEW file \in Saved, Len(exported[file.id].recs) <= CsvCap
    PROVE  file.rows = exported[file.id].recs
<1>1. /\ file.id \in DOMAIN exported /\ exported[file.id].overwritten = 0
      /\ Within(file.rows, exported[file.id].recs)
      /\ Len(file.rows) + exported[file.id].overwritten = Len(exported[file.id].recs)
  BY SavedIsAccounted DEF Accounted, Partly, Short
<1>2. file.rows \in Seq(Sample)
  <2>1. file \in File
    BY DEF Saved, CsvTyped
  <2> QED BY ONLY <2>1 DEF File
<1>3. exported[file.id].recs \in Seq(Sample)
  <2>1. exported[file.id] \in CsvRecord
    BY <1>1 DEF CsvTyped, ExportsTyped, LineOk, LineTyped
  <2> QED BY ONLY <2>1 DEF CsvRecord
<1>4. Len(file.rows) = Len(exported[file.id].recs)
  BY ONLY <1>1, <1>2, <1>3
<1> QED BY ONLY <1>1, <1>2, <1>3, <1>4, WithinWhole

\* No step disturbs what the files rest on.
LEMMA NextExports ==
    /\ Init => ActionsTyped /\ HoldInv /\ CsvTyped /\ CsvInv
    /\ ActionsTyped /\ HoldInv /\ CsvTyped /\ CsvInv /\ [Next]_vars
          => ActionsTyped' /\ HoldInv' /\ CsvTyped' /\ CsvInv'
BY InitActions, InitCsv, NextCsv, NextHold

\* Of a file that was saved nothing is missing but what a full queue overwrote: no other
\* chunk is missed, none is taken twice or taken for one of another export, and what a
\* stream that ended has is not cut short, whichever export follows and wherever the
\* deadline falls; and nothing at all if the export is not longer than a queue (service_csv
\* in probe.rs, the CSV queues of probe_ctrl.rs, ingest_csv_replies and csv_event_stream of
\* the server, downloadCsv of the browser).
THEOREM ExportsAreAccounted == Spec => []CsvAccounted
<1>1. ASSUME CsvTyped, CsvInv PROVE CsvAccounted
  <2> SUFFICES ASSUME NEW file \in Saved
               PROVE  /\ file.id \in DOMAIN exported
                      /\ Within(file.rows, exported[file.id].recs)
                      /\ Len(file.rows) + exported[file.id].overwritten
                            = Len(exported[file.id].recs)
                      /\ Len(exported[file.id].recs) <= CsvCap
                            => file.rows = exported[file.id].recs
    BY DEF CsvAccounted
  <2>1. /\ file.id \in DOMAIN exported
        /\ Within(file.rows, exported[file.id].recs)
        /\ Len(file.rows) + exported[file.id].overwritten = Len(exported[file.id].recs)
    BY <1>1, SavedIsAccounted DEF Accounted, Partly
  <2>2. Len(exported[file.id].recs) <= CsvCap => file.rows = exported[file.id].recs
    BY <1>1, ShortIsWhole
  <2> QED BY <2>1, <2>2
<1>2. CsvTyped /\ CsvInv => CsvAccounted
  BY <1>1
<1> QED BY <1>2, NextExports, PTL DEF Spec
=============================================================================
