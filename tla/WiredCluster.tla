--------------------------- MODULE WiredCluster ---------------------------
(***************************************************************************)
(* A cluster with its data planes (sim-cluster/src/data_plane.rs): the     *)
(* topology edges that carry what a board's out-ports are driven with to   *)
(* the in-ports of another board.  A UART edge and an analog edge behave   *)
(* alike; what is sent is a frame with a number.                           *)
(*                                                                         *)
(* A node makes passes: it reads its control messages, receives from its   *)
(* edges, polls its guest and reports its time, and only then sends what   *)
(* the guest drove.  `phase` is where it is in the pass.                   *)
(***************************************************************************)
EXTENDS Cluster, SequencesExt

CONSTANTS Edges,    \* <<from, to>>
          RingLens, \* numbers of frames that edges may hold: uart_ring_len, at least 2
          RxBatch,  \* frames a lane receives in a pass (64)
          MaxFrames, \* bound: frames a board sends
          MaxEvents \* bound: host commands, faults, guest stops and refusals together

ASSUME EdgesAssumption ==
    /\ Edges \subseteq {e \in Boards \X Boards : e[1] # e[2]}
    /\ RingLens \subseteq Nat \ {0} /\ RxBatch \in Nat \ {0} /\ MaxFrames \in Nat
    /\ MaxEvents \in Nat

VARIABLES ringLen, \* edge -> frames it holds, by the topology
          phase,   \* board -> "drain", "poll" or "send"
          pending, \* board -> OutPort frames the data plane has not taken yet
          ring,    \* edge -> frames its subscriber has not received yet
          got,     \* edge -> ghost: numbers of the frames driven into the in-port
          lost,    \* edge -> ghost: frames overwritten, discarded or refused
          sent,    \* board -> frames its guest has driven
          stops    \* guest stops and refused frames so far

wireVars == <<ringLen, phase, pending, ring, got, lost, sent, stops>>
wiredVars == <<vars, wireVars>>

\* `end`: the time at which the poll that drove it ended; what a Reset or a GDB step
\* drove leaves with what the next poll drives.  A GDB step receives nothing: what is
\* on an edge into the stepped board waits at least until it has ended.
Frame == [number : Nat, end : Nat \cup {NoLimit}]

WireInit ==
    /\ ringLen \in [Edges -> RingLens]
    /\ phase = [b \in Boards |-> "drain"] /\ pending = [b \in Boards |-> <<>>]
    /\ ring = [e \in Edges |-> <<>>] /\ got = [e \in Edges |-> <<>>]
    /\ lost = [e \in Edges |-> {}] /\ sent = [b \in Boards |-> 0]
    /\ stops = 0

EdgesInto(b) == {e \in Edges : e[2] = b}
EdgesOutOf(b) == {e \in Edges : e[1] = b}
NumbersOf(frames) == [i \in DOMAIN frames |-> frames[i].number]
Numbers(frames) == ToSet(NumbersOf(frames))
GoTo(b, place) == phase' = [phase EXCEPT ![b] = place]

-----------------------------------------------------------------------------
(* The pumps.                                                               *)

\* OutPort::on_input: the guest drives at most one frame up to `end`, and every drive
\* is queued, whatever the value was before.
Drive(b, end) ==
    LET ended == [i \in DOMAIN pending[b] |->
                    [pending[b][i] EXCEPT !.end = IF @ = NoLimit THEN end ELSE @]]
    IN  \/ pending' = [pending EXCEPT ![b] = ended] /\ UNCHANGED sent
        \/ /\ sent[b] < MaxFrames /\ EdgesOutOf(b) # {}
           /\ sent' = [sent EXCEPT ![b] = @ + 1]
           /\ pending' = [pending EXCEPT ![b] =
                             Append(ended, [number |-> sent[b] + 1, end |-> end])]

\* What edge e drives into its in-port.
DriveIn(e, frames) == got[e] \o NumbersOf(frames)

\* An edge that is full drops its oldest frame.
OntoEdge(e, frame) == KeepLast(Append(ring[e], frame), ringLen[e])

\* pump_rx: at most RxBatch frames of every edge into b, in order.
Taken(b, e) ==
    IF e \notin EdgesInto(b) THEN 0 ELSE IF Len(ring[e]) < RxBatch THEN Len(ring[e]) ELSE RxBatch

PumpRx(b) ==
    /\ got' = [e \in Edges |-> DriveIn(e, SubSeq(ring[e], 1, Taken(b, e)))]
    /\ ring' = [e \in Edges |-> SubSeq(ring[e], Taken(b, e) + 1, Len(ring[e]))]

\* Mutant: a frame that is refused is tried again after the later ones.
PumpTxAgain(b, refused) ==
    LET frame == Head(pending[b])
    IN  /\ ring' = [e \in Edges |-> IF e \in EdgesOutOf(b) \ refused THEN OntoEdge(e, frame)
                                    ELSE ring[e]]
        /\ lost' = [e \in Edges |-> IF e \notin EdgesOutOf(b) \ refused THEN lost[e]
                                    ELSE lost[e] \cup (Numbers(ring[e]) \ Numbers(ring'[e]))]
        /\ pending' = [pending EXCEPT ![b] =
                          IF refused = {} THEN Tail(@) ELSE Append(Tail(@), frame)]

\* Mutant: the last frame waits for the next one.
PumpTxButLast(b, refused) ==
    IF Len(pending[b]) = 1 THEN UNCHANGED <<ring, lost, pending>>
    ELSE /\ ring' = [e \in Edges |-> IF e \notin EdgesOutOf(b) THEN ring[e]
                                     ELSE OntoEdge(e, Head(pending[b]))]
         /\ pending' = [pending EXCEPT ![b] = Tail(@)]
         /\ UNCHANGED lost

\* pump_tx, one frame: to every edge from b that does not refuse it.  A frame that is
\* refused is dropped, and the later ones go on.
PumpTx(b, refused) ==
    LET frame == Head(pending[b])
    IN  /\ ring' = [e \in Edges |-> IF e \in EdgesOutOf(b) \ refused THEN OntoEdge(e, frame)
                                    ELSE ring[e]]
        /\ lost' = [e \in Edges |-> IF e \notin EdgesOutOf(b) THEN lost[e]
                        ELSE lost[e] \cup ((Numbers(ring[e]) \cup {frame.number})
                                              \ Numbers(ring'[e]))]
        /\ pending' = [pending EXCEPT ![b] = Tail(@)]

\* discard_rx: everything on the edges into b.
DiscardRx(b) ==
    /\ ring' = [e \in Edges |-> IF e \in EdgesInto(b) THEN <<>> ELSE ring[e]]
    /\ lost' = [e \in Edges |-> IF e \in EdgesInto(b) THEN lost[e] \cup Numbers(ring[e]) ELSE lost[e]]

\* What is on the edges into b is not received before `time`.
WaitFor(b, time) ==
    /\ ring' = [e \in Edges |->
                   [i \in DOMAIN ring[e] |->
                       IF e \in EdgesInto(b) /\ ring[e][i].end < time
                       THEN [ring[e][i] EXCEPT !.end = time] ELSE ring[e][i]]]
    /\ UNCHANGED lost

-----------------------------------------------------------------------------
(* A node's pass.                                                           *)

\* A control message; a Reset restarts the devices, which may drive their outputs,
\* and discards what has not been received.  What is pending stays.
WiredReceive(b) ==
    /\ phase[b] = "drain" /\ ReceiveMessage(b)
    /\ UNCHANGED <<ringLen, phase, got, stops, arbiterVars>>
    /\ IF Head(a2n[b]).type = "Reset" /\ nodeState[b] = "Stopped"
       THEN DiscardRx(b) /\ Drive(b, NoLimit)
       ELSE IF TakesGdbStep(b) THEN WaitFor(b, now'[b]) /\ Drive(b, NoLimit)
       ELSE UNCHANGED <<ring, lost, pending, sent>>

\* Mutant: a node at its ceiling does not look at its edges.
WiredPumpRxBelowCeiling(b) ==
    /\ phase[b] = "drain" /\ alive[b] /\ a2n[b] = <<>> /\ nodeState[b] = "Running"
    /\ CanPoll(b) /\ PumpRx(b) /\ GoTo(b, "poll")
    /\ UNCHANGED <<vars, ringLen, pending, lost, sent, stops>>

\* No message is left: a running node receives, and polls if its guest may run.
WiredPumpRx(b) ==
    /\ phase[b] = "drain" /\ alive[b] /\ a2n[b] = <<>> /\ nodeState[b] = "Running"
    /\ PumpRx(b) /\ GoTo(b, IF CanPoll(b) THEN "poll" ELSE "drain")
    /\ UNCHANGED <<vars, ringLen, pending, lost, sent, stops>>

\* sim.poll and maybe_time_report.  With nothing pending the rest of the pass does nothing.
WiredPoll(b) ==
    /\ phase[b] = "poll"
    /\ \/ (Poll(b) \/ PollError(b)) /\ UNCHANGED stops
       \/ PollStop(b) /\ stops' = stops + 1
    /\ Drive(b, now'[b])
    /\ GoTo(b, IF pending'[b] = <<>> THEN "drain" ELSE "send")
    /\ UNCHANGED <<arbiterVars, ringLen, ring, got, lost>>

\* The rest of the pass, frame by frame: a breakpoint or an error does not skip it.
WiredPumpTx(b) ==
    /\ phase[b] = "send" /\ alive[b]
    /\ \E refused \in SUBSET EdgesOutOf(b) :
          PumpTx(b, refused) /\ stops' = IF refused = {} THEN stops ELSE stops + 1
    /\ GoTo(b, IF Len(pending[b]) = 1 THEN "drain" ELSE "send")
    /\ UNCHANGED <<vars, ringLen, got, sent>>

WiredDie(b) == Die(b) /\ UNCHANGED <<arbiterVars, wireVars>>

WiredArbiter == (ArbiterStep \/ ReadyTimeout \/ HostShutdown) /\ UNCHANGED wireVars

\* One turn of run_node's loop is several of these.
WiredPass(b) == WiredReceive(b) \/ WiredPumpRx(b) \/ WiredPoll(b) \/ WiredPumpTx(b)
WiredNode(b) == WiredPass(b) \/ WiredDie(b)

WiredInit == Init /\ WireInit

WiredNext ==
    /\ WiredArbiter \/ \E b \in Boards : WiredNode(b)
    /\ commands' + faults' + stops' <= MaxEvents

WiredSpec == WiredInit /\ [][WiredNext]_wiredVars

\* run_node's loop turns as long as its process lives; that of the receivers is enough.
WiredFairSpec ==
    /\ WiredSpec
    /\ \A e \in Edges : WF_wiredVars(WiredPass(e[2]))

-----------------------------------------------------------------------------
(* Properties.                                                              *)

\* The edges that hold no more than a pass receives: another may keep the rest of a burst.
ShortEdges == {e \in Edges : ringLen[e] <= RxBatch}

\* The promise of the virtual-time ceiling to a guest that talks to another board: it
\* receives a frame no more than a margin before it was driven, and no more than a
\* margin after the poll that drove it had ended, although the time report leaves
\* before the frame.  Resets and GDB steps add their slack.
FrameOnTime ==
    [][ \A e \in ShortEdges : \A i \in 1..(Len(got'[e]) - Len(got[e])) :
           LET slack == Margin + resetSlack + stepSlack
           IN  /\ ring[e][i].end <= now[e[2]] + slack
               /\ now[e[2]] <= ring[e][i].end + slack ]_wiredVars

Rising(numbers) == \A i, j \in DOMAIN numbers : i < j => numbers[i] < numbers[j]

\* Every edge keeps the order of its characters: what was received, what is on the edge
\* and what is pending are, in this order, the frames that were driven, without those
\* that were lost; no frame is received twice.
FramesInOrder ==
    \A e \in Edges :
        LET line == got[e] \o NumbersOf(ring[e]) \o NumbersOf(pending[e[1]])
        IN  Rising(line) /\ ToSet(line) = 1..sent[e[1]] \ lost[e]

Passing(b) == alive[b] /\ nodeState[b] = "Running"

\* What is on an edge, however much, is received as long as the receiver runs, even if
\* that waits at its ceiling for a board that never advances.
FramesDelivered == \A e \in Edges : ring[e] # <<>> ~> (ring[e] = <<>> \/ ~Passing(e[2]))
-----------------------------------------------------------------------------
(* The inductive invariant behind FrameOnTime.                              *)

Slack == Margin + resetSlack + stepSlack

WireTypeOK ==
    /\ phase \in [Boards -> {"drain", "poll", "send"}]
    /\ pending \in [Boards -> Seq(Frame)] /\ sent \in [Boards -> Nat]
    /\ ring \in [Edges -> Seq(Frame)] /\ got \in [Edges -> Seq(Nat)]
    /\ ringLen \in [Edges -> RingLens]

\* What is pending is sent in the pass that follows, before the clock moves again.
PendingEnds ==
    \A b \in Boards :
        /\ phase[b] = "send" => pending[b] # <<>>
        /\ \A i \in DOMAIN pending[b] :
              pending[b][i].end = IF phase[b] = "send" THEN now[b] ELSE NoLimit

\* Frames that are neither too early nor too late for edge e, and will not be when the
\* poll has ended that its receiver is about to make without them.
OnTime(e) ==
    {f \in Frame : /\ f.end # NoLimit
                   /\ f.end <= now[e[2]] + Slack /\ now[e[2]] <= f.end + Slack
                   /\ phase[e[2]] = "poll" => ceiling[e[2]] <= f.end + Slack}

RingEnds ==
    \A e \in ShortEdges : ring[e] \in Seq(OnTime(e)) /\ Len(ring[e]) <= ringLen[e]

WireInv == WireTypeOK /\ PendingEnds /\ RingEnds

-----------------------------------------------------------------------------
(* The inductive invariant behind FramesInOrder: what is received, on the   *)
(* edge and pending each rises, and the one comes before the other.        *)

Before(first, second) == \A i \in DOMAIN first, j \in DOMAIN second : first[i] < second[j]

InOrder(received, onEdge, waiting, driven, gone) ==
    /\ Rising(received) /\ Rising(onEdge) /\ Rising(waiting)
    /\ Before(received, onEdge) /\ Before(received, waiting) /\ Before(onEdge, waiting)
    /\ ToSet(received) \cup ToSet(onEdge) \cup ToSet(waiting) = 1..driven \ gone
    /\ gone \subseteq 1..driven

OrderInv ==
    /\ WireTypeOK
    /\ \A b \in Boards : phase[b] = "send" => pending[b] # <<>>
    /\ \A e \in Edges : InOrder(got[e], NumbersOf(ring[e]), NumbersOf(pending[e[1]]),
                                sent[e[1]], lost[e])
=============================================================================
