---------------------------- MODULE NodeActions ----------------------------
(***************************************************************************)
(* Board actions: an invocation travels from the server over the arbiter   *)
(* to the node (ipc/action_bus.rs), whose loop applies it to a device      *)
(* (service_actions in board_runtime.rs).  The device is the kernel's      *)
(* HoldSwitch (switch.rs), which drives a pin high for a time.             *)
(***************************************************************************)
EXTENDS Integers, Sequences, FiniteSets, SequencesExt

CONSTANT RecvCap \* ACTION_RECV_CAP: requests a subscriber holds

ASSUME RecvAssumption == RecvCap \in Nat \ {0}

VARIABLES invokes, \* requests on their way to the arbiter
          inbox,   \* requests the node has not received
          waiting, \* pending_actions
          switch,  \* the HoldSwitch: its deadline and its pin
          applied, \* ghost: the requests applied, with their results
          gone,    \* ghost: ids of requests overwritten or cleared
          lastId   \* of the last request

actionVars == <<invokes, inbox, waiting, switch, applied, gone, lastId>>

NoTick == -1
Released == [deadline |-> NoTick, pin |-> "Low"]

ActionInit ==
    /\ invokes = <<>> /\ inbox = <<>> /\ waiting = <<>> /\ switch = Released
    /\ applied = <<>> /\ gone = {} /\ lastId = 0

Ids(requests) == {requests[i].id : i \in DOMAIN requests}
Newest(s) == SubSeq(s, IF Len(s) > RecvCap THEN Len(s) - RecvCap + 1 ELSE 1, Len(s))

-----------------------------------------------------------------------------
(* HoldSwitch.                                                              *)

PollHold(sw, now) == IF sw.deadline # NoTick /\ now >= sw.deadline THEN Released ELSE sw

\* The result of an action; a hold must last, and one at a time.
Result(sw, ms, now) ==
    CASE sw.deadline # NoTick /\ now < sw.deadline -> "Busy"
      [] ms < 1 -> "BadParam"
      [] OTHER -> "Applied"

\* One request: the switch, the levels its pin was driven to and the results.
ApplyAction(state, request, now) ==
    LET result == Result(state.switch, request.ms, now)
        done == Append(state.applied, [id |-> request.id, result |-> result])
    IN  IF result = "Applied"
        THEN [switch |-> [deadline |-> now + request.ms, pin |-> "High"],
              levels |-> Append(state.levels, "High"), applied |-> done]
        ELSE [state EXCEPT !.applied = done]

-----------------------------------------------------------------------------
(* The way of a request.                                                    *)

\* queue_invoke: published and forgotten.
QueueInvoke(ms) ==
    LET all == Append(invokes, [id |-> lastId + 1, ms |-> ms])
    IN  /\ lastId' = lastId + 1 /\ invokes' = Newest(all)
        /\ gone' = gone \cup (Ids(all) \ Ids(invokes'))
        /\ UNCHANGED <<inbox, waiting, switch, applied>>

\* forward_invokes; the results that come back are read by nobody.
ForwardInvokes ==
    /\ invokes # <<>> /\ invokes' = <<>> /\ inbox' = Newest(inbox \o invokes)
    /\ gone' = gone \cup (Ids(inbox \o invokes) \ Ids(inbox'))
    /\ UNCHANGED <<waiting, switch, applied, lastId>>

\* The requests are applied one after another.
AppliedInTurn(start, requests, now) ==
    LET state[n \in 0..Len(requests)] ==
            IF n = 0 THEN start ELSE ApplyAction(state[n - 1], requests[n], now)
    IN  state[Len(requests)]

\* What a running node does with its requests at time now.
Serviced(now) ==
    LET polled == PollHold(switch, now)
    IN  AppliedInTurn([switch |-> polled, applied |-> applied,
                       levels |-> IF polled = switch THEN <<>> ELSE <<"Low">>],
                      waiting \o inbox, now)

\* Mutant: the switch is looked at when there is a request.
ServiceActionsIfAny(now, isRunning) ==
    /\ inbox' = <<>> /\ UNCHANGED <<invokes, gone, lastId>>
    /\ IF isRunning /\ waiting \o inbox # <<>>
       THEN /\ waiting' = <<>> /\ switch' = Serviced(now).switch
            /\ applied' = Serviced(now).applied
       ELSE waiting' = waiting \o inbox /\ UNCHANGED <<switch, applied>>

\* service_actions: a stopped node queues; a running node polls its devices and then
\* applies what it has, oldest first.
ServiceActions(now, isRunning) ==
    /\ inbox' = <<>> /\ UNCHANGED <<invokes, gone, lastId>>
    /\ IF isRunning
       THEN /\ waiting' = <<>> /\ switch' = Serviced(now).switch
            /\ applied' = Serviced(now).applied
       ELSE waiting' = waiting \o inbox /\ UNCHANGED <<switch, applied>>

\* Mutant: the requests that wait are applied after the reset.
ResetDevicesOnly ==
    /\ switch' = Released /\ gone' = gone \cup Ids(waiting)
    /\ UNCHANGED <<invokes, inbox, waiting, applied, lastId>>

\* A Reset drops the requests the node holds, not those on their way, and drives the pin.
ResetActions ==
    /\ waiting' = <<>> /\ gone' = gone \cup Ids(waiting) /\ switch' = Released
    /\ UNCHANGED <<invokes, inbox, applied, lastId>>
=============================================================================
