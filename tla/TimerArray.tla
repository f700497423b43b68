----------------------------- MODULE TimerArray -----------------------------
(***************************************************************************)
(* Timer array unit 0 (peripherals/tau.rs): a channel that is started      *)
(* schedules its expiry one interval ahead; every expiry raises the        *)
(* channel's interrupt and schedules the next.  Mode, output and input     *)
(* select registers have no effect and are left out.                       *)
(***************************************************************************)
EXTENDS SocEvents

CONSTANTS TauLine,  \* TAU_IRQ: the request line of each channel
          Counts,   \* values of TDR that occur
          Divisors  \* dividers of the operation clocks CK0..CK3 that occur

TauChannels == DOMAIN TauLine

ASSUME TauAssumption ==
    /\ TauChannels \subseteq Nat /\ \A ch \in TauChannels : TauLine[ch] \in Lines
    /\ Counts \subseteq Nat /\ Divisors \subseteq Nat \ {0}

\* The registers the guest has set before it starts anything.
TauAt(tdr, div) ==
    [tdr |-> tdr, tcr |-> [ch \in TauChannels |-> 65535],
     div |-> div, tsr |-> {}, te |-> {},
     expire |-> [ch \in TauChannels |-> NoEvent],
     generation |-> [ch \in TauChannels |-> 0]]

\* interval: TDR + 1 counts of the channel's divided clock.
Interval(s, ch) == TicksAt(Hz(s), (s.tau.tdr[ch] + 1) * s.tau.div[ch])

TauExpireAt(s, ch, at) ==
    LET r == Schedule(s, at, "tau", ch, s.tau.generation[ch])
    IN  [r EXCEPT !.tau.expire[ch] = r.issued]

StartChannel(s, ch) ==
    IF s.tau.expire[ch] # NoEvent \/ Interval(s, ch) = NoTick THEN s
    ELSE TauExpireAt([s EXCEPT !.tau.te = @ \cup {ch}], ch, s.now + Interval(s, ch))

\* The unit u whose channel ch counts no more.
Halted(u, ch) ==
    [u EXCEPT !.te = @ \ {ch}, !.expire[ch] = NoEvent, !.generation[ch] = NextGeneration(@)]

\* Mutant: the expiry is forgotten but not cancelled.
StopChannelUncancelled(s, ch) == [s EXCEPT !.tau = Halted(@, ch)]

StopChannel(s, ch) == [Cancel(s, s.tau.expire[ch]) EXCEPT !.tau = Halted(@, ch)]

\* What the guest can write: TDR, the clock select, and the start and stop
\* triggers (one channel at a time; two in one word are two of these).
TauWrites(s) ==
    UNION {{[s EXCEPT !.tau.tdr[ch] = n] : n \in Counts}
           \cup {[s EXCEPT !.tau.div[ch] = d] : d \in Divisors}
           \cup {StartChannel(s, ch), StopChannel(s, ch)} : ch \in TauChannels}

\* Mutant: the next interval counts from when the event is handled.
ExpireNextLate(s, e) == s.now + Interval(s, e.ch)

ExpireNext(s, e) == FirstAfter(s.now, e.at, Interval(s, e.ch))

\* The unit u whose channel ch has counted down and reloaded.
Ticked(u, ch) == [u EXCEPT !.tsr = @ \cup {ch}, !.tcr[ch] = u.tdr[ch]]

\* TauExpire::fire.
TauExpire(s, e) ==
    LET ch == e.ch
        stale == s.tau.generation[ch] # e.generation \/ ch \notin s.tau.te
        forgotten == [s EXCEPT !.tau.expire[ch] = NoEvent]
        ticked == Interrupt([s EXCEPT !.tau = Ticked(@, ch)], TauLine[ch])
    IN  IF stale THEN forgotten
        ELSE IF Interval(s, ch) = NoTick THEN [ticked EXCEPT !.tau.expire[ch] = NoEvent]
        ELSE TauExpireAt(ticked, ch, ExpireNext(s, e))

TauReset(s) ==
    [s EXCEPT
        !.pending = {e \in @ : \A ch \in TauChannels : e.id # s.tau.expire[ch]},
        !.tau = [TauAt([ch \in TauChannels |-> 0], [ch \in TauChannels |-> 1])
                    EXCEPT !.generation =
                        [ch \in TauChannels |-> NextGeneration(s.tau.generation[ch])]]]
=============================================================================
