-------------------------------- MODULE Soc ---------------------------------
(***************************************************************************)
(* The chip (peripherals/g23.rs): clock, timers, serial unit, converter,   *)
(* ports, interrupt controller and the semihosting window around one CPU    *)
(* and one event queue, in the order Machine::poll gives them.              *)
(*                                                                         *)
(* While a quantum is under way (now < quantumEnd) the guest accesses       *)
(* registers and takes interrupts; all of it sees the time the quantum      *)
(* began.  Between quanta due events fire, and levels and frames arrive     *)
(* from outside.  With the CPU clock stopped time passes and no instruction *)
(* runs.  `guest` is what the firmware uses besides clock and interrupts.   *)
(***************************************************************************)
EXTENDS TimerArray, SerialArray, Converter, PortBlock, FiniteSetsExt, Functions

CONSTANTS Guests,      \* the units a firmware drives: subset of AllGuests
          SerialInits, \* settings of the serial channels after the firmware's start-up
          MaxQuantum, Horizon, \* bounds: quantum, time
          MaxAccesses, \* bound: register accesses, for each guest
          MaxFrames    \* bound: frames and levels from outside

AllGuests == {"timers", "serial", "converter", "ports", "interrupts"}

ASSUME SocAssumption ==
    /\ Guests \subseteq AllGuests /\ MaxQuantum \in Nat \ {0}
    /\ MaxAccesses \in [AllGuests -> Nat] /\ Horizon \in Nat /\ MaxFrames \in Nat
    /\ \A sau \in SerialInits : \E set \in [SauChannels -> Settings],
                                   se, soe \in SUBSET SauChannels : sau = SauAt(set, se, soe)

VARIABLES chip,       \* the state of all units
          quantumEnd, \* where the quantum under way ends; now if none is
          awake,      \* the CPU clock ran when it began
          guest, accesses, frames,
          grid        \* ghost: per timer channel, when its count began and the
                      \* interval it has kept since; NoGrid if that changed

vars == <<chip, quantumEnd, awake, guest, accesses, frames, grid>>

Chip(tau, sau, adc, masked) ==
    [now |-> 0, pending |-> {}, issued |-> 0, clock |-> ResetGenerator(0),
     tau |-> tau, sau |-> sau, adc |-> adc,
     gpio |-> [inputs |-> Pins \ OutputOnly, high |-> {},
               wire |-> [p \in Pins |-> "undriven"]],
     irq |-> [ResetController EXCEPT !.mask = masked]]

NoGrid == [at |-> NoTick, interval |-> NoTick]

\* Reset, and then what start-up code writes before it starts anything.
Init ==
    /\ guest \in Guests
    /\ \E tdr \in (IF guest = "timers" THEN [TauChannels -> Counts]
                   ELSE {[ch \in TauChannels |-> 0]}),
          sau \in (IF guest = "serial" THEN SerialInits
                   ELSE {SauAt([ch \in SauChannels |-> ResetSettings], {}, {})}),
          masked \in (IF guest = "interrupts" THEN {{}, Lines} ELSE {{}}),
          oneshot \in (IF guest = "converter" THEN BOOLEAN ELSE {FALSE}),
          volts \in {v \in [Slots -> Voltages] :
                        \A i \in Slots \ (IF guest = "converter" THEN {1} ELSE {}) :
                            v[i] = CHOOSE low \in Voltages : TRUE} :
          /\ chip = Chip(TauAt(tdr, [ch \in TauChannels |-> 1]), sau,
                         AdcAt(FALSE, oneshot, TRUE, 10, 255, 0, volts), masked)
    /\ quantumEnd = 0 /\ accesses = 0 /\ frames = 0 /\ awake = FALSE
    /\ grid = [ch \in TauChannels |-> NoGrid]

-----------------------------------------------------------------------------
(* Time. *)

InQuantum == quantumEnd > chip.now

Due(e) == e \in chip.pending /\ e.at <= chip.now /\ EarliestOf(chip.pending, e)

NothingDue == \A e \in chip.pending : e.at > chip.now

\* A quantum ends at the next deadline or earlier, at the ceiling or the quantum.
BeginQuantum ==
    /\ ~ InQuantum /\ NothingDue /\ chip.now < Horizon
    /\ quantumEnd' \in chip.now + 1 .. chip.now + MaxQuantum
    /\ \A e \in chip.pending : quantumEnd' <= e.at
    /\ awake' = (Hz(chip) # Stopped)
    /\ UNCHANGED <<chip, guest, accesses, frames, grid>>

EndQuantum ==
    /\ InQuantum
    /\ chip' = [chip EXCEPT !.now = quantumEnd]
    /\ awake' = FALSE
    /\ UNCHANGED <<quantumEnd, guest, accesses, frames, grid>>

-----------------------------------------------------------------------------
(* The next state of the chip, and the ghost that goes with it. *)

Kept(c, ch) ==
    CASE ch \in c.tau.te \ chip.tau.te -> [at |-> c.now, interval |-> Interval(c, ch)]
      [] ch \notin c.tau.te \/ Interval(c, ch) # grid[ch].interval -> NoGrid
      [] OTHER -> grid[ch]

Becomes(c) ==
    /\ chip' = c
    /\ grid' = [ch \in TauChannels |-> Kept(c, ch)]
    /\ UNCHANGED <<quantumEnd, awake, guest>>

Fire(e) ==
    /\ ~ InQuantum /\ Due(e)
    /\ \/ e.unit = "tau" /\ Becomes(TauExpire(Popped(chip, e), e))
       \/ e.unit = "sau" /\ Becomes(TxDone(Popped(chip, e), e))
       \/ e.unit = "adc" /\ Becomes(Complete(Popped(chip, e), e))
       \/ e.unit = "semihosting" /\ Becomes(Popped(chip, e))
    /\ UNCHANGED <<accesses, frames>>

-----------------------------------------------------------------------------
(* The guest: instructions of a quantum that began with a running clock.     *)

Runs == InQuantum /\ awake

Access(c) ==
    /\ Runs /\ accesses < MaxAccesses[guest]
    /\ accesses' = accesses + 1
    /\ Becomes(c)
    /\ UNCHANGED frames

WriteClock == \E g \in ClockWrites(chip.clock) : Access([chip EXCEPT !.clock = g])

WriteIrq ==
    guest = "interrupts" /\ \E field \in Fields \ {{}} : \E bits \in SUBSET field :
        \/ Access([chip EXCEPT !.irq = WithFlags(@, field, bits)])
        \/ Access([chip EXCEPT !.irq = WithMasks(@, field, bits)])
        \/ \E high \in BOOLEAN :
               Access([chip EXCEPT !.irq = WithPriorityBits(@, field, high, bits)])

WriteTau == guest = "timers" /\ \E c \in TauWrites(chip) : Access(c)

WriteAdc == guest = "converter" /\ \E c \in AdcWrites(chip) : Access(c)

WriteGpio ==
    /\ guest = "ports"
    /\ \E g \in GpioWrites(chip.gpio) : Access([chip EXCEPT !.gpio = g])

\* The data of bytes put in SDR are numbered as they come.
Written == Max(Range(chip.sau.sdr)
                   \cup {f.data : f \in Range(chip.sau.line) \cup Range(chip.sau.shift)})

WriteSau ==
    /\ guest = "serial"
    /\ \/ \E c \in SauControls(chip) : Access(c)
       \/ \E ch \in SauChannels : Access(ReadSdr(chip, ch))
       \/ \E ch \in SauChannels, n \in DOMAIN BitCycles :
              /\ Written < MaxBytes
              /\ Access(WriteSdr(chip, ch, Written + 1, n))

\* A trigger write of the semihosting window: the string is printed by an event.
WriteSemihosting ==
    /\ guest = "interrupts"
    /\ Access(Schedule(chip, chip.now, "semihosting", 0, 0))

\* tlib takes the interrupt that is offered (on_tlib_ack).
TakeInterrupt ==
    /\ Runs /\ chip.irq.pending # NoRequest
    /\ Becomes([chip EXCEPT !.irq = Acked(@, @.pending.index)])
    /\ UNCHANGED <<accesses, frames>>

-----------------------------------------------------------------------------
(* The outside: frames, levels and voltages between quanta, and the reset.   *)

Outside(c) ==
    /\ ~ InQuantum /\ frames < MaxFrames
    /\ frames' = frames + 1
    /\ Becomes(c)
    /\ UNCHANGED accesses

ReceiveFrame ==
    /\ guest = "serial" /\ Written < MaxBytes
    /\ \E ch \in SauChannels, shape \in Shapes, parity \in Parities :
       \E bitTime \in {0, BitTime(chip, ch)} :
          Outside(Receive(chip, ch, [data |-> Written + 1, bitTime |-> bitTime,
                                     shape |-> shape, parity |-> parity]))

ChangeLevel ==
    /\ guest = "ports"
    /\ \E p \in Pins, level \in {"high", "low", "hiz"} :
          Outside([chip EXCEPT !.gpio = WithInput(@, p, level)])

ChangeVoltage ==
    /\ guest = "converter"
    /\ \E i \in Slots, v \in Voltages : Outside([chip EXCEPT !.adc.volts[i] = v])

\* R7F100Gxl::reset; the event queue keeps what no unit cancels.
ResetChip ==
    LET reset == TauReset(SauReset([chip EXCEPT !.clock = ResetGenerator(0)]))
        ports == [reset EXCEPT !.gpio = ResetGpio(@)]
    IN  Outside([AdcReset(ports) EXCEPT !.irq = ResetController])

-----------------------------------------------------------------------------
Next ==
    \/ BeginQuantum \/ EndQuantum \/ \E e \in chip.pending : Fire(e)
    \/ WriteClock \/ WriteIrq \/ WriteTau \/ WriteAdc \/ WriteGpio \/ WriteSau
    \/ WriteSemihosting \/ TakeInterrupt
    \/ ReceiveFrame \/ ChangeLevel \/ ChangeVoltage \/ ResetChip

Spec == Init /\ [][Next]_vars

-----------------------------------------------------------------------------
(* Properties. *)

\* The events in the queue and the ids the units keep agree: whatever the order of
\* starts, stops, resets and expiries, no unit has two events, none fires for a unit
\* that was stopped, and a unit that waits for an event has it (stop_channel,
\* cancel_tx, cancel_pending against the fire methods).
ArmedOnce ==
    /\ \A e \in chip.pending :
          CASE e.unit = "tau" -> /\ chip.tau.expire[e.ch] = e.id /\ e.ch \in chip.tau.te
                                 /\ chip.tau.generation[e.ch] = e.generation
            [] e.unit = "sau" -> chip.sau.txId[e.ch] = e.id /\ chip.sau.shift[e.ch] # NoFrame
            [] e.unit = "adc" -> /\ chip.adc.expire = e.id /\ chip.adc.running
                                 /\ chip.adc.generation = e.generation
            [] OTHER -> TRUE
    /\ \A ch \in TauChannels : chip.tau.expire[ch] # NoEvent => Live(chip, chip.tau.expire[ch])
    /\ \A ch \in chip.sau.busy : Live(chip, chip.sau.txId[ch])
    /\ chip.adc.expire # NoEvent => Live(chip, chip.adc.expire)

\* A timer that keeps its interval ticks on the grid of its start, however late the
\* events are handled: no drift builds up (TauExpire::fire).
TicksOnGrid ==
    \A ch \in TauChannels, e \in chip.pending :
        e.unit = "tau" /\ e.ch = ch /\ grid[ch] # NoGrid
            => (e.at - grid[ch].at) % grid[ch].interval = 0

\* The request offered to the CPU is always the unmasked one of highest priority,
\* through writes of single bytes, acknowledges and pulses in any order.
HighestOffered ==
    LET c == chip.irq
    IN  /\ c.pending = NoRequest <=> Unmasked(c) = {}
        /\ c.pending # NoRequest =>
              /\ c.pending.index \in Unmasked(c)
              /\ c.pending.priority = c.priority[c.pending.index]
              /\ \A l \in Unmasked(c) \ {c.pending.index} :
                     \/ c.pending.priority < c.priority[l]
                     \/ c.pending.priority = c.priority[l] /\ c.pending.index < l

\* An interrupt request is withdrawn only when it is taken, when the guest writes its
\* own IF byte, or by a reset: nothing else loses one.
RequestsKept ==
    [][\A l \in chip.irq.flag \ chip'.irq.flag :
          \/ accesses' = accesses /\ l = chip.irq.pending.index
          \/ accesses' # accesses /\ \E f \in Fields : chip.irq.flag \ chip'.irq.flag \subseteq f
          \/ frames' # frames]_vars

\* A frame that has moved to the shift register goes out on the line as it was loaded,
\* whatever data and settings the guest writes meanwhile, unless the channel is stopped
\* or the chip is reset (start_tx against write_sdr, write_ctrl and SauTxDone::fire).
ShiftedGoesOut ==
    [][\A ch \in SauChannels :
          chip.sau.shift[ch] \notin {NoFrame, chip'.sau.shift[ch]}
              => ch \notin chip'.sau.se \/ chip'.sau.line[ch] = chip.sau.shift[ch]]_vars

=============================================================================
