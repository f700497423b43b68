---------------------------- MODULE SerialArray -----------------------------
(***************************************************************************)
(* Serial array unit 0 in UART mode (peripherals/sau.rs).  A byte written  *)
(* to SDR of an enabled transmit channel waits (BFF), moves to the shift   *)
(* register when that is free, and is driven on the line with the transfer *)
(* end interrupt one frame time later.  A receive channel takes frames     *)
(* from outside and flags overrun, framing and parity errors.              *)
(*                                                                         *)
(* A frame is its data, bit time, parity and `shape`, which stands for     *)
(* data bits, stop bits and inversion.  `line` is a ghost: the last frame  *)
(* a channel drove.                                                        *)
(***************************************************************************)
EXTENDS SocEvents

CONSTANTS SauLine,   \* SAU_IRQ: transfer end line of each channel
          SauErrLine, \* SAU_ERR_IRQ: error line of each channel's UART
          BitCycles, \* clock cycles per bit, by the setting of SPS, SMR and SDR
          FrameBits, \* bit_count of each shape without parity; shape 0 is that after a reset
          Parities,  \* parity settings; 0 is none
          MaxBytes   \* bound: bytes written to SDR

SauChannels == DOMAIN SauLine
Shapes == DOMAIN FrameBits

ASSUME SauAssumption ==
    /\ SauChannels \subseteq Nat
    /\ \A ch \in SauChannels : {SauLine[ch], SauErrLine[ch]} \subseteq Lines
    /\ 0 \in DOMAIN BitCycles /\ 0 \in Shapes /\ 0 \in Parities
    /\ \A n \in DOMAIN BitCycles : BitCycles[n] \in Nat \ {0}
    /\ \A f \in Shapes : FrameBits[f] \in Nat \ {0}
    /\ MaxBytes \in Nat

NoFrame == [data |-> 0, bitTime |-> NoTick, shape |-> 0, parity |-> 0]

Settings == [txe : BOOLEAN, rxe : BOOLEAN, eoc : BOOLEAN,
             shape : Shapes, parity : Parities, baud : DOMAIN BitCycles]

ResetSettings ==
    [txe |-> FALSE, rxe |-> FALSE, eoc |-> FALSE, shape |-> 0, parity |-> 0, baud |-> 0]

SauAt(set, se, soe) ==
    [sdr |-> [ch \in SauChannels |-> 0], set |-> set, se |-> se, soe |-> soe,
     busy |-> {}, bff |-> {}, fef |-> {}, pef |-> {}, ovf |-> {},
     txId |-> [ch \in SauChannels |-> NoEvent],
     shift |-> [ch \in SauChannels |-> NoFrame], line |-> [ch \in SauChannels |-> NoFrame]]

\* The unit u whose channel ch has no transfer under way any more.
Emptied(u, ch) ==
    [u EXCEPT !.txId[ch] = NoEvent, !.busy = @ \ {ch}, !.shift[ch] = NoFrame]

CancelTx(s, ch) == [Cancel(s, s.sau.txId[ch]) EXCEPT !.sau = Emptied(@, ch)]

\* Mutant: a busy shift register is overrun.
CanStartTxBusy(s, ch) ==
    /\ ch \in s.sau.se \cap s.sau.soe \cap s.sau.bff
    /\ s.sau.set[ch].txe

CanStartTx(s, ch) ==
    /\ ch \in (s.sau.se \cap s.sau.soe \cap s.sau.bff) \ s.sau.busy
    /\ s.sau.set[ch].txe

CanRx(s, ch) == ch \in s.sau.se /\ s.sau.set[ch].rxe

BitTime(s, ch) == TicksAt(Hz(s), BitCycles[s.sau.set[ch].baud])

BitCount(set) == FrameBits[set.shape] + (IF set.parity = 0 THEN 0 ELSE 1)

FrameTime(s, ch) ==
    TicksAt(Hz(s), BitCycles[s.sau.set[ch].baud] * BitCount(s.sau.set[ch]))

TxFrame(s, ch) ==
    [data |-> s.sau.sdr[ch], bitTime |-> BitTime(s, ch),
     shape |-> s.sau.set[ch].shape, parity |-> s.sau.set[ch].parity]

\* The unit u whose channel ch sends a frame that event id ends.
Loaded(u, ch, frame, id) ==
    [u EXCEPT !.shift[ch] = frame, !.bff = @ \ {ch}, !.busy = @ \cup {ch}, !.txId[ch] = id]

StartTx(s, ch) ==
    IF ~ CanStartTx(s, ch) \/ FrameTime(s, ch) = NoTick THEN s
    ELSE LET r == Schedule(CancelTx(s, ch), s.now + FrameTime(s, ch), "sau", ch, 0)
         IN  [r EXCEPT !.sau = Loaded(@, ch, TxFrame(s, ch), r.issued)]

\* The unit u with data received on channel ch, and the errors of its frame.
Filled(u, ch, data, overrun, framing, parity) ==
    LET flag(f, on) == IF on THEN f \cup {ch} ELSE f
    IN  [u EXCEPT !.ovf = flag(@, overrun), !.fef = flag(@, framing),
                  !.pef = flag(@, parity), !.sdr[ch] = data, !.bff = @ \cup {ch}]

\* receive: a frame arrives on the channel's input.
Receive(s, ch, frame) ==
    LET set == s.sau.set[ch]
        overrun == ch \in s.sau.bff
        here == IF Hz(s) = Stopped THEN 0 ELSE BitTime(s, ch)
        framing == frame.bitTime # here \/ frame.shape # set.shape
        parity == frame.parity # set.parity
        error == framing \/ parity \/ overrun
        taken == [s EXCEPT !.sau = Filled(@, ch, frame.data, overrun, framing, parity)]
        told == IF error THEN Interrupt(taken, SauErrLine[ch]) ELSE taken
    IN  IF ~ CanRx(s, ch) THEN s
        ELSE IF error /\ set.eoc THEN told ELSE Interrupt(told, SauLine[ch])

\* read_sdr of an enabled channel takes the data; of a stopped one it does not.
ReadSdr(s, ch) == [s EXCEPT !.sau.bff = IF ch \in s.sau.se THEN @ \ {ch} ELSE @]

\* The unit u whose SDR of channel ch is given data; the upper bits of SDR select the
\* baud rate n of a stopped channel.
Given(u, ch, data, n) ==
    IF ch \in u.se THEN [u EXCEPT !.sdr[ch] = data, !.bff = @ \cup {ch}]
    ELSE [u EXCEPT !.sdr[ch] = data, !.set[ch].baud = n]

WriteSdr(s, ch, data, n) == StartTx([s EXCEPT !.sau = Given(@, ch, data, n)], ch)

ClearErrors(s, ch) ==
    [s EXCEPT !.sau.fef = @ \ {ch}, !.sau.pef = @ \ {ch}, !.sau.ovf = @ \ {ch}]

\* The ST trigger.
StopSerial(s, ch) == CancelTx([s EXCEPT !.sau.se = @ \ {ch}], ch)

\* The settings a channel has after a write of SCR or SOL, which leave the bit time
\* alone, or of SMR, which selects the clock and the inversion of what is received.
ChannelSettings(old) ==
    {set \in Settings :
        \/ set.baud = old.baud
        \/ set = [old EXCEPT !.shape = set.shape, !.baud = set.baud]}

\* SPS divides the clock of all channels.
WithBauds(s, bauds) ==
    [s EXCEPT !.sau.set = [ch \in SauChannels |-> [@[ch] EXCEPT !.baud = bauds[ch]]]]

\* Writes to the control window, one register at a time, whatever the channels do.
TriggerWrites(s, ch) ==
    {[s EXCEPT !.sau.se = @ \cup {ch}], StopSerial(s, ch), ClearErrors(s, ch),
     [s EXCEPT !.sau.soe = @ \cup {ch}], [s EXCEPT !.sau.soe = @ \ {ch}]}

SettingWrites(s, ch) ==
    {[s EXCEPT !.sau.set[ch] = set] : set \in ChannelSettings(s.sau.set[ch])}

SauControls(s) ==
    {WithBauds(s, bauds) : bauds \in [SauChannels -> DOMAIN BitCycles]}
        \cup (UNION {TriggerWrites(s, ch) \cup SettingWrites(s, ch) : ch \in SauChannels})

\* The unit u whose channel ch has put its frame, if there is one, on the line.
Freed(u, ch) ==
    [Emptied(u, ch) EXCEPT
        !.line[ch] = IF u.shift[ch] = NoFrame THEN @ ELSE u.shift[ch]]

\* SauTxDone::fire.
TxDone(s, e) ==
    LET ch == e.ch
        freed == [s EXCEPT !.sau = Freed(@, ch)]
    IN  StartTx(Interrupt(freed, SauLine[ch]), ch)

SauReset(s) ==
    [s EXCEPT
        !.pending = {e \in @ : \A ch \in SauChannels : e.id # s.sau.txId[ch]},
        !.sau = [SauAt([ch \in SauChannels |-> ResetSettings], {}, {})
                    EXCEPT !.line = s.sau.line]]
=============================================================================
