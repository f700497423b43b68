------------------------------ MODULE SocProofs ------------------------------
(***************************************************************************)
(* The chip, for every set of request lines, channels, clocks, frames and  *)
(* voltages: the request offered to the CPU is the one of highest          *)
(* priority, events and units agree, timers tick on their grid, and no     *)
(* request and no byte in a shift register is lost.                        *)
(***************************************************************************)
EXTENDS Soc, WellFoundedInduction, TLAPS

\* A nonempty set of naturals has a least element: the next due event, the best
\* request.
LEMMA NatHasMin ==
    ASSUME NEW S \in SUBSET Nat, S # {}
    PROVE  \E x \in S : \A y \in S : x <= y
<1>1. IsWellFoundedOn(OpToRel(<, Nat), Nat)
  BY NatLessThanWellFounded
<1>2. PICK x \in S : \A y \in S : ~ (<<y, x>> \in OpToRel(<, Nat))
  BY <1>1, WFMin
<1>3. \A y \in S : ~ (y < x)
  BY <1>2 DEF OpToRel
<1> QED BY <1>3

-----------------------------------------------------------------------------
(* What the units keep. *)

Generator ==
    [hiostop : BOOLEAN, mioen : BOOLEAN, selLow : BOOLEAN,
     mcm1 : BOOLEAN, mcm0 : BOOLEAN, css : BOOLEAN,
     hocodiv : DOMAIN HighHz, mocodiv : DOMAIN MidHz, cmc : {0, 1}, cmcDirty : BOOLEAN]

Controller ==
    [flag : SUBSET Lines, mask : SUBSET Lines, priority : [Lines -> 0..3],
     pending : [index : Lines \cup {99}, priority : 0..3]]

Generation == 0 .. Generations - 1

Event ==
    [at : Nat, id : Nat, unit : {"tau", "sau", "adc", "semihosting"}, ch : Nat,
     generation : Generation]

TauUnit ==
    [tdr : [TauChannels -> Nat], tcr : [TauChannels -> Nat],
     div : [TauChannels -> Nat \ {0}], tsr : SUBSET TauChannels, te : SUBSET TauChannels,
     expire : [TauChannels -> Nat], generation : [TauChannels -> Generation]]

Data == 0..MaxBytes

Frame == [data : Data, bitTime : Nat \cup {NoTick}, shape : Shapes, parity : Parities]

SauUnit ==
    [sdr : [SauChannels -> Data], set : [SauChannels -> Settings],
     se : SUBSET SauChannels, soe : SUBSET SauChannels, busy : SUBSET SauChannels,
     bff : SUBSET SauChannels, fef : SUBSET SauChannels, pef : SUBSET SauChannels,
     ovf : SUBSET SauChannels, txId : [SauChannels -> Nat],
     shift : [SauChannels -> Frame], line : [SauChannels -> Frame]]

AdcUnit ==
    [running : BOOLEAN, comparator : BOOLEAN, scan : BOOLEAN, clock : DOMAIN AdcClocks,
     slow : BOOLEAN, oneshot : BOOLEAN, inRange : BOOLEAN, resolution : Resolutions,
     adul : 0..255, adll : 0..255, adcr : Int, slots : [Slots -> Int],
     index : Slots, hit : BOOLEAN, source : Sources, volts : [Slots -> Voltages],
     expire : Nat, generation : Generation]

Ports ==
    [inputs : SUBSET Pins, high : SUBSET Pins,
     wire : [Pins -> {"undriven", "high", "low"}]]

Chips ==
    [now : Nat, pending : SUBSET Event, issued : Nat, clock : Generator,
     tau : TauUnit, sau : SauUnit, adc : AdcUnit, gpio : Ports, irq : Controller]

\* Numbers identify events.
Numbered(c) ==
    /\ \A e \in c.pending : e.id \in 1..c.issued
    /\ \A e, f \in c.pending : e.id = f.id => e = f

EventsOf(c, unit) == {e \in c.pending : e.unit = unit}

\* A running timer channel and its event know each other, and likewise the
\* serial channels and the converter.
TauArmed(c) ==
    /\ \A e \in EventsOf(c, "tau") :
          /\ e.ch \in c.tau.te /\ c.tau.expire[e.ch] = e.id
          /\ c.tau.generation[e.ch] = e.generation
    /\ \A ch \in TauChannels : c.tau.expire[ch] # NoEvent =>
          \E e \in EventsOf(c, "tau") : e.id = c.tau.expire[ch] /\ e.ch = ch

SauArmed(c) ==
    /\ \A e \in EventsOf(c, "sau") : e.ch \in c.sau.busy /\ c.sau.txId[e.ch] = e.id
    /\ \A ch \in c.sau.busy :
          /\ c.sau.shift[ch] # NoFrame
          /\ \E e \in EventsOf(c, "sau") : e.id = c.sau.txId[ch] /\ e.ch = ch
    /\ \A ch \in SauChannels \ c.sau.busy :
          c.sau.txId[ch] = NoEvent /\ c.sau.shift[ch] = NoFrame

AdcArmed(c) ==
    /\ \A e \in EventsOf(c, "adc") :
          c.adc.expire = e.id /\ c.adc.running /\ c.adc.generation = e.generation
    /\ c.adc.expire # NoEvent => \E e \in EventsOf(c, "adc") : e.id = c.adc.expire

Armed(c) == Numbered(c) /\ TauArmed(c) /\ SauArmed(c) /\ AdcArmed(c)

Offered(c) == c.irq.pending = Request(c.irq)

\* A timer that is on its grid counts, keeps its interval, and its event is a whole
\* number of intervals after the start.
OnGrid(c, g) ==
    \A ch \in TauChannels : g[ch] # NoGrid =>
        /\ g[ch].at \in 0..c.now /\ g[ch].interval \in Nat \ {0}
        /\ g[ch].interval = Interval(c, ch)
        /\ ch \in c.tau.te /\ c.tau.expire[ch] # NoEvent
        /\ \A e \in EventsOf(c, "tau") : e.ch = ch =>
              \E k \in Nat : e.at = g[ch].at + k * g[ch].interval

SocInv ==
    /\ chip \in Chips /\ quantumEnd \in Nat /\ accesses \in Nat /\ frames \in Nat
    /\ grid \in [TauChannels -> [at : Nat \cup {NoTick}, interval : Nat \cup {NoTick}]]
    /\ Offered(chip) /\ Armed(chip) /\ OnGrid(chip, grid)

-----------------------------------------------------------------------------
(* The interrupt controller. *)

\* Of some lines one outranks all others: priority first, then the vector.
LEMMA FirstExists ==
    ASSUME NEW c \in Controller, NEW S \in SUBSET Lines, S # {}
    PROVE  \E l \in S : \A m \in S \ {l} : Outranks(c, l, m)
<1> DEFINE key(l) == 64 * c.priority[l] + l
           keys == {key(l) : l \in S}
<1>1. \A l \in S : l \in 0..58 /\ c.priority[l] \in 0..3
  BY LinesAssumption DEF Controller
<1>2. keys \in SUBSET Nat /\ keys # {}
  BY <1>1
<1>3. PICK k \in keys : \A j \in keys : k <= j
  <2> HIDE DEF keys
  <2> QED BY <1>2, NatHasMin
<1>4. PICK l \in S : k = key(l)
  OBVIOUS
<1>5. ASSUME NEW m \in S \ {l} PROVE Outranks(c, l, m)
  <2>1. key(l) <= key(m)
    BY <1>3, <1>4
  <2>2. \A p, q \in 0..3, a, b \in 0..58 :
           64 * p + a <= 64 * q + b => p < q \/ (p = q /\ a <= b)
    OBVIOUS
  <2>3. \/ c.priority[l] < c.priority[m]
        \/ c.priority[l] = c.priority[m] /\ l <= m
    <3>1. 64 * c.priority[l] + l <= 64 * c.priority[m] + m
      BY <2>1
    <3>2. /\ c.priority[l] \in 0..3 /\ c.priority[m] \in 0..3
          /\ l \in 0..58 /\ m \in 0..58
      BY <1>1
    <3> HIDE DEF key
    <3> QED BY ONLY <3>1, <3>2
  <2>4. l # m /\ l \in 0..58 /\ m \in 0..58
    BY <1>1
  <2> QED BY <2>3, <2>4 DEF Outranks
<1> QED BY <1>5

\* `pending` as it is computed is the unmasked line that outranks the others.
LEMMA RequestIsFirst ==
    ASSUME NEW c \in Controller
    PROVE  /\ Request(c) \in [index : Lines \cup {99}, priority : 0..3]
           /\ Request(c) = NoRequest <=> Unmasked(c) = {}
           /\ Request(c) # NoRequest =>
                 /\ Request(c).index \in Unmasked(c)
                 /\ Request(c).priority = c.priority[Request(c).index]
                 /\ \A m \in Unmasked(c) \ {Request(c).index} :
                        Outranks(c, Request(c).index, m)
<1>1. Unmasked(c) \in SUBSET Lines
  BY DEF Unmasked, Controller
<1>2. CASE Unmasked(c) = {}
  BY <1>2 DEF Request, NoRequest
<1>3. CASE Unmasked(c) # {}
  <2> DEFINE first == CHOOSE l \in Unmasked(c) :
                         \A m \in Unmasked(c) \ {l} : Outranks(c, l, m)
  <2>1. /\ first \in Unmasked(c)
        /\ \A m \in Unmasked(c) \ {first} : Outranks(c, first, m)
    BY <1>1, <1>3, FirstExists
  <2>2. Request(c) = [index |-> first, priority |-> c.priority[first]]
    BY <1>3 DEF Request
  <2> HIDE DEF first
  <2>f. first \in Lines
    BY ONLY <1>1, <2>1
  <2>3. first \in 0..58 /\ first \in Lines /\ c.priority[first] \in 0..3
    BY ONLY <2>f, c \in Controller, LinesAssumption DEF Controller
  <2>4. Request(c).index = first /\ Request(c).priority = c.priority[first]
    BY <2>2
  <2>5. Request(c) # NoRequest
    BY <2>3, <2>4 DEF NoRequest
  <2>6. Request(c) \in [index : Lines \cup {99}, priority : 0..3]
    BY <2>2, <2>3
  <2>7. /\ Request(c).index \in Unmasked(c)
        /\ Request(c).priority = c.priority[Request(c).index]
        /\ \A m \in Unmasked(c) \ {Request(c).index} : Outranks(c, Request(c).index, m)
    BY <2>1, <2>4
  <2> QED BY <1>3, <2>5, <2>6, <2>7
<1> QED BY <1>2, <1>3

\* Every write of a register ends in a new computation of the request.
LEMMA RecomputedIsOffered ==
    ASSUME NEW c \in Controller
    PROVE  /\ Recomputed(c) \in Controller
           /\ Recomputed(c).pending = Request(Recomputed(c))
           /\ Recomputed(c).flag = c.flag
<1> DEFINE r == Recomputed(c)
<1>1. /\ r = [flag |-> c.flag, mask |-> c.mask, priority |-> c.priority,
              pending |-> Request(c)]
  BY DEF Controller, Recomputed
<1>2. Request(c) \in [index : Lines \cup {99}, priority : 0..3]
  BY RequestIsFirst
<1>3. r \in Controller
  BY <1>1, <1>2 DEF Controller
<1>4. r.flag = c.flag /\ r.mask = c.mask /\ r.priority = c.priority
  BY <1>1
<1>5. Unmasked(r) = Unmasked(c) /\ \A l, m : Outranks(r, l, m) <=> Outranks(c, l, m)
  BY <1>4 DEF Unmasked, Outranks
<1>6. Request(r) = Request(c)
  BY <1>4, <1>5 DEF Request
<1> QED BY <1>1, <1>3, <1>4, <1>6

OfferedBy(c) == c \in Controller /\ c.pending = Request(c)

\* A pulse on a request line only adds a request.
LEMMA RaisedIsOffered ==
    ASSUME NEW c \in Controller, NEW line
    PROVE  OfferedBy(Raised(c, line)) /\ c.flag \subseteq Raised(c, line).flag
<1> DEFINE d == [c EXCEPT !.flag = @ \cup ({line} \cap Lines)]
<1>1. d \in Controller /\ c.flag \subseteq d.flag
  BY DEF Controller
<1>2. Raised(c, line) = Recomputed(d)
  BY DEF Raised
<1> HIDE DEF d
<1> QED BY <1>1, <1>2, RecomputedIsOffered DEF OfferedBy

\* The acknowledge withdraws the line it is for and no other.
LEMMA AckedIsOffered ==
    ASSUME NEW c \in Controller, NEW line
    PROVE  OfferedBy(Acked(c, line)) /\ Acked(c, line).flag = c.flag \ {line}
<1> DEFINE d == [c EXCEPT !.flag = @ \ {line}]
<1>1. d \in Controller /\ d.flag = c.flag \ {line}
  BY DEF Controller
<1>2. Acked(c, line) = Recomputed(d)
  BY DEF Acked
<1> HIDE DEF d
<1> QED BY <1>1, <1>2, RecomputedIsOffered DEF OfferedBy

\* A register field holds lines in use.
LEMMA FieldsAreLines == \A f \in Fields : f \subseteq Lines
BY DEF Fields, LinesOfByte, LinesOfWord

\* A write of a flag register withdraws requests of its own lines only.
LEMMA FlagsAreOffered ==
    ASSUME NEW c \in Controller, NEW field \in Fields, NEW bits \in SUBSET field
    PROVE  /\ OfferedBy(WithFlags(c, field, bits))
           /\ c.flag \ WithFlags(c, field, bits).flag \subseteq field
<1> DEFINE d == [c EXCEPT !.flag = Deposited(@, field, bits)]
<1>1. d \in Controller /\ c.flag \ d.flag \subseteq field
  BY FieldsAreLines DEF Controller, Deposited
<1>2. WithFlags(c, field, bits) = Recomputed(d)
  BY DEF WithFlags
<1> HIDE DEF d
<1> QED BY <1>1, <1>2, RecomputedIsOffered DEF OfferedBy

\* Writes of masks and of priority bits withdraw no request.
LEMMA MasksAreOffered ==
    ASSUME NEW c \in Controller, NEW field \in Fields, NEW bits \in SUBSET field
    PROVE  /\ OfferedBy(WithMasks(c, field, bits))
           /\ WithMasks(c, field, bits).flag = c.flag
<1> DEFINE d == [c EXCEPT !.mask = Deposited(@, field, bits)]
<1>1. d \in Controller /\ d.flag = c.flag
  BY FieldsAreLines DEF Controller, Deposited
<1>2. WithMasks(c, field, bits) = Recomputed(d)
  BY DEF WithMasks
<1> HIDE DEF d
<1> QED BY <1>1, <1>2, RecomputedIsOffered DEF OfferedBy

\* The same for one bit of the priorities.
LEMMA PrioritiesAreOffered ==
    ASSUME NEW c \in Controller, NEW field \in Fields, NEW high \in BOOLEAN,
           NEW bits \in SUBSET field
    PROVE  /\ OfferedBy(WithPriorityBits(c, field, high, bits))
           /\ WithPriorityBits(c, field, high, bits).flag = c.flag
<1> DEFINE level(l) ==
        IF l \notin field THEN c.priority[l]
        ELSE LET bit == IF l \in bits THEN 1 ELSE 0
             IN  IF high THEN 2 * bit + (c.priority[l] % 2)
                 ELSE 2 * (c.priority[l] \div 2) + bit
           d == [c EXCEPT !.priority = [l \in Lines |-> level(l)]]
<1>1. \A l \in Lines : level(l) \in 0..3
  <2>1. SUFFICES ASSUME NEW l \in Lines PROVE level(l) \in 0..3
    OBVIOUS
  <2>2. c.priority[l] \in 0..3
    BY DEF Controller
  <2>3. \A p \in 0..3, bit \in {0, 1} : 2 * bit + (p % 2) \in 0..3 /\ 2 * (p \div 2) + bit \in 0..3
    OBVIOUS
  <2> QED BY <2>2, <2>3
<1>2. WithPriorityBits(c, field, high, bits) = Recomputed(d)
  BY DEF WithPriorityBits, Controller
<1> HIDE DEF level
<1>3. d \in Controller /\ d.flag = c.flag
  BY <1>1 DEF Controller
<1> HIDE DEF d
<1> QED BY <1>2, <1>3, RecomputedIsOffered DEF OfferedBy

\* After a reset nothing is offered, whatever start-up code masks.
LEMMA ResetIsOffered == \A m \in SUBSET Lines : OfferedBy([ResetController EXCEPT !.mask = m])
<1>1. SUFFICES ASSUME NEW m \in SUBSET Lines
               PROVE  OfferedBy([ResetController EXCEPT !.mask = m])
  OBVIOUS
<1> DEFINE d == [ResetController EXCEPT !.mask = m]
<1>2. d = [flag |-> {}, mask |-> m, priority |-> [l \in Lines |-> 3], pending |-> NoRequest]
  BY DEF ResetController
<1>3. d \in Controller
  BY <1>2 DEF Controller, NoRequest
<1> HIDE DEF d
<1>4. d.flag = {} /\ d.pending = NoRequest
  BY <1>2
<1>5. Unmasked(d) = {}
  BY <1>4 DEF Unmasked
<1>6. Request(d) = NoRequest
  BY <1>5 DEF Request
<1> QED BY <1>3, <1>4, <1>6 DEF OfferedBy, d

\* What `Request` chooses is the property the runs check.
LEMMA OfferedIsHighest ==
    ASSUME chip \in Chips, Offered(chip)
    PROVE  HighestOffered
<1> DEFINE c == chip.irq
<1>1. c \in Controller /\ c.pending = Request(c)
  BY DEF Chips, Offered
<1> HIDE DEF c
<1>2. \A l, m : Outranks(c, l, m) <=>
          c.priority[l] < c.priority[m] \/ (c.priority[l] = c.priority[m] /\ l < m)
  BY DEF Outranks
<1>3. /\ c.pending = NoRequest <=> Unmasked(c) = {}
      /\ c.pending # NoRequest =>
            /\ c.pending.index \in Unmasked(c)
            /\ c.pending.priority = c.priority[c.pending.index]
            /\ \A l \in Unmasked(c) \ {c.pending.index} :
                   \/ c.pending.priority < c.priority[l]
                   \/ c.pending.priority = c.priority[l] /\ c.pending.index < l
  BY <1>1, <1>2, RequestIsFirst
<1> QED BY <1>3 DEF HighestOffered, c

-----------------------------------------------------------------------------
(* Time. *)

\* Products of naturals.
LEMMA Products ==
    /\ \A m, n \in Nat : m * n \in Nat
    /\ \A m, n \in Nat \ {0} : m * n \in Nat \ {0}
<1>1. \A m, n \in Nat : m * n \in Nat
  OBVIOUS
<1>2. \A m, n \in Nat \ {0} : m * n \in Nat \ {0}
  OBVIOUS
<1> QED BY <1>1, <1>2

\* No clock of the tree is faster than one cycle per unit of time.
LEMMA HzBounds ==
    ASSUME NEW c \in Chips
    PROVE  Hz(c) \in 0..NsPerSec
<1>1. c.clock \in Generator
  BY DEF Chips
<1> DEFINE g == c.clock
<1>2. HighOsc(g) \in 0..NsPerSec /\ MidOsc(g) \in 0..NsPerSec /\ SubOsc(g) \in 0..NsPerSec
  BY <1>1, ClockAssumption DEF HighOsc, MidOsc, SubOsc, Stopped, Generator
<1>3. MainClock(g) \in 0..NsPerSec
  BY <1>2, ClockAssumption DEF MainClock, Stopped
<1> QED BY <1>2, <1>3 DEF Hz, FClk

\* A running clock takes at least one unit of time for any work; a stopped clock
\* never finishes it.
LEMMA TicksAreTimes ==
    ASSUME NEW hz \in 0..NsPerSec, NEW cycles \in Nat \ {0}
    PROVE  /\ TicksAt(hz, cycles) \in (Nat \ {0}) \cup {NoTick}
           /\ TicksAt(hz, cycles) = NoTick <=> hz = Stopped
<1>1. NsPerSec \in Nat \ {0}
  BY ClockAssumption
<1>2. ASSUME hz # Stopped
      PROVE  (cycles * NsPerSec) \div hz \in Nat \ {0}
  <2>1. hz \in Nat \ {0} /\ hz <= NsPerSec
    BY <1>1, <1>2 DEF Stopped
  <2>2. \A m, n \in Nat \ {0} : n <= m * n
    OBVIOUS
  <2>3. NsPerSec <= cycles * NsPerSec /\ cycles * NsPerSec \in Nat
    BY <1>1, <2>2, Products
  <2>4. \A x \in Nat, h \in Nat \ {0} : h <= x => x \div h \in Nat \ {0}
    OBVIOUS
  <2> DEFINE work == cycles * NsPerSec
  <2>5. work \in Nat /\ hz <= work
    BY <1>1, <2>1, <2>3
  <2> HIDE DEF work
  <2>6. work \div hz \in Nat \ {0}
    BY <2>1, <2>4, <2>5
  <2> QED BY <2>6 DEF work
<1> QED BY <1>2 DEF TicksAt, NoTick, Stopped

\* The interval of a timer channel takes time, or its clock is stopped.
LEMMA IntervalIsTime ==
    ASSUME NEW c \in Chips, NEW ch \in TauChannels
    PROVE  Interval(c, ch) \in (Nat \ {0}) \cup {NoTick}
<1>1. c.tau.tdr[ch] + 1 \in Nat \ {0} /\ c.tau.div[ch] \in Nat \ {0}
  BY DEF Chips, TauUnit
<1>2. (c.tau.tdr[ch] + 1) * c.tau.div[ch] \in Nat \ {0}
  BY <1>1, Products
<1> QED BY <1>2, HzBounds, TicksAreTimes DEF Interval

\* So does a bit and a frame of a serial channel.
LEMMA FrameIsTime ==
    ASSUME NEW c \in Chips, NEW ch \in SauChannels
    PROVE  /\ BitTime(c, ch) \in (Nat \ {0}) \cup {NoTick}
           /\ FrameTime(c, ch) \in (Nat \ {0}) \cup {NoTick}
           /\ FrameTime(c, ch) = NoTick <=> BitTime(c, ch) = NoTick
<1>1. c.sau.set[ch].baud \in DOMAIN BitCycles /\ c.sau.set[ch].shape \in Shapes
  BY DEF Chips, SauUnit, Settings
<1> DEFINE cycles == BitCycles[c.sau.set[ch].baud]
           bits == BitCount(c.sau.set[ch])
<1>2. cycles \in Nat \ {0} /\ bits \in Nat \ {0}
  BY <1>1, SauAssumption DEF BitCount
<1>3. cycles * bits \in Nat \ {0}
  BY <1>2, Products
<1>4. BitTime(c, ch) = TicksAt(Hz(c), cycles) /\ FrameTime(c, ch) = TicksAt(Hz(c), cycles * bits)
  BY DEF BitTime, FrameTime
<1> HIDE DEF cycles, bits
<1> QED BY <1>2, <1>3, <1>4, HzBounds, TicksAreTimes

\* So does a conversion.
LEMMA ConversionIsTime ==
    ASSUME NEW c \in Chips
    PROVE  /\ NextDuration(c) \in (Nat \ {0}) \cup {NoTick}
           /\ FirstDuration(c) \in (Nat \ {0}) \cup {NoTick}
<1> DEFINE k == AdcClocks[c.adc.clock]
           divider == k.divider[c.adc.slow]
<1>1. k.conversion \in Nat \ {0} /\ divider \in Nat \ {0}
  BY AdcAssumption DEF Chips, AdcUnit
<1>2. InterruptDelay(c) \in Nat /\ WakeUp(c) \in Nat
  BY AdcAssumption DEF InterruptDelay, WakeUp, Chips, AdcUnit
<1>3. /\ NextDuration(c) = TicksAt(Hz(c), (k.conversion + InterruptDelay(c)) * divider)
      /\ FirstDuration(c) =
            TicksAt(Hz(c), (k.conversion + WakeUp(c) + InterruptDelay(c)) * divider)
  BY DEF NextDuration, FirstDuration
<1> HIDE DEF k, divider
<1>4. /\ k.conversion + InterruptDelay(c) \in Nat \ {0}
      /\ k.conversion + WakeUp(c) + InterruptDelay(c) \in Nat \ {0}
  BY <1>1, <1>2
<1>5. /\ (k.conversion + InterruptDelay(c)) * divider \in Nat \ {0}
      /\ (k.conversion + WakeUp(c) + InterruptDelay(c)) * divider \in Nat \ {0}
  BY <1>1, <1>4, Products
<1> QED BY <1>3, <1>5, HzBounds, TicksAreTimes

\* The next deadline is a whole number of periods after the last, however late the
\* last one is handled.
LEMMA FirstAfterIsOnGrid ==
    ASSUME NEW n \in Nat, NEW at \in Nat, NEW period \in Nat \ {0}
    PROVE  \E k \in Nat : FirstAfter(n, at, period) = at + k * period
<1>1. CASE at + period > n
  <2>1. FirstAfter(n, at, period) = at + 1 * period
    BY <1>1 DEF FirstAfter
  <2> QED BY <2>1
<1>2. CASE ~ (at + period > n)
  <2> DEFINE k == (n - at) \div period + 1
  <2>1. n - at \in Nat
    BY <1>2
  <2>2. \A x \in Nat, p \in Nat \ {0} : x \div p \in Nat
    OBVIOUS
  <2>3. k \in Nat
    BY <2>1, <2>2
  <2>4. FirstAfter(n, at, period) = at + period * k
    BY <1>2 DEF FirstAfter
  <2> HIDE DEF k
  <2>5. period * k = k * period
    BY <2>3
  <2> QED BY <2>3, <2>4, <2>5
<1> QED BY <1>1, <1>2

-----------------------------------------------------------------------------
(* The event queue as the units use it. *)

UnitsKept(c, d) ==
    /\ d.now = c.now /\ d.clock = c.clock /\ d.tau = c.tau /\ d.sau = c.sau
    /\ d.adc = c.adc /\ d.gpio = c.gpio /\ d.irq = c.irq

\* The events of the other units are those they were.
OthersKept(c, d, unit) ==
    \A u \in {"tau", "sau", "adc"} \ {unit} : EventsOf(d, u) = EventsOf(c, u)

\* `schedule` adds one event, with a number none has.
LEMMA ScheduleAddsOne ==
    ASSUME NEW c \in Chips, Numbered(c), NEW at \in Nat,
           NEW unit \in {"tau", "sau", "adc", "semihosting"},
           NEW ch \in Nat, NEW generation \in Generation,
           NEW d, d = Schedule(c, at, unit, ch, generation),
           NEW e, e = [at |-> at, id |-> c.issued + 1, unit |-> unit, ch |-> ch,
                       generation |-> generation]
    PROVE  /\ d \in Chips /\ Numbered(d) /\ UnitsKept(c, d) /\ OthersKept(c, d, unit)
           /\ d.issued \in Nat \ {NoEvent} /\ e.id = d.issued
           /\ EventsOf(d, unit) = EventsOf(c, unit) \cup {e}
           /\ \A f \in c.pending : f.id # d.issued
<1>1. c.issued \in Nat /\ c.pending \in SUBSET Event
  BY DEF Chips
<1>2. e \in Event
  BY <1>1 DEF Event
<1>3. d.issued = c.issued + 1 /\ d.pending = c.pending \cup {e} /\ UnitsKept(c, d)
  BY DEF Schedule, UnitsKept, Chips
<1>4. d \in Chips
  <2>1. d = [c EXCEPT !.issued = c.issued + 1, !.pending = c.pending \cup {e}]
    BY DEF Schedule, Chips
  <2>2. c.issued + 1 \in Nat /\ c.pending \cup {e} \in SUBSET Event
    BY <1>1, <1>2
  <2> QED BY <2>1, <2>2 DEF Chips
<1>5. \A f \in c.pending : f.id \in 1..c.issued
  BY DEF Numbered
<1>6. Numbered(d)
  BY <1>1, <1>3, <1>5 DEF Numbered
<1>7. e.unit = unit /\ e.id = c.issued + 1
  OBVIOUS
<1>8. EventsOf(d, unit) = EventsOf(c, unit) \cup {e} /\ OthersKept(c, d, unit)
  BY <1>3, <1>7 DEF EventsOf, OthersKept
<1> QED BY <1>1, <1>3, <1>4, <1>5, <1>6, <1>7, <1>8 DEF NoEvent

\* `cancel` with the id that a unit keeps takes away that unit's event and no other.
LEMMA CancelTakesOne ==
    ASSUME NEW c \in Chips, Numbered(c), NEW unit, NEW id \in Nat,
           id # NoEvent => \E e \in EventsOf(c, unit) : e.id = id,
           NEW d, d = Cancel(c, id)
    PROVE  /\ d \in Chips /\ Numbered(d) /\ UnitsKept(c, d) /\ OthersKept(c, d, unit)
           /\ d.issued = c.issued
           /\ EventsOf(d, unit) = {e \in EventsOf(c, unit) : e.id # id}
<1>1. d.pending = {e \in c.pending : e.id # id} /\ d.issued = c.issued /\ UnitsKept(c, d)
  BY DEF Cancel, UnitsKept, Chips
<1>2. d \in Chips
  BY DEF Cancel, Chips
<1>3. Numbered(d)
  BY <1>1 DEF Numbered
<1>4. EventsOf(d, unit) = {e \in EventsOf(c, unit) : e.id # id}
  BY <1>1 DEF EventsOf
<1>5. ASSUME NEW u \in {"tau", "sau", "adc"} \ {unit}, NEW e \in EventsOf(c, u)
      PROVE  e.id # id
  <2>1. e \in c.pending /\ e.unit = u /\ e.id \in 1..c.issued /\ c.issued \in Nat
    BY DEF EventsOf, Numbered, Chips
  <2>2. CASE id = NoEvent
    BY <2>1, <2>2 DEF NoEvent
  <2>3. CASE id # NoEvent
    <3>1. PICK f \in EventsOf(c, unit) : f.id = id
      BY <2>3
    <3>2. f \in c.pending /\ f.unit = unit
      BY DEF EventsOf
    <3> QED BY <2>1, <3>1, <3>2 DEF Numbered
  <2> QED BY <2>2, <2>3
<1>6. OthersKept(c, d, unit)
  BY <1>1, <1>5 DEF OthersKept, EventsOf
<1> QED BY <1>1, <1>2, <1>3, <1>4, <1>6

\* The event that fires leaves the queue.
LEMMA PoppedTakesOne ==
    ASSUME NEW c \in Chips, Numbered(c), NEW e \in c.pending, NEW d, d = Popped(c, e)
    PROVE  /\ d \in Chips /\ Numbered(d) /\ UnitsKept(c, d) /\ OthersKept(c, d, e.unit)
           /\ d.issued = c.issued
           /\ EventsOf(d, e.unit) = EventsOf(c, e.unit) \ {e}
<1>1. d.pending = c.pending \ {e} /\ d.issued = c.issued /\ UnitsKept(c, d)
  BY DEF Popped, UnitsKept, Chips
<1>2. d \in Chips
  BY DEF Popped, Chips
<1> QED BY <1>1, <1>2 DEF Numbered, OthersKept, EventsOf

-----------------------------------------------------------------------------
(* Timers. *)

\* What a step may do to a timer channel: stop it; start it, one interval before its
\* first event; or let it count on, its next event on the grid of the last one.
ChannelStep(c, d, ch) ==
    \/ ch \notin d.tau.te
    \/ /\ ch \notin c.tau.te /\ d.tau.expire[ch] # NoEvent /\ Interval(d, ch) # NoTick
       /\ \A e \in EventsOf(d, "tau") : e.ch = ch => e.at = d.now + Interval(d, ch)
    \/ /\ ch \in c.tau.te
       /\ Interval(d, ch) # NoTick /\ c.tau.expire[ch] # NoEvent =>
             /\ d.tau.expire[ch] # NoEvent
             /\ \A e \in EventsOf(d, "tau") : e.ch = ch =>
                   \E f \in EventsOf(c, "tau"), k \in Nat :
                       f.ch = ch /\ e.at = f.at + k * Interval(d, ch)

TauStep(c, d) == \A ch \in TauChannels : ChannelStep(c, d, ch)

\* Nothing but the timers' own registers, the request flags and the queue changes.
TauOnly(c, d) ==
    /\ d.now = c.now /\ d.clock = c.clock /\ d.sau = c.sau /\ d.adc = c.adc
    /\ d.gpio = c.gpio /\ OthersKept(c, d, "tau")

\* The timers are armed but for channel `ch`, which has no event.
TauArmedBut(c, ch) ==
    /\ \A e \in EventsOf(c, "tau") :
          /\ e.ch # ch /\ e.ch \in c.tau.te /\ c.tau.expire[e.ch] = e.id
          /\ c.tau.generation[e.ch] = e.generation
    /\ \A k \in TauChannels \ {ch} : c.tau.expire[k] # NoEvent =>
          \E e \in EventsOf(c, "tau") : e.id = c.tau.expire[k] /\ e.ch = k

\* Events have numbers that are not NoEvent.
LEMMA EventsAreNumbered ==
    ASSUME NEW c \in Chips, Numbered(c), NEW e \in c.pending
    PROVE  e.id \in Nat \ {NoEvent} /\ e \in Event
BY DEF Chips, Numbered, NoEvent

\* An expiry is scheduled for a channel that has none.
LEMMA ArmTimer ==
    ASSUME NEW c \in Chips, Numbered(c), NEW ch \in TauChannels, TauArmedBut(c, ch),
           ch \in c.tau.te, NEW at \in Nat, NEW d, d = TauExpireAt(c, ch, at)
    PROVE  /\ d \in Chips /\ Numbered(d) /\ TauArmed(d) /\ TauOnly(c, d)
           /\ d.irq = c.irq /\ d.tau.te = c.tau.te
           /\ d.tau.tdr = c.tau.tdr /\ d.tau.div = c.tau.div
           /\ d.tau.expire[ch] # NoEvent
           /\ \A k \in TauChannels \ {ch} : d.tau.expire[k] = c.tau.expire[k]
           /\ \A e \in EventsOf(d, "tau") :
                  IF e.ch = ch THEN e.at = at ELSE e \in EventsOf(c, "tau")
<1> DEFINE r == Schedule(c, at, "tau", ch, c.tau.generation[ch])
           e == [at |-> at, id |-> c.issued + 1, unit |-> "tau", ch |-> ch,
                 generation |-> c.tau.generation[ch]]
<1>1. ch \in Nat /\ c.tau.generation[ch] \in Generation
  BY TauAssumption DEF Chips, TauUnit
<1>2. /\ r \in Chips /\ Numbered(r) /\ UnitsKept(c, r) /\ OthersKept(c, r, "tau")
      /\ r.issued \in Nat \ {NoEvent} /\ e.id = r.issued
      /\ EventsOf(r, "tau") = EventsOf(c, "tau") \cup {e}
      /\ \A f \in c.pending : f.id # r.issued
  <2> HIDE DEF r, e
  <2>1. r = Schedule(c, at, "tau", ch, c.tau.generation[ch])
    BY DEF r
  <2>2. e = [at |-> at, id |-> c.issued + 1, unit |-> "tau", ch |-> ch,
             generation |-> c.tau.generation[ch]]
    BY DEF e
  <2> QED BY <1>1, <2>1, <2>2, ScheduleAddsOne
<1>3. e.ch = ch /\ e.at = at /\ e.generation = c.tau.generation[ch]
  OBVIOUS
<1>4. d = [r EXCEPT !.tau.expire[ch] = r.issued]
  BY DEF TauExpireAt
<1> HIDE DEF r, e
<1>5. /\ d.now = r.now /\ d.clock = r.clock /\ d.sau = r.sau /\ d.adc = r.adc
      /\ d.gpio = r.gpio /\ d.irq = r.irq /\ d.pending = r.pending /\ d.issued = r.issued
      /\ d.tau = [r.tau EXCEPT !.expire[ch] = r.issued]
  BY <1>2, <1>4 DEF Chips
<1>6. d \in Chips
  <2>1. r.tau \in TauUnit /\ r.issued \in Nat
    BY <1>2 DEF Chips
  <2>2. [r.tau.expire EXCEPT ![ch] = r.issued] \in [TauChannels -> Nat]
    BY <2>1 DEF TauUnit
  <2>3. [r.tau EXCEPT !.expire = [r.tau.expire EXCEPT ![ch] = r.issued]] \in TauUnit
    BY <2>1, <2>2 DEF TauUnit
  <2>4. d = [r EXCEPT !.tau = [r.tau EXCEPT !.expire = [r.tau.expire EXCEPT ![ch] = r.issued]]]
    BY <1>2, <1>4, <2>1 DEF Chips, TauUnit
  <2> QED BY <1>2, <2>3, <2>4 DEF Chips
<1>7. /\ d.tau.te = c.tau.te /\ d.tau.tdr = c.tau.tdr /\ d.tau.div = c.tau.div
      /\ d.tau.generation = c.tau.generation
      /\ d.tau.expire = [c.tau.expire EXCEPT ![ch] = r.issued]
  BY <1>2, <1>5 DEF UnitsKept, Chips, TauUnit
<1>8. d.tau.expire[ch] = r.issued
      /\ \A k \in TauChannels \ {ch} : d.tau.expire[k] = c.tau.expire[k]
  BY <1>7 DEF Chips, TauUnit
<1>9. \A u : EventsOf(d, u) = EventsOf(r, u)
  BY <1>5 DEF EventsOf
<1>10. TauArmed(d)
  <2>1. ASSUME NEW f \in EventsOf(d, "tau")
        PROVE  /\ f.ch \in d.tau.te /\ d.tau.expire[f.ch] = f.id
               /\ d.tau.generation[f.ch] = f.generation
    <3>1. CASE f = e
      BY <1>2, <1>3, <1>7, <1>8, <3>1
    <3>2. CASE f # e
      <4>1. f \in EventsOf(c, "tau")
        BY <1>2, <1>9, <3>2
      <4>2. f.ch \in TauChannels \ {ch}
        BY <4>1 DEF TauArmedBut, Chips, TauUnit
      <4> QED BY <1>7, <1>8, <4>1, <4>2 DEF TauArmedBut
    <3> QED BY <3>1, <3>2
  <2>2. ASSUME NEW k \in TauChannels, d.tau.expire[k] # NoEvent
        PROVE  \E f \in EventsOf(d, "tau") : f.id = d.tau.expire[k] /\ f.ch = k
    <3>1. CASE k = ch
      BY <1>2, <1>3, <1>8, <1>9, <3>1
    <3>2. CASE k # ch
      BY <1>2, <1>8, <1>9, <2>2, <3>2 DEF TauArmedBut
    <3> QED BY <3>1, <3>2
  <2> QED BY <2>1, <2>2 DEF TauArmed
<1>11. Numbered(d)
  BY <1>2, <1>5 DEF Numbered
<1>12. TauOnly(c, d) /\ d.irq = c.irq
  BY <1>2, <1>5, <1>9 DEF TauOnly, UnitsKept, OthersKept
<1>13. \A f \in EventsOf(d, "tau") : IF f.ch = ch THEN f.at = at ELSE f \in EventsOf(c, "tau")
  BY <1>2, <1>3, <1>9 DEF TauArmedBut
<1> QED BY <1>2, <1>6, <1>7, <1>8, <1>10, <1>11, <1>12, <1>13

\* A channel none of whose events is new counts on.
LEMMA ChannelCountsOn ==
    ASSUME NEW c \in Chips, NEW d \in Chips, NEW ch \in TauChannels,
           ch \in d.tau.te <=> ch \in c.tau.te, d.tau.expire[ch] = c.tau.expire[ch],
           \A e \in EventsOf(d, "tau") : e.ch = ch => e \in EventsOf(c, "tau")
    PROVE  ChannelStep(c, d, ch)
<1>1. ASSUME NEW e \in EventsOf(d, "tau"), e.ch = ch, Interval(d, ch) # NoTick
      PROVE  \E f \in EventsOf(c, "tau"), k \in Nat :
                 f.ch = ch /\ e.at = f.at + k * Interval(d, ch)
  <2>1. Interval(d, ch) \in Nat /\ e.at \in Nat
    BY <1>1, IntervalIsTime DEF EventsOf, Chips, Event
  <2>2. e.at = e.at + 0 * Interval(d, ch)
    BY <2>1
  <2> QED BY <1>1, <2>2
<1> QED BY <1>1 DEF ChannelStep

\* A step that leaves starts, ids and events of the timers alone.
LEMMA TimersCountOn ==
    ASSUME NEW c \in Chips, NEW d \in Chips, TauArmed(c),
           d.tau.te = c.tau.te, d.tau.expire = c.tau.expire,
           d.tau.generation = c.tau.generation, EventsOf(d, "tau") = EventsOf(c, "tau")
    PROVE  TauArmed(d) /\ TauStep(c, d)
<1>1. TauArmed(d)
  BY DEF TauArmed
<1>2. \A ch \in TauChannels : ChannelStep(c, d, ch)
  BY ChannelCountsOn
<1> QED BY <1>1, <1>2 DEF TauStep

\* A step that re-arms or stops one channel.
LEMMA OneChannelSteps ==
    ASSUME NEW c \in Chips, NEW d \in Chips, NEW ch \in TauChannels, ChannelStep(c, d, ch),
           \A k \in TauChannels \ {ch} :
               (k \in d.tau.te <=> k \in c.tau.te) /\ d.tau.expire[k] = c.tau.expire[k],
           \A e \in EventsOf(d, "tau") : e.ch # ch => e \in EventsOf(c, "tau")
    PROVE  TauStep(c, d)
<1>1. \A k \in TauChannels \ {ch} : ChannelStep(c, d, k)
  BY ChannelCountsOn
<1> QED BY <1>1 DEF TauStep

\* TDR and the clock select are written while a channel counts or not.
LEMMA WriteTimer ==
    ASSUME NEW c \in Chips, Armed(c), NEW ch \in TauChannels, NEW n, NEW d,
           \/ n \in Counts /\ d = [c EXCEPT !.tau.tdr[ch] = n]
           \/ n \in Divisors /\ d = [c EXCEPT !.tau.div[ch] = n]
    PROVE  /\ d \in Chips /\ Numbered(d) /\ TauArmed(d) /\ TauOnly(c, d)
           /\ d.irq = c.irq /\ TauStep(c, d)
<1>1. PICK t \in TauUnit : /\ d = [c EXCEPT !.tau = t]
                           /\ t.te = c.tau.te /\ t.expire = c.tau.expire
                           /\ t.generation = c.tau.generation
  <2>0. c.tau \in TauUnit
    BY DEF Chips
  <2>1. CASE n \in Counts /\ d = [c EXCEPT !.tau.tdr[ch] = n]
    <3> DEFINE t == [c.tau EXCEPT !.tdr = [c.tau.tdr EXCEPT ![ch] = n]]
    <3>1. [c.tau.tdr EXCEPT ![ch] = n] \in [TauChannels -> Nat]
      BY <2>0, <2>1, TauAssumption DEF TauUnit
    <3>2. t \in TauUnit /\ t.te = c.tau.te /\ t.expire = c.tau.expire
                        /\ t.generation = c.tau.generation
      BY <2>0, <3>1 DEF TauUnit
    <3>3. d = [c EXCEPT !.tau = t]
      BY <2>1 DEF Chips, TauUnit
    <3> QED BY <3>2, <3>3
  <2>2. CASE n \in Divisors /\ d = [c EXCEPT !.tau.div[ch] = n]
    <3> DEFINE t == [c.tau EXCEPT !.div = [c.tau.div EXCEPT ![ch] = n]]
    <3>1. [c.tau.div EXCEPT ![ch] = n] \in [TauChannels -> Nat \ {0}]
      BY <2>0, <2>2, TauAssumption DEF TauUnit
    <3>2. t \in TauUnit /\ t.te = c.tau.te /\ t.expire = c.tau.expire
                        /\ t.generation = c.tau.generation
      BY <2>0, <3>1 DEF TauUnit
    <3>3. d = [c EXCEPT !.tau = t]
      BY <2>2 DEF Chips, TauUnit
    <3> QED BY <3>2, <3>3
  <2> QED BY <2>1, <2>2
<1>2. /\ d \in Chips /\ d.tau = t /\ d.pending = c.pending /\ d.issued = c.issued
      /\ d.now = c.now /\ d.clock = c.clock /\ d.sau = c.sau /\ d.adc = c.adc
      /\ d.gpio = c.gpio /\ d.irq = c.irq
  BY <1>1 DEF Chips
<1>3. \A u : EventsOf(d, u) = EventsOf(c, u)
  BY <1>2 DEF EventsOf
<1>4. Numbered(d)
  BY <1>2 DEF Armed, Numbered
<1>5. TauOnly(c, d)
  BY <1>2, <1>3 DEF TauOnly, OthersKept
<1>6. TauArmed(d) /\ TauStep(c, d)
  BY <1>1, <1>2, <1>3, TimersCountOn DEF Armed
<1> QED BY <1>2, <1>4, <1>5, <1>6

\* start_channel.
LEMMA StartTimer ==
    ASSUME NEW c \in Chips, Armed(c), NEW ch \in TauChannels, NEW d, d = StartChannel(c, ch)
    PROVE  /\ d \in Chips /\ Numbered(d) /\ TauArmed(d) /\ TauOnly(c, d)
           /\ d.irq = c.irq /\ TauStep(c, d)
<1>1. CASE d = c
  BY <1>1, TimersCountOn DEF Armed, TauOnly, OthersKept
<1>2. CASE c.tau.expire[ch] = NoEvent /\ Interval(c, ch) # NoTick
  <2> DEFINE s == [c EXCEPT !.tau.te = @ \cup {ch}]
             at == c.now + Interval(c, ch)
  <2>1. d = TauExpireAt(s, ch, at)
    BY <1>2 DEF StartChannel
  <2>2. /\ s \in Chips /\ s.pending = c.pending /\ s.issued = c.issued
        /\ s.now = c.now /\ s.clock = c.clock /\ s.sau = c.sau /\ s.adc = c.adc
        /\ s.gpio = c.gpio /\ s.irq = c.irq /\ s.tau.te = c.tau.te \cup {ch}
        /\ s.tau.tdr = c.tau.tdr /\ s.tau.div = c.tau.div
        /\ s.tau.expire = c.tau.expire /\ s.tau.generation = c.tau.generation
    BY DEF Chips, TauUnit
  <2>3. at \in Nat /\ Interval(c, ch) \in Nat
    BY <1>2, IntervalIsTime DEF Chips
  <2> HIDE DEF s
  <2>4. \A u : EventsOf(s, u) = EventsOf(c, u)
    BY <2>2 DEF EventsOf
  <2>5. Numbered(s)
    BY <2>2 DEF Armed, Numbered
  <2>6. \A e \in EventsOf(c, "tau") : e.ch # ch
    BY <1>2, EventsAreNumbered DEF Armed, TauArmed, EventsOf
  <2>7. TauArmedBut(s, ch)
    BY <2>2, <2>4, <2>6 DEF Armed, TauArmed, TauArmedBut
  <2> HIDE DEF at
  <2>8. /\ d \in Chips /\ Numbered(d) /\ TauArmed(d) /\ TauOnly(s, d)
        /\ d.irq = s.irq /\ d.tau.te = s.tau.te
        /\ d.tau.tdr = s.tau.tdr /\ d.tau.div = s.tau.div
        /\ d.tau.expire[ch] # NoEvent
        /\ \A k \in TauChannels \ {ch} : d.tau.expire[k] = s.tau.expire[k]
        /\ \A e \in EventsOf(d, "tau") :
               IF e.ch = ch THEN e.at = at ELSE e \in EventsOf(s, "tau")
    BY <2>1, <2>2, <2>3, <2>5, <2>7, ArmTimer
  <2>9. TauOnly(c, d) /\ d.irq = c.irq
    BY <2>2, <2>4, <2>8 DEF TauOnly, OthersKept
  <2>10. Interval(d, ch) = Interval(c, ch)
    BY <2>2, <2>8, <2>9 DEF Interval, Hz, TauOnly
  <2>11. \A e \in EventsOf(d, "tau") : e.ch = ch => e.at = d.now + Interval(d, ch)
    BY <2>8, <2>9, <2>10 DEF TauOnly, at
  <2>12. ChannelStep(c, d, ch)
    BY <1>2, <2>8, <2>10, <2>11 DEF ChannelStep
  <2>13. TauStep(c, d)
    BY <2>2, <2>4, <2>8, <2>12, OneChannelSteps
  <2> QED BY <2>8, <2>9, <2>13
<1> QED BY <1>1, <1>2 DEF StartChannel

\* A channel without event and id is armed like any other.
LEMMA Disarmed ==
    ASSUME NEW c \in Chips, NEW ch \in TauChannels, TauArmedBut(c, ch),
           c.tau.expire[ch] = NoEvent
    PROVE  TauArmed(c)
BY DEF TauArmed, TauArmedBut

\* stop_channel: the event goes with its id.
LEMMA StopTimer ==
    ASSUME NEW c \in Chips, Armed(c), NEW ch \in TauChannels, NEW d, d = StopChannel(c, ch)
    PROVE  /\ d \in Chips /\ Numbered(d) /\ TauArmed(d) /\ TauOnly(c, d)
           /\ d.irq = c.irq /\ TauStep(c, d)
<1> DEFINE id == c.tau.expire[ch]
           r == Cancel(c, id)
           t == Halted(r.tau, ch)
<1>1. /\ r \in Chips /\ Numbered(r) /\ UnitsKept(c, r) /\ OthersKept(c, r, "tau")
      /\ EventsOf(r, "tau") = {e \in EventsOf(c, "tau") : e.id # id}
  <2>1. id \in Nat /\ (id # NoEvent => \E e \in EventsOf(c, "tau") : e.id = id)
    BY DEF Armed, TauArmed, Chips, TauUnit
  <2>2. Numbered(c)
    BY DEF Armed
  <2> HIDE DEF id
  <2> QED BY <2>1, <2>2, CancelTakesOne
<1>2. d = [r EXCEPT !.tau = t]
  BY DEF StopChannel
<1> HIDE DEF r, id
<1>3. r.tau \in TauUnit
  BY <1>1 DEF Chips
<1>4. /\ t \in TauUnit /\ t.te = c.tau.te \ {ch} /\ t.expire[ch] = NoEvent
      /\ \A k \in TauChannels \ {ch} : t.expire[k] = c.tau.expire[k]
                                       /\ t.generation[k] = c.tau.generation[k]
  <2>1. NextGeneration(r.tau.generation[ch]) \in Generation
    BY <1>3 DEF TauUnit, NextGeneration, Generation, Generations
  <2>2. /\ t.te = r.tau.te \ {ch} /\ t.expire = [r.tau.expire EXCEPT ![ch] = NoEvent]
        /\ t.generation = [r.tau.generation EXCEPT ![ch] = NextGeneration(@)]
        /\ t.tdr = r.tau.tdr /\ t.tcr = r.tau.tcr /\ t.div = r.tau.div /\ t.tsr = r.tau.tsr
    BY <1>3 DEF TauUnit, Halted
  <2>3. /\ [r.tau.expire EXCEPT ![ch] = NoEvent] \in [TauChannels -> Nat]
        /\ [r.tau.generation EXCEPT ![ch] = NextGeneration(@)] \in [TauChannels -> Generation]
    BY <1>3, <2>1 DEF TauUnit, NoEvent
  <2>4. t \in TauUnit
    BY <1>3, <2>1, <2>3 DEF TauUnit, NoEvent, Halted
  <2>5. r.tau = c.tau
    BY <1>1 DEF UnitsKept
  <2> HIDE DEF t
  <2> QED BY <1>3, <2>2, <2>4, <2>5 DEF TauUnit
<1> HIDE DEF t
<1>6. /\ d \in Chips /\ d.tau = t /\ d.pending = r.pending /\ d.issued = r.issued
      /\ d.now = c.now /\ d.clock = c.clock /\ d.sau = c.sau /\ d.adc = c.adc
      /\ d.gpio = c.gpio /\ d.irq = c.irq
  BY <1>1, <1>4, <1>2 DEF Chips, UnitsKept
<1>7. \A u : EventsOf(d, u) = EventsOf(r, u)
  BY <1>6 DEF EventsOf
<1>8. Numbered(d) /\ TauOnly(c, d)
  BY <1>1, <1>6, <1>7 DEF Numbered, TauOnly, OthersKept
<1>9. TauArmed(d)
  <2>1. \A e \in EventsOf(d, "tau") : e \in EventsOf(c, "tau") /\ e.id # id /\ e.ch # ch
    BY <1>1, <1>7 DEF Armed, TauArmed, id
  <2>2. \A e \in EventsOf(c, "tau") : e.ch \in TauChannels
    BY DEF Armed, TauArmed, Chips, TauUnit
  <2>3. ASSUME NEW k \in TauChannels \ {ch}, t.expire[k] # NoEvent
        PROVE  \E e \in EventsOf(d, "tau") : e.id = t.expire[k] /\ e.ch = k
    <3>1. PICK e \in EventsOf(c, "tau") : e.id = c.tau.expire[k] /\ e.ch = k
      BY <1>4, <2>3 DEF Armed, TauArmed
    <3>2. e.id # id
      <4>1. CASE id = NoEvent
        BY <1>4, <2>3, <3>1, <4>1
      <4>2. CASE id # NoEvent
        <5>1. PICK f \in EventsOf(c, "tau") : f.id = id /\ f.ch = ch
          BY <4>2 DEF Armed, TauArmed, id
        <5> QED BY <3>1, <5>1 DEF Armed, Numbered, EventsOf
      <4> QED BY <4>1, <4>2
    <3> QED BY <1>1, <1>4, <1>7, <3>1, <3>2
  <2>4. TauArmedBut(d, ch)
    BY <1>4, <1>6, <2>1, <2>2, <2>3 DEF TauArmedBut, Armed, TauArmed
  <2> QED BY <1>4, <1>6, <2>4, Disarmed
<1>10. TauStep(c, d)
  <2>1. ChannelStep(c, d, ch)
    BY <1>4, <1>6 DEF ChannelStep
  <2>2. \A e \in EventsOf(d, "tau") : e \in EventsOf(c, "tau")
    BY <1>1, <1>7
  <2> QED BY <1>4, <1>6, <2>1, <2>2, OneChannelSteps
<1> QED BY <1>6, <1>8, <1>9, <1>10

\* TauExpire::fire.  The event is never stale: it left the queue with its channel armed.
LEMMA ExpireTimer ==
    ASSUME NEW c \in Chips, Armed(c), NEW e \in EventsOf(c, "tau"),
           NEW d, d = TauExpire(Popped(c, e), e)
    PROVE  /\ d \in Chips /\ Numbered(d) /\ TauArmed(d) /\ TauOnly(c, d)
           /\ d.irq = Raised(c.irq, TauLine[e.ch]) /\ TauStep(c, d)
<1> DEFINE ch == e.ch
           s == Popped(c, e)
           irq == Raised(c.irq, TauLine[ch])
           t == Ticked(c.tau, ch)
           ticked == [s EXCEPT !.tau = t, !.irq = irq]
<1>1. /\ e \in c.pending /\ e.unit = "tau" /\ e \in Event /\ Numbered(c)
      /\ ch \in c.tau.te /\ ch \in TauChannels /\ c.tau.expire[ch] = e.id
      /\ c.tau.generation[ch] = e.generation /\ e.id # NoEvent /\ e.at \in Nat
  BY EventsAreNumbered DEF EventsOf, Armed, TauArmed, Chips, TauUnit, Event
<1>2. /\ s \in Chips /\ Numbered(s) /\ UnitsKept(c, s) /\ OthersKept(c, s, "tau")
      /\ s.issued = c.issued /\ EventsOf(s, "tau") = EventsOf(c, "tau") \ {e}
  BY <1>1, PoppedTakesOne
<1>3. /\ t \in TauUnit /\ t.te = c.tau.te /\ t.expire = c.tau.expire
      /\ t.tdr = c.tau.tdr /\ t.div = c.tau.div /\ t.generation = c.tau.generation
  <2>1. c.tau \in TauUnit
    BY DEF Chips
  <2>2. c.tau.tdr[ch] \in Nat
    BY <1>1, <2>1 DEF TauUnit
  <2>3. [c.tau.tcr EXCEPT ![ch] = c.tau.tdr[ch]] \in [TauChannels -> Nat]
    BY <2>1, <2>2 DEF TauUnit
  <2> QED BY <1>1, <2>1, <2>3 DEF TauUnit, Ticked
<1>4. irq \in Controller
  BY RaisedIsOffered DEF Chips, OfferedBy
<1>5. /\ d = IF Interval(s, ch) = NoTick THEN [ticked EXCEPT !.tau.expire[ch] = NoEvent]
             ELSE TauExpireAt(ticked, ch, ExpireNext(s, e))
  <2>1. /\ s.tau = c.tau /\ s.irq = c.irq
    BY <1>2 DEF UnitsKept
  <2> DEFINE now == [s EXCEPT !.tau = t]
  <2>2. now = [s EXCEPT !.tau = Ticked(@, ch)]
    BY ONLY <2>1
  <2>3. ticked = Interrupt(now, TauLine[ch])
    <3>1. now.irq = c.irq /\ [now EXCEPT !.irq = irq] = ticked
      <4> HIDE DEF s, t, irq
      <4> QED BY <1>2, <2>1 DEF Chips
    <3> HIDE DEF now, ticked, s
    <3> QED BY ONLY <3>1 DEF Interrupt, irq
  <2>4. d = TauExpire(s, e) /\ ch = e.ch
    OBVIOUS
  <2> HIDE DEF ticked, now, s, irq, t, ch
  <2>5. ~ (s.tau.generation[ch] # e.generation \/ ch \notin s.tau.te)
    BY ONLY <1>1, <2>1
  <2>6. d = IF Interval(s, ch) = NoTick
               THEN [Interrupt(now, TauLine[ch]) EXCEPT !.tau.expire[ch] = NoEvent]
            ELSE TauExpireAt(Interrupt(now, TauLine[ch]), ch, ExpireNext(s, e))
    BY ONLY <2>2, <2>4, <2>5 DEF TauExpire
  <2> QED BY ONLY <2>3, <2>6
<1>6. /\ ticked \in Chips /\ ticked.tau = t /\ ticked.pending = s.pending
      /\ ticked.issued = s.issued /\ ticked.now = c.now /\ ticked.clock = c.clock
      /\ ticked.sau = c.sau /\ ticked.adc = c.adc /\ ticked.gpio = c.gpio
      /\ ticked.irq = irq
  BY <1>2, <1>3, <1>4 DEF Chips, UnitsKept
<1> HIDE DEF s, irq, t, ticked
<1>7. \A u : EventsOf(ticked, u) = EventsOf(s, u)
  BY <1>6 DEF EventsOf
<1>8. Numbered(ticked) /\ TauOnly(c, ticked)
  BY <1>2, <1>6, <1>7 DEF Numbered, TauOnly, OthersKept
<1>9. TauArmedBut(ticked, ch)
  <2>1. ASSUME NEW f \in EventsOf(ticked, "tau") PROVE f \in EventsOf(c, "tau") /\ f.ch # ch
    <3>1. f \in EventsOf(c, "tau") /\ f # e
      BY <1>2, <1>7
    <3> QED BY <1>1, <3>1 DEF Armed, TauArmed, Numbered, EventsOf
  <2>2. ASSUME NEW k \in TauChannels \ {ch}, t.expire[k] # NoEvent
        PROVE  \E f \in EventsOf(ticked, "tau") : f.id = t.expire[k] /\ f.ch = k
    <3>1. PICK f \in EventsOf(c, "tau") : f.id = c.tau.expire[k] /\ f.ch = k
      BY <1>3, <2>2 DEF Armed, TauArmed
    <3> QED BY <1>2, <1>3, <1>7, <3>1
  <2> QED BY <1>3, <1>6, <2>1, <2>2 DEF TauArmedBut, Armed, TauArmed
<1>10. Interval(s, ch) = Interval(c, ch)
  BY <1>2 DEF UnitsKept, Interval, Hz
<1>11. CASE Interval(s, ch) = NoTick
  <2> DEFINE v == [t EXCEPT !.expire[ch] = NoEvent]
  <2>1. /\ v \in TauUnit /\ v.te = t.te /\ v.generation = t.generation
        /\ v.tdr = t.tdr /\ v.div = t.div /\ v.expire[ch] = NoEvent
        /\ \A k \in TauChannels \ {ch} : v.expire[k] = t.expire[k]
    <3>1. t \in TauUnit /\ [t.expire EXCEPT ![ch] = NoEvent] \in [TauChannels -> Nat]
      BY <1>3 DEF TauUnit, NoEvent
    <3> QED BY <1>1, <3>1 DEF TauUnit
  <2>2. d = [ticked EXCEPT !.tau = v]
    BY <1>5, <1>6, <1>11 DEF Chips, TauUnit
  <2> HIDE DEF v
  <2>3. /\ d \in Chips /\ d.tau = v /\ d.pending = ticked.pending
        /\ d.issued = ticked.issued /\ d.now = c.now /\ d.clock = c.clock
        /\ d.sau = c.sau /\ d.adc = c.adc /\ d.gpio = c.gpio /\ d.irq = irq
    BY <1>6, <2>1, <2>2 DEF Chips
  <2>4. \A u : EventsOf(d, u) = EventsOf(ticked, u)
    BY <2>3 DEF EventsOf
  <2>5. Numbered(d) /\ TauOnly(c, d)
    BY <1>8, <2>3, <2>4 DEF Numbered, TauOnly, OthersKept
  <2>6. TauArmedBut(d, ch)
    <3>1. \A f \in EventsOf(ticked, "tau") : f.ch \in TauChannels \ {ch}
      BY <1>6, <1>9 DEF TauArmedBut, Chips, TauUnit
    <3> QED BY <1>6, <1>9, <2>1, <2>3, <2>4, <3>1 DEF TauArmedBut
  <2>7. TauArmed(d)
    BY <1>1, <2>1, <2>3, <2>6, Disarmed
  <2>8. Interval(d, ch) = NoTick
    BY <1>3, <1>10, <1>11, <2>1, <2>3 DEF Interval, Hz
  <2>9. ChannelStep(c, d, ch)
    BY <1>1, <2>8 DEF ChannelStep
  <2>10. \A f \in EventsOf(d, "tau") : f \in EventsOf(c, "tau")
    BY <1>2, <1>7, <2>4
  <2>11. TauStep(c, d)
    BY <1>1, <1>3, <2>1, <2>3, <2>9, <2>10, OneChannelSteps
  <2> QED BY <2>3, <2>5, <2>7, <2>11 DEF irq
<1>12. CASE Interval(s, ch) # NoTick
  <2> DEFINE at == ExpireNext(s, e)
  <2>1. Interval(c, ch) \in Nat \ {0} /\ c.now \in Nat
    BY <1>1, <1>10, <1>12, IntervalIsTime DEF Chips
  <2>2. PICK k \in Nat : at = e.at + k * Interval(c, ch)
    <3>1. at = FirstAfter(c.now, e.at, Interval(c, ch))
      BY <1>2, <1>10 DEF ExpireNext, UnitsKept
    <3> DEFINE period == Interval(c, ch)
    <3> HIDE DEF period, at
    <3>2. \E k \in Nat : FirstAfter(c.now, e.at, period) = e.at + k * period
      BY <1>1, <2>1, FirstAfterIsOnGrid DEF period
    <3> QED BY <3>1, <3>2 DEF period
  <2>3. at \in Nat
    BY <1>1, <2>1, <2>2, Products
  <2> HIDE DEF at
  <2>4. d = TauExpireAt(ticked, ch, at)
    BY <1>5, <1>12 DEF at
  <2>5. /\ d \in Chips /\ Numbered(d) /\ TauArmed(d) /\ TauOnly(ticked, d)
        /\ d.irq = ticked.irq /\ d.tau.te = ticked.tau.te
        /\ d.tau.tdr = ticked.tau.tdr /\ d.tau.div = ticked.tau.div
        /\ d.tau.expire[ch] # NoEvent
        /\ \A m \in TauChannels \ {ch} : d.tau.expire[m] = ticked.tau.expire[m]
        /\ \A f \in EventsOf(d, "tau") :
               IF f.ch = ch THEN f.at = at ELSE f \in EventsOf(ticked, "tau")
    BY <1>1, <1>3, <1>6, <1>8, <1>9, <2>3, <2>4, ArmTimer
  <2>6. TauOnly(c, d)
    BY <1>8, <2>5 DEF TauOnly, OthersKept
  <2>7. Interval(d, ch) = Interval(c, ch)
    BY <1>3, <1>6, <2>5, <2>6 DEF Interval, Hz, TauOnly
  <2>8. ChannelStep(c, d, ch)
    BY <1>1, <2>2, <2>5, <2>7 DEF ChannelStep
  <2>9. \A f \in EventsOf(d, "tau") : f.ch # ch => f \in EventsOf(c, "tau")
    BY <1>2, <1>7, <2>5
  <2>10. TauStep(c, d)
    BY <1>1, <1>3, <1>6, <2>5, <2>8, <2>9, OneChannelSteps
  <2> QED BY <1>6, <2>5, <2>6, <2>10 DEF irq
<1> QED BY <1>11, <1>12

\* reset_tau: every event of the timers is cancelled, and no other.
LEMMA ResetTimers ==
    ASSUME NEW c \in Chips, Armed(c), NEW d, d = TauReset(c)
    PROVE  /\ d \in Chips /\ Numbered(d) /\ TauArmed(d) /\ TauOnly(c, d)
           /\ d.irq = c.irq /\ TauStep(c, d)
<1> DEFINE t == [TauAt([ch \in TauChannels |-> 0], [ch \in TauChannels |-> 1])
                    EXCEPT !.generation =
                        [ch \in TauChannels |-> NextGeneration(c.tau.generation[ch])]]
           left == {e \in c.pending : \A ch \in TauChannels : e.id # c.tau.expire[ch]}
<1>1. /\ t \in TauUnit /\ t.te = {} /\ \A ch \in TauChannels : t.expire[ch] = NoEvent
  <2>1. \A ch \in TauChannels : NextGeneration(c.tau.generation[ch]) \in Generation
    BY DEF Chips, TauUnit, NextGeneration, Generation, Generations
  <2> DEFINE zeros == [ch \in TauChannels |-> 0]
             ones == [ch \in TauChannels |-> 1]
             full == [ch \in TauChannels |-> 65535]
             none == [ch \in TauChannels |-> NoEvent]
             next == [ch \in TauChannels |-> NextGeneration(c.tau.generation[ch])]
             reset == [tdr |-> zeros, tcr |-> full, div |-> ones, tsr |-> {}, te |-> {},
                       expire |-> none, generation |-> zeros]
  <2>2. t = [reset EXCEPT !.generation = next]
    BY DEF TauAt
  <2>3. /\ zeros \in [TauChannels -> Nat] /\ full \in [TauChannels -> Nat]
        /\ ones \in [TauChannels -> Nat \ {0}] /\ none \in [TauChannels -> Nat]
        /\ \A ch \in TauChannels : none[ch] = NoEvent
    BY DEF NoEvent
  <2>4. next \in [TauChannels -> Generation]
    BY <2>1
  <2> HIDE DEF t, zeros, ones, full, none, next
  <2>5. t = [tdr |-> zeros, tcr |-> full, div |-> ones, tsr |-> {}, te |-> {},
             expire |-> none, generation |-> next]
    BY ONLY <2>2
  <2>6. t \in TauUnit
    BY ONLY <2>3, <2>4, <2>5 DEF TauUnit
  <2> QED BY ONLY <2>3, <2>5, <2>6
<1>2. d = [c EXCEPT !.pending = left, !.tau = t]
  BY DEF TauReset, Chips
<1>3. left \subseteq c.pending
  OBVIOUS
<1>4. \A e \in c.pending : e \in left <=> e.unit # "tau"
  <2>1. ASSUME NEW e \in EventsOf(c, "tau") PROVE e \notin left
    BY DEF Armed, TauArmed, Chips, TauUnit
  <2>2. ASSUME NEW e \in c.pending, e \notin left PROVE e.unit = "tau"
    <3>1. PICK ch \in TauChannels : e.id = c.tau.expire[ch]
      BY <2>2
    <3>2. e.id # NoEvent
      BY EventsAreNumbered DEF Armed
    <3>3. PICK f \in EventsOf(c, "tau") : f.id = e.id
      BY <3>1, <3>2 DEF Armed, TauArmed
    <3> QED BY <3>3 DEF Armed, Numbered, EventsOf
  <2> QED BY <2>1, <2>2 DEF EventsOf
<1> HIDE DEF t, left
<1>5. /\ d \in Chips /\ d.tau = t /\ d.pending = left /\ d.issued = c.issued
      /\ d.now = c.now /\ d.clock = c.clock /\ d.sau = c.sau /\ d.adc = c.adc
      /\ d.gpio = c.gpio /\ d.irq = c.irq
  BY <1>1, <1>2, <1>3 DEF Chips
<1>6. Numbered(d) /\ TauOnly(c, d)
  BY <1>3, <1>4, <1>5 DEF Numbered, Armed, TauOnly, OthersKept, EventsOf
<1>7. EventsOf(d, "tau") = {}
  BY <1>3, <1>4, <1>5 DEF EventsOf
<1>8. TauArmed(d) /\ TauStep(c, d)
  BY <1>1, <1>5, <1>7 DEF TauArmed, TauStep, ChannelStep
<1> QED BY <1>5, <1>6, <1>8

-----------------------------------------------------------------------------
(* The serial unit. *)

\* A byte in the shift register stays there until it is on the line or its channel stops.
SauStep(c, d) ==
    \A ch \in SauChannels :
        c.sau.shift[ch] \notin {NoFrame, d.sau.shift[ch]}
            => ch \notin d.sau.se \/ d.sau.line[ch] = c.sau.shift[ch]

SauOnly(c, d) ==
    /\ d.now = c.now /\ d.clock = c.clock /\ d.tau = c.tau /\ d.adc = c.adc
    /\ d.gpio = c.gpio /\ OthersKept(c, d, "sau")

\* A write that leaves shift registers, ids and events alone.
LEMMA SerialKept ==
    ASSUME NEW c \in Chips, Numbered(c), SauArmed(c), NEW u \in SauUnit,
           u.busy = c.sau.busy, u.txId = c.sau.txId, u.shift = c.sau.shift,
           NEW d, d = [c EXCEPT !.sau = u]
    PROVE  /\ d \in Chips /\ Numbered(d) /\ SauArmed(d) /\ SauOnly(c, d)
           /\ d.irq = c.irq /\ d.sau = u /\ SauStep(c, d)
           /\ d.issued = c.issued /\ d.pending = c.pending
<1>1. /\ d \in Chips /\ d.sau = u /\ d.pending = c.pending /\ d.issued = c.issued
      /\ d.now = c.now /\ d.clock = c.clock /\ d.tau = c.tau /\ d.adc = c.adc
      /\ d.gpio = c.gpio /\ d.irq = c.irq
  BY DEF Chips
<1>2. \A v : EventsOf(d, v) = EventsOf(c, v)
  BY <1>1 DEF EventsOf
<1> QED BY <1>1, <1>2 DEF Numbered, SauArmed, SauOnly, OthersKept, SauStep

\* A unit of which one field is set anew.
LEMMA WithTxId ==
    ASSUME NEW u \in SauUnit, NEW x \in [SauChannels -> Nat], NEW v, v = [u EXCEPT !.txId = x]
    PROVE  /\ v \in SauUnit /\ v.txId = x
           /\ v.busy = u.busy /\ v.shift = u.shift /\ v.sdr = u.sdr /\ v.set = u.set
           /\ v.se = u.se /\ v.soe = u.soe /\ v.bff = u.bff /\ v.line = u.line
  BY DEF SauUnit

LEMMA WithShift ==
    ASSUME NEW u \in SauUnit, NEW x \in [SauChannels -> Frame], NEW v, v = [u EXCEPT !.shift = x]
    PROVE  /\ v \in SauUnit /\ v.shift = x
           /\ v.busy = u.busy /\ v.txId = u.txId /\ v.sdr = u.sdr /\ v.set = u.set
           /\ v.se = u.se /\ v.soe = u.soe /\ v.bff = u.bff /\ v.line = u.line
  BY DEF SauUnit

LEMMA WithBusy ==
    ASSUME NEW u \in SauUnit, NEW x \in SUBSET SauChannels, NEW v, v = [u EXCEPT !.busy = x]
    PROVE  /\ v \in SauUnit /\ v.busy = x
           /\ v.txId = u.txId /\ v.shift = u.shift /\ v.sdr = u.sdr /\ v.set = u.set
           /\ v.se = u.se /\ v.soe = u.soe /\ v.bff = u.bff /\ v.line = u.line
  BY DEF SauUnit

LEMMA WithBff ==
    ASSUME NEW u \in SauUnit, NEW x \in SUBSET SauChannels, NEW v, v = [u EXCEPT !.bff = x]
    PROVE  /\ v \in SauUnit /\ v.bff = x
           /\ v.busy = u.busy /\ v.txId = u.txId /\ v.shift = u.shift /\ v.sdr = u.sdr
           /\ v.set = u.set /\ v.se = u.se /\ v.soe = u.soe /\ v.line = u.line
  BY DEF SauUnit

\* A channel with no transfer under way differs from what it was in its transfer only.
LEMMA EmptiedUnit ==
    ASSUME NEW u \in SauUnit, NEW ch \in SauChannels, NEW v, v = Emptied(u, ch)
    PROVE  /\ v \in SauUnit /\ v.busy = u.busy \ {ch}
           /\ v.txId[ch] = NoEvent /\ v.shift[ch] = NoFrame
           /\ \A k \in SauChannels \ {ch} :
                  v.txId[k] = u.txId[k] /\ v.shift[k] = u.shift[k]
           /\ v.sdr = u.sdr /\ v.set = u.set /\ v.se = u.se
           /\ v.soe = u.soe /\ v.bff = u.bff /\ v.line = u.line
<1> DEFINE numbered == [u EXCEPT !.txId[ch] = NoEvent]
           freed == [numbered EXCEPT !.busy = @ \ {ch}]
           txId == [u.txId EXCEPT ![ch] = NoEvent]
           shift == [freed.shift EXCEPT ![ch] = NoFrame]
<1>1. numbered = [u EXCEPT !.txId = txId] /\ v = [freed EXCEPT !.shift = shift]
  BY DEF Emptied
<1> HIDE DEF numbered, freed
<1>2. /\ txId \in [SauChannels -> Nat] /\ txId[ch] = NoEvent
      /\ \A k \in SauChannels \ {ch} : txId[k] = u.txId[k]
  BY DEF SauUnit, NoEvent
<1> HIDE DEF txId
<1>3. /\ numbered \in SauUnit /\ numbered.txId = txId
      /\ numbered.busy = u.busy /\ numbered.shift = u.shift
      /\ numbered.sdr = u.sdr /\ numbered.set = u.set /\ numbered.se = u.se
      /\ numbered.soe = u.soe /\ numbered.bff = u.bff /\ numbered.line = u.line
  BY ONLY <1>1, <1>2, u \in SauUnit, WithTxId
<1> DEFINE left == numbered.busy \ {ch}
<1>4. freed = [numbered EXCEPT !.busy = left]
  BY DEF freed
<1>5. left \in SUBSET SauChannels /\ left = u.busy \ {ch}
  BY <1>3 DEF SauUnit
<1> HIDE DEF left
<1>6. /\ freed \in SauUnit /\ freed.txId = txId
      /\ freed.busy = u.busy \ {ch} /\ freed.shift = u.shift
      /\ freed.sdr = u.sdr /\ freed.set = u.set /\ freed.se = u.se
      /\ freed.soe = u.soe /\ freed.bff = u.bff /\ freed.line = u.line
  BY ONLY <1>3, <1>4, <1>5, WithBusy
<1>7. /\ shift \in [SauChannels -> Frame] /\ shift[ch] = NoFrame
      /\ \A k \in SauChannels \ {ch} : shift[k] = u.shift[k]
  <2>1. NoFrame \in Frame
    BY SauAssumption DEF NoFrame, Frame, Data, NoTick
  <2> QED BY <1>6, <2>1 DEF SauUnit
<1> HIDE DEF shift
<1>8. /\ v \in SauUnit /\ v.txId = txId /\ v.busy = u.busy \ {ch} /\ v.shift = shift
      /\ v.sdr = u.sdr /\ v.set = u.set /\ v.se = u.se
      /\ v.soe = u.soe /\ v.bff = u.bff /\ v.line = u.line
  BY ONLY <1>1, <1>6, <1>7, WithShift
<1> QED BY ONLY <1>2, <1>7, <1>8

\* A channel that is given a frame to send keeps what it is set to.
LEMMA LoadedUnit ==
    ASSUME NEW u \in SauUnit, NEW ch \in SauChannels, NEW frame \in Frame, NEW id \in Nat,
           NEW v, v = Loaded(u, ch, frame, id)
    PROVE  /\ v \in SauUnit /\ v.busy = u.busy \cup {ch}
           /\ v.txId[ch] = id /\ v.shift[ch] = frame
           /\ \A k \in SauChannels \ {ch} :
                  v.txId[k] = u.txId[k] /\ v.shift[k] = u.shift[k]
           /\ v.se = u.se /\ v.line = u.line
<1> DEFINE shift == [u.shift EXCEPT ![ch] = frame]
           shifting == [u EXCEPT !.shift[ch] = frame]
           emptied == [shifting EXCEPT !.bff = @ \ {ch}]
           busy == [emptied EXCEPT !.busy = @ \cup {ch}]
           txId == [busy.txId EXCEPT ![ch] = id]
<1>1. shifting = [u EXCEPT !.shift = shift] /\ v = [busy EXCEPT !.txId = txId]
  BY DEF Loaded
<1> HIDE DEF shifting, emptied, busy
<1>2. /\ shift \in [SauChannels -> Frame] /\ shift[ch] = frame
      /\ \A k \in SauChannels \ {ch} : shift[k] = u.shift[k]
  BY DEF SauUnit
<1> HIDE DEF shift
<1>3. /\ shifting \in SauUnit /\ shifting.shift = shift /\ shifting.busy = u.busy
      /\ shifting.txId = u.txId /\ shifting.se = u.se /\ shifting.line = u.line
  BY ONLY <1>1, <1>2, u \in SauUnit, WithShift
<1> DEFINE full == shifting.bff \ {ch}
           sending == emptied.busy \cup {ch}
<1>4. emptied = [shifting EXCEPT !.bff = full]
  BY DEF emptied
<1>m. busy = [emptied EXCEPT !.busy = sending]
  BY DEF busy
<1>5. full \in SUBSET SauChannels
  BY <1>3 DEF SauUnit
<1> HIDE DEF full
<1>6. /\ emptied \in SauUnit /\ emptied.shift = shift /\ emptied.busy = u.busy
      /\ emptied.txId = u.txId /\ emptied.se = u.se /\ emptied.line = u.line
  BY ONLY <1>3, <1>4, <1>5, WithBff
<1>7. sending \in SUBSET SauChannels
  BY <1>6 DEF SauUnit
<1>n. sending = u.busy \cup {ch}
  BY <1>6
<1> HIDE DEF sending
<1>8. /\ busy \in SauUnit /\ busy.shift = shift /\ busy.busy = sending
      /\ busy.txId = u.txId /\ busy.se = u.se /\ busy.line = u.line
  BY ONLY <1>m, <1>6, <1>7, WithBusy
<1>9. /\ txId \in [SauChannels -> Nat] /\ txId[ch] = id
      /\ \A k \in SauChannels \ {ch} : txId[k] = u.txId[k]
  BY <1>8 DEF SauUnit
<1> HIDE DEF txId
<1>10. /\ v \in SauUnit /\ v.shift = shift /\ v.busy = sending
       /\ v.txId = txId /\ v.se = u.se /\ v.line = u.line
  BY ONLY <1>1, <1>8, <1>9, WithTxId
<1> QED BY ONLY <1>2, <1>n, <1>9, <1>10

\* What a channel receives leaves its transfer alone.
LEMMA FilledUnit ==
    ASSUME NEW u \in SauUnit, NEW ch \in SauChannels, NEW data \in Data,
           NEW overrun, NEW framing, NEW parity,
           NEW v, v = Filled(u, ch, data, overrun, framing, parity)
    PROVE  v \in SauUnit /\ v.busy = u.busy /\ v.txId = u.txId /\ v.shift = u.shift
<1> DEFINE flag(f, on) == IF on THEN f \cup {ch} ELSE f
           sdr == [u.sdr EXCEPT ![ch] = data]
           ovf == flag(u.ovf, overrun)
           fef == flag(u.fef, framing)
           pef == flag(u.pef, parity)
           bff == u.bff \cup {ch}
<1>1. /\ sdr \in [SauChannels -> Data]
      /\ ovf \in SUBSET SauChannels /\ fef \in SUBSET SauChannels
      /\ pef \in SUBSET SauChannels /\ bff \in SUBSET SauChannels
  BY DEF SauUnit
<1>2. v = [u EXCEPT !.ovf = ovf, !.fef = fef, !.pef = pef, !.sdr = sdr, !.bff = bff]
  BY DEF Filled, SauUnit
<1> HIDE DEF sdr, ovf, fef, pef, bff
<1> DEFINE w == [u EXCEPT !.ovf = ovf, !.fef = fef]
           x == [w EXCEPT !.pef = pef, !.sdr = sdr]
<1>3. v = [x EXCEPT !.bff = bff]
  BY ONLY <1>2
<1>4. w \in SauUnit /\ w.busy = u.busy /\ w.txId = u.txId /\ w.shift = u.shift
  BY <1>1 DEF SauUnit
<1> HIDE DEF w
<1>5. x \in SauUnit /\ x.busy = u.busy /\ x.txId = u.txId /\ x.shift = u.shift
  BY <1>1, <1>4 DEF SauUnit
<1> HIDE DEF x
<1> QED BY ONLY <1>1, <1>3, <1>5, WithBff

\* A frame that is sent is on the line of its channel, which is free again.
LEMMA FreedUnit ==
    ASSUME NEW u \in SauUnit, NEW ch \in SauChannels, u.shift[ch] # NoFrame,
           NEW v, v = Freed(u, ch)
    PROVE  /\ v \in SauUnit /\ v.busy = u.busy \ {ch}
           /\ v.txId[ch] = NoEvent /\ v.shift[ch] = NoFrame
           /\ v.line[ch] = u.shift[ch]
           /\ \A k \in SauChannels \ {ch} :
                  v.txId[k] = u.txId[k] /\ v.shift[k] = u.shift[k]
<1> DEFINE w == Emptied(u, ch)
           line == [w.line EXCEPT ![ch] = u.shift[ch]]
<1>1. /\ w \in SauUnit /\ w.busy = u.busy \ {ch}
      /\ w.txId[ch] = NoEvent /\ w.shift[ch] = NoFrame
      /\ \A k \in SauChannels \ {ch} : w.txId[k] = u.txId[k] /\ w.shift[k] = u.shift[k]
  BY EmptiedUnit
<1>2. v = [w EXCEPT !.line = line]
  BY DEF Freed
<1>3. line \in [SauChannels -> Frame] /\ line[ch] = u.shift[ch]
  <2>1. u.shift[ch] \in Frame
    BY DEF SauUnit
  <2> HIDE DEF w
  <2> QED BY <1>1, <2>1 DEF SauUnit
<1> HIDE DEF w, line
<1>4. v \in SauUnit
  BY ONLY <1>1, <1>2, <1>3 DEF SauUnit
<1>5. v.busy = w.busy /\ v.txId = w.txId /\ v.shift = w.shift /\ v.line = line
  BY <1>1, <1>2 DEF SauUnit
<1> QED BY <1>1, <1>3, <1>4, <1>5

\* cancel_tx: the transfer under way goes with its event.
LEMMA CancelTransfer ==
    ASSUME NEW c \in Chips, Numbered(c), SauArmed(c), NEW ch \in SauChannels,
           NEW d, d = CancelTx(c, ch)
    PROVE  /\ d \in Chips /\ Numbered(d) /\ SauArmed(d) /\ SauOnly(c, d)
           /\ d.irq = c.irq /\ ch \notin d.sau.busy
           /\ d.sau.sdr = c.sau.sdr /\ d.sau.set = c.sau.set /\ d.sau.se = c.sau.se
           /\ d.sau.soe = c.sau.soe /\ d.sau.bff = c.sau.bff /\ d.sau.line = c.sau.line
           /\ \A k \in SauChannels \ {ch} : d.sau.shift[k] = c.sau.shift[k]
<1> DEFINE id == c.sau.txId[ch]
           r == Cancel(c, id)
           u == Emptied(c.sau, ch)
<1>1. /\ r \in Chips /\ Numbered(r) /\ UnitsKept(c, r) /\ OthersKept(c, r, "sau")
      /\ EventsOf(r, "sau") = {e \in EventsOf(c, "sau") : e.id # id}
  <2>1. id \in Nat /\ (id # NoEvent => \E e \in EventsOf(c, "sau") : e.id = id)
    BY DEF SauArmed, Chips, SauUnit
  <2> HIDE DEF id
  <2> QED BY <2>1, CancelTakesOne
<1>3. /\ u \in SauUnit /\ u.busy = c.sau.busy \ {ch}
      /\ u.txId[ch] = NoEvent /\ u.shift[ch] = NoFrame
      /\ \A k \in SauChannels \ {ch} :
             u.txId[k] = c.sau.txId[k] /\ u.shift[k] = c.sau.shift[k]
      /\ u.sdr = c.sau.sdr /\ u.set = c.sau.set /\ u.se = c.sau.se
      /\ u.soe = c.sau.soe /\ u.bff = c.sau.bff /\ u.line = c.sau.line
  <2>1. c.sau \in SauUnit
    BY DEF Chips
  <2> QED BY <2>1, EmptiedUnit
<1>4. d = [r EXCEPT !.sau = u]
  <2>1. r.sau = c.sau
    BY <1>1 DEF UnitsKept
  <2>2. d = [r EXCEPT !.sau = Emptied(@, ch)]
    BY DEF CancelTx
  <2> HIDE DEF r
  <2> QED BY ONLY <2>1, <2>2
<1> HIDE DEF r, u
<1>5. /\ d \in Chips /\ d.sau = u /\ d.pending = r.pending /\ d.issued = r.issued
      /\ d.now = c.now /\ d.clock = c.clock /\ d.tau = c.tau /\ d.adc = c.adc
      /\ d.gpio = c.gpio /\ d.irq = c.irq
  BY <1>1, <1>3, <1>4 DEF Chips, UnitsKept
<1>6. \A v : EventsOf(d, v) = EventsOf(r, v)
  BY <1>5 DEF EventsOf
<1>7. Numbered(d) /\ SauOnly(c, d)
  BY <1>1, <1>5, <1>6 DEF Numbered, SauOnly, OthersKept
<1>8. SauArmed(d)
  <2>1. ASSUME NEW e \in EventsOf(d, "sau") PROVE e.ch \in u.busy /\ u.txId[e.ch] = e.id
    <3>1. e \in EventsOf(c, "sau") /\ e.id # id
      BY <1>1, <1>6
    <3>2. e.ch \in c.sau.busy /\ e.ch \in SauChannels /\ e.ch # ch
      BY <3>1 DEF SauArmed, Chips, SauUnit
    <3> QED BY <1>3, <3>1, <3>2 DEF SauArmed
  <2>2. ASSUME NEW k \in u.busy
        PROVE  u.shift[k] # NoFrame /\ \E e \in EventsOf(d, "sau") : e.id = u.txId[k] /\ e.ch = k
    <3>1. k \in c.sau.busy /\ k \in SauChannels \ {ch}
      BY <1>3, <2>2 DEF Chips, SauUnit
    <3>2. PICK e \in EventsOf(c, "sau") : e.id = c.sau.txId[k] /\ e.ch = k
      BY <3>1 DEF SauArmed
    <3>3. e.id # id
      <4>1. CASE ch \in c.sau.busy
        <5>1. PICK f \in EventsOf(c, "sau") : f.id = id /\ f.ch = ch
          BY <4>1 DEF SauArmed
        <5> QED BY <3>1, <3>2, <5>1 DEF Numbered, EventsOf
      <4>2. CASE ch \notin c.sau.busy
        BY <3>2, <4>2, EventsAreNumbered DEF SauArmed, EventsOf
      <4> QED BY <4>1, <4>2
    <3> QED BY <1>1, <1>3, <1>6, <3>1, <3>2, <3>3 DEF SauArmed
  <2>3. \A k \in SauChannels \ u.busy : u.txId[k] = NoEvent /\ u.shift[k] = NoFrame
    BY <1>3 DEF SauArmed
  <2> QED BY <1>5, <2>1, <2>2, <2>3 DEF SauArmed
<1> QED BY <1>3, <1>5, <1>7, <1>8

\* start_tx: a free channel takes the byte that waits; a busy one keeps its own.
LEMMA StartTransfer ==
    ASSUME NEW c \in Chips, Numbered(c), SauArmed(c), NEW ch \in SauChannels,
           NEW d, d = StartTx(c, ch)
    PROVE  /\ d \in Chips /\ Numbered(d) /\ SauArmed(d) /\ SauOnly(c, d)
           /\ d.irq = c.irq /\ d.sau.line = c.sau.line /\ d.sau.se = c.sau.se
           /\ \A k \in SauChannels : c.sau.shift[k] \in {NoFrame, d.sau.shift[k]}
<1>1. CASE d = c
  BY <1>1 DEF SauOnly, OthersKept
<1>2. CASE CanStartTx(c, ch) /\ FrameTime(c, ch) # NoTick
  <2> DEFINE s == CancelTx(c, ch)
             at == c.now + FrameTime(c, ch)
             r == Schedule(s, at, "sau", ch, 0)
             e == [at |-> at, id |-> s.issued + 1, unit |-> "sau", ch |-> ch,
                   generation |-> 0]
             frame == TxFrame(c, ch)
  <2>1. ch \notin c.sau.busy /\ ch \in Nat
    BY <1>2, SauAssumption DEF CanStartTx
  <2>2. /\ s \in Chips /\ Numbered(s) /\ SauArmed(s) /\ SauOnly(c, s)
        /\ s.irq = c.irq /\ ch \notin s.sau.busy
        /\ s.sau.se = c.sau.se /\ s.sau.line = c.sau.line
        /\ \A k \in SauChannels \ {ch} : s.sau.shift[k] = c.sau.shift[k]
    BY CancelTransfer
  <2>3. /\ FrameTime(c, ch) \in Nat /\ BitTime(c, ch) \in Nat /\ BitTime(c, ch) # NoTick
        /\ at \in Nat
    BY <1>2, FrameIsTime DEF Chips, NoTick
  <2>4. frame \in Frame /\ frame # NoFrame
    <3>1. frame.bitTime # NoTick
      BY <2>3 DEF TxFrame
    <3> QED BY <2>3, <3>1 DEF TxFrame, Frame, NoFrame, Chips, SauUnit, Settings
  <2>5. d = [r EXCEPT !.sau = Loaded(@, ch, frame, r.issued)]
    BY <1>2, <2>2 DEF StartTx, SauOnly
  <2> HIDE DEF s, at, frame
  <2>6. /\ r \in Chips /\ Numbered(r) /\ UnitsKept(s, r) /\ OthersKept(s, r, "sau")
        /\ r.issued \in Nat \ {NoEvent} /\ e.id = r.issued
        /\ EventsOf(r, "sau") = EventsOf(s, "sau") \cup {e}
        /\ \A f \in s.pending : f.id # r.issued
    <3> HIDE DEF r, e
    <3>1. r = Schedule(s, at, "sau", ch, 0)
      BY DEF r
    <3>2. e = [at |-> at, id |-> s.issued + 1, unit |-> "sau", ch |-> ch, generation |-> 0]
      BY DEF e
    <3>3. 0 \in Generation
      BY DEF Generation, Generations
    <3> QED BY <2>1, <2>2, <2>3, <3>1, <3>2, <3>3, ScheduleAddsOne
  <2>7. e.ch = ch
    OBVIOUS
  <2> HIDE DEF r, e
  <2> DEFINE u == Loaded(s.sau, ch, frame, r.issued)
  <2>8. /\ u \in SauUnit /\ u.busy = s.sau.busy \cup {ch}
        /\ u.txId[ch] = r.issued /\ u.shift[ch] = frame
        /\ \A k \in SauChannels \ {ch} :
               u.txId[k] = s.sau.txId[k] /\ u.shift[k] = s.sau.shift[k]
        /\ u.se = c.sau.se /\ u.line = c.sau.line
    <3>1. s.sau \in SauUnit
      BY <2>2 DEF Chips
    <3> QED BY <2>2, <2>4, <2>6, <3>1, LoadedUnit
  <2>9. d = [r EXCEPT !.sau = u]
    <3>1. r.sau = s.sau
      BY <2>6 DEF UnitsKept
    <3> QED BY ONLY <2>5, <3>1
  <2> HIDE DEF u
  <2>10. /\ d \in Chips /\ d.sau = u /\ d.pending = r.pending /\ d.issued = r.issued
         /\ d.now = c.now /\ d.clock = c.clock /\ d.tau = c.tau /\ d.adc = c.adc
         /\ d.gpio = c.gpio /\ d.irq = c.irq
    BY <2>2, <2>6, <2>8, <2>9 DEF Chips, UnitsKept, SauOnly
  <2>11. \A v : EventsOf(d, v) = EventsOf(r, v)
    BY <2>10 DEF EventsOf
  <2>12. Numbered(d) /\ SauOnly(c, d)
    BY <2>2, <2>6, <2>10, <2>11 DEF Numbered, SauOnly, OthersKept
  <2>13. SauArmed(d)
    <3>1. ASSUME NEW f \in EventsOf(d, "sau") PROVE f.ch \in u.busy /\ u.txId[f.ch] = f.id
      <4>1. CASE f = e
        BY <2>6, <2>7, <2>8, <4>1
      <4>2. CASE f # e
        <5>1. f \in EventsOf(s, "sau")
          BY <2>6, <2>11, <4>2
        <5>2. f.ch \in s.sau.busy /\ f.ch \in SauChannels \ {ch}
          BY <2>2, <5>1 DEF SauArmed, Chips, SauUnit
        <5> QED BY <2>2, <2>8, <5>1, <5>2 DEF SauArmed
      <4> QED BY <4>1, <4>2
    <3>2. ASSUME NEW k \in u.busy
          PROVE  u.shift[k] # NoFrame /\ \E f \in EventsOf(d, "sau") : f.id = u.txId[k] /\ f.ch = k
      <4>1. CASE k = ch
        BY <2>4, <2>6, <2>7, <2>8, <2>11, <4>1
      <4>2. CASE k # ch
        <5>1. k \in s.sau.busy /\ k \in SauChannels \ {ch}
          BY <2>2, <2>8, <4>2 DEF Chips, SauUnit
        <5>2. PICK f \in EventsOf(s, "sau") : f.id = s.sau.txId[k] /\ f.ch = k
          BY <2>2, <5>1 DEF SauArmed
        <5> QED BY <2>2, <2>6, <2>8, <2>11, <5>1, <5>2 DEF SauArmed
      <4> QED BY <4>1, <4>2
    <3>3. \A k \in SauChannels \ u.busy : u.txId[k] = NoEvent /\ u.shift[k] = NoFrame
      BY <2>2, <2>8 DEF SauArmed
    <3> QED BY <2>10, <3>1, <3>2, <3>3 DEF SauArmed
  <2>14. \A k \in SauChannels : c.sau.shift[k] \in {NoFrame, d.sau.shift[k]}
    BY <2>1, <2>2, <2>8, <2>10 DEF SauArmed
  <2> QED BY <2>8, <2>10, <2>12, <2>13, <2>14
<1>3. d = c \/ (CanStartTx(c, ch) /\ FrameTime(c, ch) # NoTick)
  BY DEF StartTx
<1> QED BY ONLY <1>1, <1>2, <1>3

\* receive: a frame from outside changes data and flags, never the transfer.
LEMMA ReceiveKeepsTransfer ==
    ASSUME NEW c \in Chips, Numbered(c), SauArmed(c), NEW ch \in SauChannels,
           NEW frame, frame.data \in Data, NEW d, d = Receive(c, ch, frame)
    PROVE  /\ d \in Chips /\ Numbered(d) /\ SauArmed(d) /\ SauOnly(c, d) /\ SauStep(c, d)
           /\ \/ d.irq = c.irq
              \/ \E line : d.irq = Raised(c.irq, line)
              \/ \E line, more : d.irq = Raised(Raised(c.irq, line), more)
<1> DEFINE set == c.sau.set[ch]
           overrun == ch \in c.sau.bff
           here == IF Hz(c) = Stopped THEN 0 ELSE BitTime(c, ch)
           framing == frame.bitTime # here \/ frame.shape # set.shape
           parity == frame.parity # set.parity
           error == framing \/ parity \/ overrun
           u == Filled(c.sau, ch, frame.data, overrun, framing, parity)
           taken == [c EXCEPT !.sau = u]
           told == IF error THEN Interrupt(taken, SauErrLine[ch]) ELSE taken
<1>1. c.sau \in SauUnit
  BY DEF Chips
<1>2. /\ u \in SauUnit /\ u.busy = c.sau.busy /\ u.txId = c.sau.txId
      /\ u.shift = c.sau.shift
  <2> HIDE DEF overrun, framing, parity
  <2> QED BY <1>1, FilledUnit
<1>3. d = IF ~ CanRx(c, ch) THEN c
          ELSE IF error /\ set.eoc THEN told ELSE Interrupt(told, SauLine[ch])
  BY DEF Receive
<1> HIDE DEF u, error
<1>4. /\ taken \in Chips /\ Numbered(taken) /\ SauArmed(taken) /\ SauOnly(c, taken)
      /\ taken.irq = c.irq /\ taken.sau = u /\ SauStep(c, taken)
  BY <1>2, SerialKept
<1> HIDE DEF taken
<1>5. CASE d = c
  BY <1>5 DEF SauOnly, OthersKept, SauStep
<1>6. ASSUME NEW irq \in Controller, d = [taken EXCEPT !.irq = irq]
      PROVE  /\ d \in Chips /\ Numbered(d) /\ SauArmed(d) /\ SauOnly(c, d) /\ SauStep(c, d)
             /\ d.irq = irq
  <2>1. /\ d \in Chips /\ d.irq = irq /\ d.pending = taken.pending /\ d.issued = taken.issued
        /\ d.now = taken.now /\ d.clock = taken.clock /\ d.tau = taken.tau
        /\ d.adc = taken.adc /\ d.gpio = taken.gpio /\ d.sau = taken.sau
    BY <1>4, <1>6 DEF Chips
  <2>2. \A v : EventsOf(d, v) = EventsOf(taken, v)
    BY <2>1 DEF EventsOf
  <2> QED BY <1>4, <2>1, <2>2 DEF Numbered, SauArmed, SauOnly, OthersKept, SauStep
<1>7. CASE d = told /\ told = taken
  BY <1>4, <1>7
<1>8. \A x \in Controller : \A line : Raised(x, line) \in Controller
  BY RaisedIsOffered DEF OfferedBy
<1>9. c.irq \in Controller
  BY DEF Chips
<1>10. CASE d = Interrupt(taken, SauErrLine[ch]) \/ d = Interrupt(taken, SauLine[ch])
  <2>1. PICK line : d = Interrupt(taken, line)
    BY <1>10
  <2>2. d = [taken EXCEPT !.irq = Raised(c.irq, line)]
    BY <1>4, <2>1 DEF Interrupt, Chips
  <2>3. Raised(c.irq, line) \in Controller
    BY <1>8, <1>9
  <2> QED BY <1>6, <2>2, <2>3
<1>11. CASE d = Interrupt(Interrupt(taken, SauErrLine[ch]), SauLine[ch])
  <2> DEFINE irq == Raised(Raised(c.irq, SauErrLine[ch]), SauLine[ch])
  <2>1. d = [taken EXCEPT !.irq = irq]
    BY <1>4, <1>11 DEF Interrupt, Chips
  <2>2. irq \in Controller
    BY <1>8, <1>9
  <2>3. /\ d \in Chips /\ Numbered(d) /\ SauArmed(d) /\ SauOnly(c, d) /\ SauStep(c, d)
        /\ d.irq = irq
    <3> HIDE DEF irq
    <3> QED BY <1>6, <2>1, <2>2
  <2> QED BY <2>3
<1>12. \/ d = c \/ (d = told /\ told = taken)
       \/ d = Interrupt(taken, SauErrLine[ch]) \/ d = Interrupt(taken, SauLine[ch])
       \/ d = Interrupt(Interrupt(taken, SauErrLine[ch]), SauLine[ch])
  BY <1>3
<1> QED BY <1>5, <1>7, <1>10, <1>11, <1>12

\* The registers of the control window, but for the stop trigger.
LEMMA ControlsKeepTransfer ==
    ASSUME NEW c \in Chips, Numbered(c), SauArmed(c), NEW ch \in SauChannels,
           NEW d, d \in {[c EXCEPT !.sau.se = @ \cup {ch}], ClearErrors(c, ch),
                         [c EXCEPT !.sau.soe = @ \cup {ch}], [c EXCEPT !.sau.soe = @ \ {ch}],
                         ReadSdr(c, ch)}
                  \/ \E set \in Settings : d = [c EXCEPT !.sau.set[ch] = set]
    PROVE  /\ d \in Chips /\ Numbered(d) /\ SauArmed(d) /\ SauOnly(c, d)
           /\ d.irq = c.irq /\ SauStep(c, d)
<1>1. c.sau \in SauUnit /\ c.sau.set[ch] \in Settings
  BY DEF Chips, SauUnit
<1> DEFINE Fits(u) == /\ u \in SauUnit /\ d = [c EXCEPT !.sau = u]
                      /\ u.busy = c.sau.busy /\ u.txId = c.sau.txId /\ u.shift = c.sau.shift
<1>2. ASSUME NEW u, Fits(u)
      PROVE  /\ d \in Chips /\ Numbered(d) /\ SauArmed(d) /\ SauOnly(c, d)
             /\ d.irq = c.irq /\ SauStep(c, d)
  BY <1>2, SerialKept
<1>3. CASE d = [c EXCEPT !.sau.se = @ \cup {ch}]
  <2>1. Fits([c.sau EXCEPT !.se = @ \cup {ch}])
    BY <1>1, <1>3 DEF SauUnit, Chips
  <2> QED BY <1>2, <2>1
<1>4. CASE d = [c EXCEPT !.sau.soe = @ \cup {ch}] \/ d = [c EXCEPT !.sau.soe = @ \ {ch}]
  <2>1. PICK on \in SUBSET SauChannels : d = [c EXCEPT !.sau.soe = on]
    BY <1>1, <1>4 DEF SauUnit, Chips
  <2>2. Fits([c.sau EXCEPT !.soe = on])
    BY <1>1, <2>1 DEF SauUnit, Chips
  <2> QED BY <1>2, <2>2
<1>5. CASE d = ClearErrors(c, ch)
  <2> DEFINE u == [c.sau EXCEPT !.fef = @ \ {ch}, !.pef = @ \ {ch}, !.ovf = @ \ {ch}]
  <2>1. u \in SauUnit /\ u.busy = c.sau.busy /\ u.txId = c.sau.txId /\ u.shift = c.sau.shift
    BY ONLY <1>1 DEF SauUnit
  <2>2. d = [c EXCEPT !.sau = u]
    BY <1>1, <1>5 DEF ClearErrors, Chips, SauUnit
  <2>3. Fits(u)
    BY <2>1, <2>2
  <2> HIDE DEF u, Fits
  <2> QED BY <1>2, <2>3
<1>6. ASSUME NEW set \in Settings, d = [c EXCEPT !.sau.set[ch] = set]
      PROVE  \E u : Fits(u)
  <2> DEFINE u == [c.sau EXCEPT !.set = [c.sau.set EXCEPT ![ch] = set]]
  <2>1. [c.sau.set EXCEPT ![ch] = set] \in [SauChannels -> Settings]
    BY <1>1 DEF SauUnit
  <2>2. u \in SauUnit /\ u.busy = c.sau.busy /\ u.txId = c.sau.txId /\ u.shift = c.sau.shift
    BY <1>1, <2>1 DEF SauUnit
  <2>3. d = [c EXCEPT !.sau = u]
    BY <1>1, <1>6 DEF Chips, SauUnit
  <2>4. Fits(u)
    BY <2>2, <2>3
  <2> QED BY <2>4
<1>8. CASE d = ReadSdr(c, ch)
  <2>1. PICK full \in SUBSET SauChannels : d = [c EXCEPT !.sau.bff = full]
    BY <1>1, <1>8 DEF ReadSdr, SauUnit, Chips
  <2>2. Fits([c.sau EXCEPT !.bff = full])
    BY <1>1, <2>1 DEF SauUnit, Chips
  <2> QED BY <1>2, <2>2
<1> QED
  <2>1. CASE \E set \in Settings : d = [c EXCEPT !.sau.set[ch] = set]
    BY <1>2, <1>6, <2>1
  <2> HIDE DEF Fits
  <2> QED BY <1>3, <1>4, <1>5, <1>8, <2>1

\* SPS.
LEMMA BaudsKeepTransfer ==
    ASSUME NEW c \in Chips, Numbered(c), SauArmed(c),
           NEW bauds \in [SauChannels -> DOMAIN BitCycles], NEW d, d = WithBauds(c, bauds)
    PROVE  /\ d \in Chips /\ Numbered(d) /\ SauArmed(d) /\ SauOnly(c, d)
           /\ d.irq = c.irq /\ SauStep(c, d)
<1> DEFINE set == [k \in SauChannels |-> [c.sau.set[k] EXCEPT !.baud = bauds[k]]]
           u == [c.sau EXCEPT !.set = set]
<1>1. c.sau \in SauUnit
  BY DEF Chips
<1>2. set \in [SauChannels -> Settings]
  BY <1>1 DEF SauUnit, Settings
<1>3. d = [c EXCEPT !.sau = u]
  BY <1>1 DEF WithBauds, Chips, SauUnit
<1> HIDE DEF set
<1>4. u \in SauUnit /\ u.busy = c.sau.busy /\ u.txId = c.sau.txId /\ u.shift = c.sau.shift
  BY <1>1, <1>2 DEF SauUnit
<1> HIDE DEF u
<1> QED BY <1>3, <1>4, SerialKept

\* The stop trigger gives the byte in the shift register up.
LEMMA StopTransfer ==
    ASSUME NEW c \in Chips, Numbered(c), SauArmed(c), NEW ch \in SauChannels,
           NEW d, d = StopSerial(c, ch)
    PROVE  /\ d \in Chips /\ Numbered(d) /\ SauArmed(d) /\ SauOnly(c, d)
           /\ d.irq = c.irq /\ SauStep(c, d)
<1> DEFINE u == [c.sau EXCEPT !.se = @ \ {ch}]
           s == [c EXCEPT !.sau = u]
<1>1. /\ u \in SauUnit /\ u.busy = c.sau.busy /\ u.txId = c.sau.txId
      /\ u.shift = c.sau.shift /\ u.se = c.sau.se \ {ch}
  BY DEF Chips, SauUnit
<1>2. s = [c EXCEPT !.sau.se = @ \ {ch}]
  BY DEF Chips, SauUnit
<1> HIDE DEF u
<1>3. /\ s \in Chips /\ Numbered(s) /\ SauArmed(s) /\ SauOnly(c, s)
      /\ s.irq = c.irq /\ s.sau = u
  BY <1>1, SerialKept
<1> HIDE DEF s
<1>4. d = CancelTx(s, ch)
  BY <1>2 DEF StopSerial
<1>5. /\ d \in Chips /\ Numbered(d) /\ SauArmed(d) /\ SauOnly(s, d) /\ d.irq = s.irq
      /\ d.sau.se = s.sau.se
      /\ \A k \in SauChannels \ {ch} : d.sau.shift[k] = s.sau.shift[k]
  BY ONLY <1>3, <1>4, ch \in SauChannels, CancelTransfer
<1>6. SauOnly(c, d)
  BY <1>3, <1>5 DEF SauOnly, OthersKept
<1>7. SauStep(c, d)
  BY <1>1, <1>3, <1>5 DEF SauStep
<1> QED BY <1>3, <1>5, <1>6, <1>7

\* write_sdr: the byte waits, and is taken at once by a free channel.
LEMMA WriteByte ==
    ASSUME NEW c \in Chips, Numbered(c), SauArmed(c), NEW ch \in SauChannels,
           NEW data \in Data, NEW n \in DOMAIN BitCycles,
           NEW d, d = WriteSdr(c, ch, data, n)
    PROVE  /\ d \in Chips /\ Numbered(d) /\ SauArmed(d) /\ SauOnly(c, d)
           /\ d.irq = c.irq /\ SauStep(c, d)
<1> DEFINE u == Given(c.sau, ch, data, n)
           s == [c EXCEPT !.sau = u]
           sdr == [c.sau.sdr EXCEPT ![ch] = data]
           set == [c.sau.set EXCEPT ![ch].baud = n]
<1>1. /\ u \in SauUnit /\ u.busy = c.sau.busy /\ u.txId = c.sau.txId
      /\ u.shift = c.sau.shift /\ u.se = c.sau.se /\ u.line = c.sau.line
  <2>1. c.sau \in SauUnit /\ sdr \in [SauChannels -> Data]
    BY DEF Chips, SauUnit
  <2>2. set \in [SauChannels -> Settings]
    <3>1. c.sau.set \in [SauChannels -> Settings]
      BY <2>1 DEF SauUnit
    <3>2. [c.sau.set[ch] EXCEPT !.baud = n] \in Settings
      BY <3>1 DEF Settings
    <3> QED BY <3>1, <3>2
  <2>3. u = IF ch \in c.sau.se THEN [c.sau EXCEPT !.sdr = sdr, !.bff = @ \cup {ch}]
            ELSE [c.sau EXCEPT !.sdr = sdr, !.set = set]
    BY DEF Given
  <2> HIDE DEF u, sdr, set
  <2>4. CASE ch \in c.sau.se
    BY <2>1, <2>3, <2>4 DEF SauUnit
  <2>5. CASE ch \notin c.sau.se
    BY <2>1, <2>2, <2>3, <2>5 DEF SauUnit
  <2> QED BY <2>4, <2>5
<1>2. d = StartTx(s, ch)
  BY DEF WriteSdr
<1> HIDE DEF u
<1>3. /\ s \in Chips /\ Numbered(s) /\ SauArmed(s) /\ SauOnly(c, s)
      /\ s.irq = c.irq /\ s.sau = u
  BY <1>1, SerialKept
<1> HIDE DEF s
<1>4. /\ d \in Chips /\ Numbered(d) /\ SauArmed(d) /\ SauOnly(s, d) /\ d.irq = s.irq
      /\ \A k \in SauChannels : s.sau.shift[k] \in {NoFrame, d.sau.shift[k]}
  BY ONLY <1>2, <1>3, ch \in SauChannels, StartTransfer
<1>5. SauOnly(c, d)
  BY <1>3, <1>4 DEF SauOnly, OthersKept
<1>6. SauStep(c, d)
  BY <1>1, <1>3, <1>4 DEF SauStep
<1> QED BY <1>3, <1>4, <1>5, <1>6

\* SauTxDone::fire: the frame is on the line before the next byte moves up.
LEMMA FinishTransfer ==
    ASSUME NEW c \in Chips, Numbered(c), SauArmed(c), NEW e \in EventsOf(c, "sau"),
           NEW d, d = TxDone(Popped(c, e), e)
    PROVE  /\ d \in Chips /\ Numbered(d) /\ SauArmed(d) /\ SauOnly(c, d)
           /\ d.irq = Raised(c.irq, SauLine[e.ch]) /\ SauStep(c, d)
<1> DEFINE ch == e.ch
           s == Popped(c, e)
           irq == Raised(c.irq, SauLine[ch])
           frame == c.sau.shift[ch]
           u == Freed(c.sau, ch)
           freed == [s EXCEPT !.sau = u, !.irq = irq]
<1>1. /\ e \in c.pending /\ e.unit = "sau" /\ ch \in c.sau.busy /\ ch \in SauChannels
      /\ c.sau.txId[ch] = e.id /\ frame # NoFrame /\ frame \in Frame
      /\ c.sau \in SauUnit
  BY DEF EventsOf, SauArmed, Chips, SauUnit
<1>2. /\ s \in Chips /\ Numbered(s) /\ UnitsKept(c, s) /\ OthersKept(c, s, "sau")
      /\ EventsOf(s, "sau") = EventsOf(c, "sau") \ {e}
  <2>1. s = Popped(c, e) /\ e \in c.pending /\ e.unit = "sau"
    BY <1>1
  <2> HIDE DEF s
  <2> QED BY <2>1, PoppedTakesOne
<1>3. irq \in Controller
  BY RaisedIsOffered DEF Chips, OfferedBy
<1>4. /\ u \in SauUnit /\ u.busy = c.sau.busy \ {ch}
      /\ u.txId[ch] = NoEvent /\ u.shift[ch] = NoFrame /\ u.line[ch] = frame
      /\ \A k \in SauChannels \ {ch} :
             u.txId[k] = c.sau.txId[k] /\ u.shift[k] = c.sau.shift[k]
  <2>1. c.sau \in SauUnit /\ c.sau.shift[ch] # NoFrame /\ ch \in SauChannels
    BY <1>1
  <2> QED BY <2>1, FreedUnit
<1>5. d = StartTx(freed, ch)
  <2>1. s.sau = c.sau /\ s.irq = c.irq
    BY <1>2 DEF UnitsKept
  <2> DEFINE v == [s EXCEPT !.sau = Freed(@, ch)]
  <2>2. v = [s EXCEPT !.sau = u]
    <3> HIDE DEF s
    <3> QED BY ONLY <2>1
  <2>3. d = StartTx(Interrupt(v, SauLine[ch]), ch)
    BY DEF TxDone
  <2>4. freed = Interrupt(v, SauLine[ch])
    <3> HIDE DEF s, v, u
    <3> QED BY <1>2, <2>1, <2>2 DEF Interrupt, Chips
  <2> QED BY <2>3, <2>4
<1> HIDE DEF u, irq, s
<1>6. /\ freed \in Chips /\ freed.sau = u /\ freed.irq = irq /\ freed.pending = s.pending
      /\ freed.issued = s.issued /\ freed.now = c.now /\ freed.clock = c.clock
      /\ freed.tau = c.tau /\ freed.adc = c.adc /\ freed.gpio = c.gpio
  BY <1>2, <1>3, <1>4 DEF Chips, UnitsKept
<1> HIDE DEF freed
<1>7. \A v : EventsOf(freed, v) = EventsOf(s, v)
  BY <1>6 DEF EventsOf
<1>8. Numbered(freed) /\ SauOnly(c, freed)
  BY <1>2, <1>6, <1>7 DEF Numbered, SauOnly, OthersKept
<1>9. SauArmed(freed)
  <2>1. ASSUME NEW f \in EventsOf(freed, "sau") PROVE f.ch \in u.busy /\ u.txId[f.ch] = f.id
    <3>1. f \in EventsOf(c, "sau") /\ f # e
      BY <1>2, <1>7
    <3>2. f.ch # ch /\ f.ch \in c.sau.busy /\ f.ch \in SauChannels
      BY <1>1, <3>1 DEF SauArmed, Numbered, EventsOf, SauUnit
    <3> QED BY <1>4, <3>1, <3>2 DEF SauArmed
  <2>2. ASSUME NEW k \in u.busy
        PROVE  u.shift[k] # NoFrame /\ \E f \in EventsOf(freed, "sau") : f.id = u.txId[k] /\ f.ch = k
    <3>1. k \in c.sau.busy /\ k \in SauChannels \ {ch}
      BY <1>1, <1>4, <2>2 DEF SauUnit
    <3>2. PICK f \in EventsOf(c, "sau") : f.id = c.sau.txId[k] /\ f.ch = k
      BY <3>1 DEF SauArmed
    <3> QED BY <1>2, <1>4, <1>7, <3>1, <3>2 DEF SauArmed
  <2>3. \A k \in SauChannels \ u.busy : u.txId[k] = NoEvent /\ u.shift[k] = NoFrame
    BY <1>4 DEF SauArmed
  <2> QED BY <1>6, <2>1, <2>2, <2>3 DEF SauArmed
<1>10. /\ d \in Chips /\ Numbered(d) /\ SauArmed(d) /\ SauOnly(freed, d) /\ d.irq = irq
       /\ d.sau.line = freed.sau.line
       /\ \A k \in SauChannels : freed.sau.shift[k] \in {NoFrame, d.sau.shift[k]}
  <2>1. ch \in SauChannels
    BY <1>1
  <2> HIDE DEF freed, ch
  <2> QED BY ONLY <1>5, <1>6, <1>8, <1>9, <2>1, StartTransfer
<1>11. SauOnly(c, d)
  BY <1>8, <1>10 DEF SauOnly, OthersKept
<1>12. SauStep(c, d)
  BY <1>4, <1>6, <1>10 DEF SauStep
<1> QED BY <1>10, <1>11, <1>12 DEF irq

\* reset_sau: every transfer and its event are given up; the line keeps its level.
LEMMA ResetSerial ==
    ASSUME NEW c \in Chips, Numbered(c), SauArmed(c), NEW d, d = SauReset(c)
    PROVE  /\ d \in Chips /\ Numbered(d) /\ SauArmed(d) /\ SauOnly(c, d)
           /\ d.irq = c.irq /\ SauStep(c, d)
<1> DEFINE set == [ch \in SauChannels |-> ResetSettings]
           none == [ch \in SauChannels |-> NoEvent]
           zeros == [ch \in SauChannels |-> 0]
           free == [ch \in SauChannels |-> NoFrame]
           u == [SauAt(set, {}, {}) EXCEPT !.line = c.sau.line]
           left == {e \in c.pending : \A ch \in SauChannels : e.id # c.sau.txId[ch]}
<1>1. /\ u \in SauUnit /\ u.se = {} /\ u.busy = {}
      /\ \A ch \in SauChannels : u.txId[ch] = NoEvent /\ u.shift[ch] = NoFrame
  <2>1. /\ set \in [SauChannels -> Settings] /\ none \in [SauChannels -> Nat]
        /\ zeros \in [SauChannels -> Data] /\ free \in [SauChannels -> Frame]
        /\ c.sau.line \in [SauChannels -> Frame]
    <3>1. ResetSettings \in Settings /\ NoFrame \in Frame /\ NoEvent \in Nat /\ 0 \in Data
      BY SauAssumption DEF ResetSettings, Settings, NoFrame, Frame, Data, NoTick, NoEvent
    <3>2. c.sau.line \in [SauChannels -> Frame]
      BY DEF Chips, SauUnit
    <3> QED BY <3>1, <3>2
  <2> DEFINE reset == [sdr |-> zeros, set |-> set, se |-> {}, soe |-> {}, busy |-> {},
                       bff |-> {}, fef |-> {}, pef |-> {}, ovf |-> {}, txId |-> none,
                       shift |-> free, line |-> free]
  <2>4. u = [reset EXCEPT !.line = c.sau.line]
    BY DEF SauAt
  <2>3. \A ch \in SauChannels : none[ch] = NoEvent /\ free[ch] = NoFrame
    OBVIOUS
  <2> HIDE DEF u, set, none, zeros, free
  <2>5. u = [sdr |-> zeros, set |-> set, se |-> {}, soe |-> {}, busy |-> {}, bff |-> {},
             fef |-> {}, pef |-> {}, ovf |-> {}, txId |-> none, shift |-> free,
             line |-> c.sau.line]
    BY ONLY <2>4
  <2>6. u \in SauUnit
    BY ONLY <2>1, <2>5 DEF SauUnit
  <2> QED BY ONLY <2>3, <2>5, <2>6
<1>2. d = [c EXCEPT !.pending = left, !.sau = u]
  BY DEF SauReset, Chips
<1>3. left \subseteq c.pending
  OBVIOUS
<1>4. \A e \in c.pending : e \in left <=> e.unit # "sau"
  <2>1. ASSUME NEW e \in EventsOf(c, "sau") PROVE e \notin left
    BY DEF SauArmed, Chips, SauUnit
  <2>2. ASSUME NEW e \in c.pending, e \notin left PROVE e.unit = "sau"
    <3>1. PICK ch \in SauChannels : e.id = c.sau.txId[ch]
      BY <2>2
    <3>2. e.id # NoEvent
      BY EventsAreNumbered
    <3>3. PICK f \in EventsOf(c, "sau") : f.id = e.id
      BY <3>1, <3>2 DEF SauArmed
    <3> QED BY <3>3 DEF Numbered, EventsOf
  <2> QED BY <2>1, <2>2 DEF EventsOf
<1> HIDE DEF u, left
<1>5. /\ d \in Chips /\ d.sau = u /\ d.pending = left /\ d.issued = c.issued
      /\ d.now = c.now /\ d.clock = c.clock /\ d.tau = c.tau /\ d.adc = c.adc
      /\ d.gpio = c.gpio /\ d.irq = c.irq
  BY <1>1, <1>2, <1>3 DEF Chips
<1>6. Numbered(d) /\ SauOnly(c, d)
  BY <1>3, <1>4, <1>5 DEF Numbered, SauOnly, OthersKept, EventsOf
<1>7. EventsOf(d, "sau") = {}
  BY <1>3, <1>4, <1>5 DEF EventsOf
<1>8. SauArmed(d) /\ SauStep(c, d)
  BY <1>1, <1>5, <1>7 DEF SauArmed, SauStep
<1> QED BY <1>5, <1>6, <1>8

-----------------------------------------------------------------------------
(* The converter. *)

AdcOnly(c, d) ==
    /\ d.now = c.now /\ d.clock = c.clock /\ d.tau = c.tau /\ d.sau = c.sau
    /\ d.gpio = c.gpio /\ OthersKept(c, d, "adc")

\* The converter and its event know each other, whether it is to run on or not.
AdcHeld(c) ==
    /\ \A e \in EventsOf(c, "adc") : c.adc.expire = e.id
    /\ c.adc.expire # NoEvent => \E e \in EventsOf(c, "adc") : e.id = c.adc.expire

\* A write to the converter's own registers.
LEMMA ConverterWith ==
    ASSUME NEW c \in Chips, Numbered(c), NEW a \in AdcUnit, NEW d, d = [c EXCEPT !.adc = a]
    PROVE  /\ d \in Chips /\ Numbered(d) /\ AdcOnly(c, d) /\ d.irq = c.irq
           /\ d.adc = a /\ EventsOf(d, "adc") = EventsOf(c, "adc")
<1>1. /\ d \in Chips /\ d.adc = a /\ d.pending = c.pending /\ d.issued = c.issued
      /\ d.now = c.now /\ d.clock = c.clock /\ d.tau = c.tau /\ d.sau = c.sau
      /\ d.gpio = c.gpio /\ d.irq = c.irq
  BY DEF Chips
<1> QED BY <1>1 DEF Numbered, AdcOnly, OthersKept, EventsOf

\* cancel_pending leaves the converter without an event.
LEMMA CancelConversion ==
    ASSUME NEW c \in Chips, Numbered(c), AdcHeld(c), NEW d, d = CancelPending(c)
    PROVE  /\ d \in Chips /\ Numbered(d) /\ AdcOnly(c, d) /\ d.irq = c.irq
           /\ EventsOf(d, "adc") = {} /\ d.adc.expire = NoEvent
           /\ d.adc.running = c.adc.running /\ d.adc.volts = c.adc.volts
<1> DEFINE id == c.adc.expire
           r == Cancel(c, id)
           a == Withdrawn(c.adc)
<1>1. /\ r \in Chips /\ Numbered(r) /\ UnitsKept(c, r) /\ OthersKept(c, r, "adc")
      /\ EventsOf(r, "adc") = {e \in EventsOf(c, "adc") : e.id # id}
  <2>1. id \in Nat /\ (id # NoEvent => \E e \in EventsOf(c, "adc") : e.id = id)
    BY DEF AdcHeld, Chips, AdcUnit
  <2> HIDE DEF id
  <2> QED BY <2>1, CancelTakesOne
<1>2. /\ a \in AdcUnit /\ a.expire = NoEvent
      /\ a.running = c.adc.running /\ a.volts = c.adc.volts
  <2>1. NextGeneration(c.adc.generation) \in Generation /\ c.adc \in AdcUnit /\ NoEvent \in Nat
    BY DEF Chips, AdcUnit, NextGeneration, Generation, Generations, NoEvent
  <2> QED BY <2>1 DEF AdcUnit, Withdrawn
<1>3. d = [r EXCEPT !.adc = a]
  <2>1. r.adc = c.adc
    BY <1>1 DEF UnitsKept
  <2>2. d = [r EXCEPT !.adc = Withdrawn(@)]
    BY DEF CancelPending
  <2> HIDE DEF r
  <2> QED BY ONLY <2>1, <2>2
<1> HIDE DEF r, a
<1>4. /\ d \in Chips /\ Numbered(d) /\ AdcOnly(r, d) /\ d.irq = r.irq
      /\ d.adc = a /\ EventsOf(d, "adc") = EventsOf(r, "adc")
  BY <1>1, <1>2, <1>3, ConverterWith
<1>5. AdcOnly(c, d) /\ d.irq = c.irq
  BY <1>1, <1>4 DEF AdcOnly, UnitsKept, OthersKept
<1>6. EventsOf(d, "adc") = {}
  BY <1>1, <1>4 DEF AdcHeld
<1> QED BY <1>2, <1>4, <1>5, <1>6

\* A running converter without an event gets the next.
LEMMA ArmConverter ==
    ASSUME NEW c \in Chips, Numbered(c), EventsOf(c, "adc") = {}, c.adc.running,
           NEW at \in Nat, NEW d, d = CompleteAt(c, at)
    PROVE  /\ d \in Chips /\ Numbered(d) /\ AdcArmed(d) /\ AdcOnly(c, d) /\ d.irq = c.irq
<1> DEFINE r == Schedule(c, at, "adc", 0, c.adc.generation)
           e == [at |-> at, id |-> c.issued + 1, unit |-> "adc", ch |-> 0,
                 generation |-> c.adc.generation]
           a == [c.adc EXCEPT !.expire = r.issued]
<1>1. /\ r \in Chips /\ Numbered(r) /\ UnitsKept(c, r) /\ OthersKept(c, r, "adc")
      /\ r.issued \in Nat \ {NoEvent} /\ e.id = r.issued
      /\ EventsOf(r, "adc") = EventsOf(c, "adc") \cup {e}
  <2> HIDE DEF r, e
  <2>1. r = Schedule(c, at, "adc", 0, c.adc.generation)
    BY DEF r
  <2>2. e = [at |-> at, id |-> c.issued + 1, unit |-> "adc", ch |-> 0,
             generation |-> c.adc.generation]
    BY DEF e
  <2>3. c.adc.generation \in Generation
    BY DEF Chips, AdcUnit
  <2> QED BY <2>1, <2>2, <2>3, ScheduleAddsOne
<1>2. e.generation = c.adc.generation
  OBVIOUS
<1>3. d = [r EXCEPT !.adc.expire = r.issued]
  BY DEF CompleteAt
<1> HIDE DEF r, e
<1>4. /\ a \in AdcUnit /\ a.expire = r.issued /\ a.running /\ a.generation = c.adc.generation
  BY <1>1 DEF Chips, AdcUnit
<1>5. d = [r EXCEPT !.adc = a]
  BY <1>1, <1>3 DEF UnitsKept, Chips, AdcUnit
<1> HIDE DEF a
<1>6. /\ d \in Chips /\ Numbered(d) /\ AdcOnly(r, d) /\ d.irq = r.irq
      /\ d.adc = a /\ EventsOf(d, "adc") = EventsOf(r, "adc")
  BY <1>1, <1>4, <1>5, ConverterWith
<1>7. AdcOnly(c, d) /\ d.irq = c.irq
  BY <1>1, <1>6 DEF AdcOnly, UnitsKept, OthersKept
<1>8. AdcArmed(d)
  BY <1>1, <1>2, <1>4, <1>6 DEF AdcArmed
<1> QED BY <1>6, <1>7, <1>8

\* start_conversion, from whatever was under way.
LEMMA BeginConversion ==
    ASSUME NEW c \in Chips, Numbered(c), AdcHeld(c), c.adc.running,
           NEW d, d = StartConversion(c)
    PROVE  /\ d \in Chips /\ Numbered(d) /\ AdcArmed(d) /\ AdcOnly(c, d) /\ d.irq = c.irq
<1> DEFINE s == CancelPending(c)
           a == AtFirstInput(s.adc)
           r == [s EXCEPT !.adc = a]
<1>1. /\ s \in Chips /\ Numbered(s) /\ AdcOnly(c, s) /\ s.irq = c.irq
      /\ EventsOf(s, "adc") = {} /\ s.adc.expire = NoEvent /\ s.adc.running
  BY CancelConversion
<1> HIDE DEF s
<1>2. a \in AdcUnit /\ a.expire = NoEvent /\ a.running
  <2>1. 0 \in Slots /\ s.adc \in AdcUnit
    BY <1>1 DEF Slots, Chips
  <2>2. a \in AdcUnit
    BY <2>1, ZenonT(20) DEF AdcUnit, AtFirstInput
  <2>3. a.expire = s.adc.expire /\ a.running = s.adc.running
    BY <2>1 DEF AdcUnit, AtFirstInput
  <2> HIDE DEF a
  <2> QED BY <1>1, <2>2, <2>3
<1>3. r = [s EXCEPT !.adc = AtFirstInput(@)]
  OBVIOUS
<1> HIDE DEF a
<1>4. /\ r \in Chips /\ Numbered(r) /\ AdcOnly(s, r) /\ r.irq = s.irq
      /\ r.adc = a /\ EventsOf(r, "adc") = {}
  BY <1>1, <1>2, ConverterWith
<1> HIDE DEF r
<1>5. AdcOnly(c, r) /\ r.irq = c.irq
  BY <1>1, <1>4 DEF AdcOnly, OthersKept
<1>6. d = IF FirstDuration(r) = NoTick THEN r ELSE CompleteAt(r, r.now + FirstDuration(r))
  BY <1>3 DEF StartConversion, s
<1>7. CASE d = r
  BY <1>2, <1>4, <1>5, <1>7 DEF AdcArmed
<1>8. CASE FirstDuration(r) # NoTick
  <2> DEFINE at == r.now + FirstDuration(r)
  <2>1. at \in Nat
    BY <1>4, <1>8, ConversionIsTime DEF Chips
  <2>2. d = CompleteAt(r, at)
    BY <1>6, <1>8
  <2> HIDE DEF at
  <2>3. /\ d \in Chips /\ Numbered(d) /\ AdcArmed(d) /\ AdcOnly(r, d) /\ d.irq = r.irq
    BY <1>2, <1>4, <2>1, <2>2, ArmConverter
  <2>4. AdcOnly(c, d)
    BY <1>5, <2>3 DEF AdcOnly, OthersKept
  <2> QED BY <1>5, <2>3, <2>4
<1> QED BY <1>6, <1>7, <1>8

\* ADM0: the run bit starts over or stops; either way the old event is gone.
LEMMA WriteMode ==
    ASSUME NEW c \in Chips, Numbered(c), AdcHeld(c),
           NEW run \in BOOLEAN, NEW scan \in BOOLEAN, NEW comparator \in BOOLEAN,
           NEW clock \in DOMAIN AdcClocks,
           NEW d, d = WriteAdm0(c, run, scan, comparator, clock)
    PROVE  /\ d \in Chips /\ Numbered(d) /\ AdcArmed(d) /\ AdcOnly(c, d) /\ d.irq = c.irq
<1> DEFINE a == [c.adc EXCEPT !.running = run, !.scan = scan,
                              !.comparator = comparator, !.clock = clock]
           r == [c EXCEPT !.adc = a]
<1>1. a \in AdcUnit
  BY DEF Chips, AdcUnit
<1>2. a.expire = c.adc.expire /\ a.running = run
  BY DEF Chips, AdcUnit
<1>3. r = [c EXCEPT !.adc.running = run, !.adc.scan = scan,
                    !.adc.comparator = comparator, !.adc.clock = clock]
  BY DEF Chips, AdcUnit
<1> HIDE DEF a
<1>4. /\ r \in Chips /\ Numbered(r) /\ AdcOnly(c, r) /\ r.irq = c.irq
      /\ r.adc = a /\ EventsOf(r, "adc") = EventsOf(c, "adc")
  BY <1>1, ConverterWith
<1> HIDE DEF r
<1>5. AdcHeld(r)
  BY <1>2, <1>4 DEF AdcHeld
<1>6. d = IF run THEN StartConversion(r) ELSE CancelPending(r)
  BY <1>3 DEF WriteAdm0
<1>7. /\ d \in Chips /\ Numbered(d) /\ AdcArmed(d) /\ AdcOnly(r, d) /\ d.irq = r.irq
  <2>1. CASE run
    BY <1>2, <1>4, <1>5, <1>6, <2>1, BeginConversion
  <2>2. CASE ~ run
    BY <1>4, <1>5, <1>6, <2>2, CancelConversion DEF AdcArmed
  <2> QED BY <2>1, <2>2
<1> QED BY <1>4, <1>7 DEF AdcOnly, OthersKept

\* A write of the input selection starts a running converter afresh.
LEMMA WriteSource ==
    ASSUME NEW c \in Chips, Numbered(c), AdcArmed(c), NEW source \in Sources,
           NEW d, d = WriteAds(c, source)
    PROVE  /\ d \in Chips /\ Numbered(d) /\ AdcArmed(d) /\ AdcOnly(c, d) /\ d.irq = c.irq
<1> DEFINE a == [c.adc EXCEPT !.source = source]
           r == [c EXCEPT !.adc = a]
<1>1. a \in AdcUnit
  BY DEF Chips, AdcUnit
<1>2. a.expire = c.adc.expire /\ a.running = c.adc.running /\ a.generation = c.adc.generation
  BY DEF Chips, AdcUnit
<1>3. r = [c EXCEPT !.adc.source = source]
  BY DEF Chips, AdcUnit
<1> HIDE DEF a
<1>4. /\ r \in Chips /\ Numbered(r) /\ AdcOnly(c, r) /\ r.irq = c.irq
      /\ r.adc = a /\ EventsOf(r, "adc") = EventsOf(c, "adc")
  BY <1>1, ConverterWith
<1> HIDE DEF r
<1>5. AdcArmed(r) /\ AdcHeld(r)
  BY <1>2, <1>4 DEF AdcArmed, AdcHeld
<1>6. d = IF r.adc.running THEN StartConversion(r) ELSE r
  BY <1>3 DEF WriteAds
<1>7. CASE d = r
  BY <1>4, <1>5, <1>7
<1>8. CASE r.adc.running
  <2>1. d \in Chips /\ Numbered(d) /\ AdcArmed(d) /\ AdcOnly(r, d) /\ d.irq = r.irq
    BY <1>4, <1>5, <1>6, <1>8, BeginConversion
  <2> QED BY <1>4, <2>1 DEF AdcOnly, OthersKept
<1> QED BY <1>6, <1>7, <1>8

\* Everything the guest can write to the converter.
LEMMA WriteConverter ==
    ASSUME NEW c \in Chips, Numbered(c), AdcArmed(c), NEW d \in AdcWrites(c)
    PROVE  /\ d \in Chips /\ Numbered(d) /\ AdcArmed(d) /\ AdcOnly(c, d) /\ d.irq = c.irq
<1>1. AdcHeld(c)
  BY DEF AdcArmed, AdcHeld
<1>2. CASE \E run \in BOOLEAN, scan \in BOOLEAN, m \in BOOLEAN, n \in DOMAIN AdcClocks :
               d = WriteAdm0(c, run, scan, m, n)
  BY <1>1, <1>2, WriteMode
<1>3. CASE \E i \in Sources : d = WriteAds(c, i)
  BY <1>3, WriteSource
<1>4. ASSUME NEW a \in AdcUnit, d = [c EXCEPT !.adc = a], a.expire = c.adc.expire,
             a.running = c.adc.running, a.generation = c.adc.generation
      PROVE  /\ d \in Chips /\ Numbered(d) /\ AdcArmed(d) /\ AdcOnly(c, d) /\ d.irq = c.irq
  <2>1. /\ d \in Chips /\ Numbered(d) /\ AdcOnly(c, d) /\ d.irq = c.irq
        /\ d.adc = a /\ EventsOf(d, "adc") = EventsOf(c, "adc")
    BY <1>4, ConverterWith
  <2> QED BY <1>4, <2>1 DEF AdcArmed
<1>5. ASSUME NEW o \in BOOLEAN, NEW slow \in BOOLEAN, d = WriteAdm1(c, o, slow)
      PROVE  /\ d \in Chips /\ Numbered(d) /\ AdcArmed(d) /\ AdcOnly(c, d) /\ d.irq = c.irq
  <2> DEFINE a == [c.adc EXCEPT !.oneshot = o, !.slow = slow]
  <2>1. a \in AdcUnit
    BY DEF Chips, AdcUnit
  <2>2. /\ a.expire = c.adc.expire /\ a.running = c.adc.running
        /\ a.generation = c.adc.generation /\ d = [c EXCEPT !.adc = a]
    BY <1>5 DEF WriteAdm1, Chips, AdcUnit
  <2> HIDE DEF a
  <2> QED BY <1>4, <2>1, <2>2
<1>6. ASSUME NEW o \in BOOLEAN, NEW b \in Resolutions, d = WriteAdm2(c, o, b)
      PROVE  /\ d \in Chips /\ Numbered(d) /\ AdcArmed(d) /\ AdcOnly(c, d) /\ d.irq = c.irq
  <2> DEFINE a == [c.adc EXCEPT !.inRange = o, !.resolution = b]
  <2>1. a \in AdcUnit
    BY DEF Chips, AdcUnit
  <2>2. /\ a.expire = c.adc.expire /\ a.running = c.adc.running
        /\ a.generation = c.adc.generation /\ d = [c EXCEPT !.adc = a]
    BY <1>6 DEF WriteAdm2, Chips, AdcUnit
  <2> HIDE DEF a
  <2> QED BY <1>4, <2>1, <2>2
<1>7. ASSUME NEW l \in Limits, \/ d = [c EXCEPT !.adc.adul = l]
                               \/ d = [c EXCEPT !.adc.adll = l]
      PROVE  /\ d \in Chips /\ Numbered(d) /\ AdcArmed(d) /\ AdcOnly(c, d) /\ d.irq = c.irq
  <2>0. l \in 0..255
    BY AdcAssumption
  <2>1. PICK a \in {[c.adc EXCEPT !.adul = l], [c.adc EXCEPT !.adll = l]} :
            d = [c EXCEPT !.adc = a]
    BY <1>7 DEF Chips, AdcUnit
  <2>2. a \in AdcUnit
    BY <2>0, <2>1 DEF Chips, AdcUnit
  <2>3. /\ a.expire = c.adc.expire /\ a.running = c.adc.running
        /\ a.generation = c.adc.generation
    BY <2>1 DEF Chips, AdcUnit
  <2> QED BY <1>4, <2>1, <2>2, <2>3
<1>8. \/ \E run \in BOOLEAN, scan \in BOOLEAN, m \in BOOLEAN, n \in DOMAIN AdcClocks :
             d = WriteAdm0(c, run, scan, m, n)
      \/ \E i \in Sources : d = WriteAds(c, i)
      \/ \E o \in BOOLEAN, slow \in BOOLEAN : d = WriteAdm1(c, o, slow)
      \/ \E o \in BOOLEAN, b \in Resolutions : d = WriteAdm2(c, o, b)
      \/ \E l \in Limits : d = [c EXCEPT !.adc.adul = l] \/ d = [c EXCEPT !.adc.adll = l]
  <2>1. d \in AdcModes(c) => \E run \in BOOLEAN, scan \in BOOLEAN, m \in BOOLEAN,
                                 n \in DOMAIN AdcClocks : d = WriteAdm0(c, run, scan, m, n)
    BY DEF AdcModes
  <2>2. d \in AdcRanges(c) => \E o \in BOOLEAN, b \in Resolutions : d = WriteAdm2(c, o, b)
    BY DEF AdcRanges
  <2> QED BY <2>1, <2>2 DEF AdcWrites
<1> QED BY <1>2, <1>3, <1>5, <1>6, <1>7, <1>8

\* The result of a conversion.
LEMMA ResultIsNumber ==
    ASSUME NEW c \in Chips
    PROVE  Result(c) \in Int
<1> DEFINE input == c.adc.source + c.adc.index
           mv == IF input \notin Slots \/ c.adc.volts[input] < 0 THEN 0
                 ELSE c.adc.volts[input]
           scaled(scale) == Least((mv * scale) \div RefMilliVolt, scale - 1)
<1>1. mv \in Int
  <2>1. \A i \in Slots : c.adc.volts[i] \in Int
    BY AdcAssumption DEF Chips, AdcUnit
  <2> QED BY <2>1
<1>2. c.adc.resolution \in {8, 10, 12}
  BY DEF Chips, AdcUnit, Resolutions
<1>3. Result(c) = CASE c.adc.resolution = 8  -> scaled(256) * 256
                    [] c.adc.resolution = 10 -> scaled(1024) * 64
                    [] c.adc.resolution = 12 -> scaled(4096)
  BY DEF Result
<1> HIDE DEF mv
<1>4. \A n \in {256, 1024, 4096} : scaled(n) \in Int
  BY <1>1 DEF Least, RefMilliVolt
<1> HIDE DEF scaled
<1>5. scaled(256) \in Int /\ scaled(1024) \in Int /\ scaled(4096) \in Int
  BY <1>4
<1> QED BY <1>2, <1>3, <1>5

\* AdcComplete::fire.  The event is never stale: it left the queue with the converter
\* running.
LEMMA FinishConversion ==
    ASSUME NEW c \in Chips, Numbered(c), AdcArmed(c), NEW e \in EventsOf(c, "adc"),
           NEW d, d = Complete(Popped(c, e), e)
    PROVE  /\ d \in Chips /\ Numbered(d) /\ AdcArmed(d) /\ AdcOnly(c, d)
           /\ d.irq = c.irq \/ d.irq = Raised(c.irq, INTAD)
<1> DEFINE s == Popped(c, e)
           i == s.adc.index
           result == Result(s)
           valid == InWindow(s, ComparisonBits(s.adc.resolution, result))
           next == IF s.adc.scan THEN (i + 1) % 4 ELSE i
           a == Stored(s.adc, result, valid, next)
           stored == [s EXCEPT !.adc = a]
           told == IF next = 0 /\ (s.adc.hit \/ valid) THEN Interrupt(stored, INTAD) ELSE stored
<1>1. /\ e \in c.pending /\ e.unit = "adc" /\ e.at \in Nat
      /\ c.adc.running /\ c.adc.generation = e.generation /\ c.adc \in AdcUnit
      /\ \A f \in EventsOf(c, "adc") : f = e
  BY DEF EventsOf, AdcArmed, Chips, Event, Numbered
<1>2. /\ s \in Chips /\ Numbered(s) /\ UnitsKept(c, s) /\ OthersKept(c, s, "adc")
      /\ EventsOf(s, "adc") = {} /\ s.adc = c.adc /\ s.irq = c.irq /\ s.adc \in AdcUnit
  <2> HIDE DEF a, stored, told, result, valid, next, i
  <2>1. s = Popped(c, e) /\ e.unit = "adc" /\ e \in c.pending
    BY <1>1
  <2> HIDE DEF s
  <2>2. /\ s \in Chips /\ Numbered(s) /\ UnitsKept(c, s) /\ OthersKept(c, s, "adc")
        /\ EventsOf(s, "adc") = EventsOf(c, "adc") \ {e}
    BY <2>1, PoppedTakesOne
  <2> QED BY <1>1, <2>2 DEF UnitsKept
<1>3. d = IF s.adc.oneshot /\ next = 0 THEN [told EXCEPT !.adc.running = FALSE]
          ELSE IF NextDuration(s) = NoTick THEN told
          ELSE CompleteAt(told, FirstAfter(s.now, e.at, NextDuration(s)))
  <2>1. d = IF s.adc.generation # e.generation \/ ~ s.adc.running
               THEN [s EXCEPT !.adc.expire = NoEvent]
            ELSE IF s.adc.oneshot /\ next = 0 THEN [told EXCEPT !.adc.running = FALSE]
            ELSE IF NextDuration(s) = NoTick THEN told
            ELSE CompleteAt(told, FirstAfter(s.now, e.at, NextDuration(s)))
    <3>1. d = Complete(s, e)
      OBVIOUS
    <3> HIDE DEF s
    <3> QED BY ONLY <3>1 DEF Complete, told, stored, a, next, valid, result, i
  <2> HIDE DEF told, s, next
  <2> QED BY <1>1, <1>2, <2>1
<1>4. a \in AdcUnit /\ a.expire = NoEvent /\ a.running
  <2>1. result \in Int /\ i \in Slots /\ next \in Slots
    <3>1. result \in Int
      BY <1>2, ResultIsNumber
    <3>2. i \in Slots
      BY <1>2 DEF AdcUnit
    <3>3. \A n \in Slots : (n + 1) % 4 \in Slots
      BY DEF Slots
    <3> QED BY <3>1, <3>2, <3>3
  <2> HIDE DEF s, result, valid, next, i
  <2> DEFINE adcr == IF i = 0 THEN result ELSE s.adc.adcr
             slots == [s.adc.slots EXCEPT ![i] = IF valid THEN result ELSE @]
             hit == next # 0 /\ (s.adc.hit \/ valid)
  <2>2. adcr \in Int /\ slots \in [Slots -> Int] /\ hit \in BOOLEAN /\ NoEvent \in Nat
    BY <1>2, <2>1 DEF AdcUnit, NoEvent
  <2>3. a = [s.adc EXCEPT !.expire = NoEvent, !.adcr = adcr, !.slots = slots,
                          !.hit = hit, !.index = next]
    BY <1>2 DEF AdcUnit, Stored, i
  <2> HIDE DEF a, adcr, slots, hit
  <2>4. a \in AdcUnit
    <3> DEFINE b == [s.adc EXCEPT !.expire = NoEvent, !.adcr = adcr]
               b2 == [b EXCEPT !.slots = slots]
               b3 == [b2 EXCEPT !.hit = hit]
    <3>1. b \in AdcUnit
      BY ONLY <1>2, <2>2 DEF AdcUnit
    <3>2. a = [b3 EXCEPT !.index = next]
      BY ONLY <2>3
    <3> HIDE DEF b
    <3>3. b2 \in AdcUnit
      BY ONLY <2>2, <3>1 DEF AdcUnit
    <3> HIDE DEF b2
    <3>4. b3 \in AdcUnit
      BY ONLY <2>2, <3>3 DEF AdcUnit
    <3> HIDE DEF b3
    <3> QED BY ONLY <2>1, <3>2, <3>4 DEF AdcUnit
  <2>5. a.expire = NoEvent /\ a.running = s.adc.running
    BY <1>2, <2>3 DEF AdcUnit
  <2> QED BY <1>1, <1>2, <2>4, <2>5
<1> HIDE DEF a, s, result, valid, next, i
<1>5. /\ stored \in Chips /\ Numbered(stored) /\ AdcOnly(s, stored) /\ stored.irq = s.irq
      /\ stored.adc = a /\ EventsOf(stored, "adc") = {}
  BY <1>2, <1>4, ConverterWith
<1> HIDE DEF stored
<1>6. /\ told \in Chips /\ Numbered(told) /\ AdcOnly(c, told) /\ told.adc = a
      /\ EventsOf(told, "adc") = {}
      /\ told.irq = c.irq \/ told.irq = Raised(c.irq, INTAD)
  <2>1. CASE told = stored
    BY <1>2, <1>5, <2>1 DEF AdcOnly, UnitsKept, OthersKept
  <2>2. CASE told = Interrupt(stored, INTAD)
    <3>1. Raised(stored.irq, INTAD) \in Controller
      BY <1>5, RaisedIsOffered DEF Chips, OfferedBy
    <3>2. told = [stored EXCEPT !.irq = Raised(stored.irq, INTAD)]
      BY <1>5, <2>2 DEF Interrupt, Chips
    <3> HIDE DEF told
    <3>3. /\ told \in Chips /\ told.adc = stored.adc /\ told.pending = stored.pending
          /\ told.issued = stored.issued /\ told.irq = Raised(c.irq, INTAD)
          /\ told.now = stored.now /\ told.clock = stored.clock /\ told.tau = stored.tau
          /\ told.sau = stored.sau /\ told.gpio = stored.gpio
      BY <1>2, <1>5, <3>1, <3>2 DEF Chips
    <3>4. \A u : EventsOf(told, u) = EventsOf(stored, u)
      BY <3>3 DEF EventsOf
    <3>5. Numbered(told)
      BY <1>5, <3>3 DEF Numbered
    <3>6. AdcOnly(c, told)
      BY <1>2, <1>5, <3>3, <3>4 DEF AdcOnly, UnitsKept, OthersKept
    <3> QED BY <1>5, <3>3, <3>4, <3>5, <3>6
  <2> QED BY <2>1, <2>2
<1> HIDE DEF told
<1>7. CASE d = [told EXCEPT !.adc.running = FALSE]
  <2> DEFINE b == [a EXCEPT !.running = FALSE]
  <2>1. b \in AdcUnit /\ b.expire = NoEvent
    <3>1. b \in AdcUnit
      BY <1>4 DEF AdcUnit
    <3>2. b.expire = a.expire
      BY <1>4 DEF AdcUnit
    <3> QED BY <1>4, <3>1, <3>2
  <2>2. d = [told EXCEPT !.adc = b]
    BY <1>4, <1>6, <1>7 DEF Chips, AdcUnit
  <2> HIDE DEF b
  <2>3. /\ d \in Chips /\ Numbered(d) /\ AdcOnly(told, d) /\ d.irq = told.irq
        /\ d.adc = b /\ EventsOf(d, "adc") = {}
    BY <1>6, <2>1, <2>2, ConverterWith
  <2>4. AdcArmed(d)
    BY <2>1, <2>3 DEF AdcArmed
  <2>5. AdcOnly(c, d)
    BY <1>6, <2>3 DEF AdcOnly, OthersKept
  <2> QED BY <1>6, <2>3, <2>4, <2>5
<1>8. CASE d = told
  BY <1>4, <1>6, <1>8 DEF AdcArmed
<1>9. CASE /\ NextDuration(s) # NoTick
           /\ d = CompleteAt(told, FirstAfter(s.now, e.at, NextDuration(s)))
  <2> DEFINE at == FirstAfter(s.now, e.at, NextDuration(s))
  <2>1. at \in Nat
    <3>1. NextDuration(s) \in Nat \ {0} /\ s.now \in Nat
      BY <1>2, <1>9, ConversionIsTime DEF Chips
    <3>2. PICK k \in Nat : at = e.at + k * NextDuration(s)
      BY <1>1, <3>1, FirstAfterIsOnGrid
    <3>3. k * NextDuration(s) \in Nat
      BY <3>1, Products
    <3> HIDE DEF at
    <3> QED BY <1>1, <3>2, <3>3
  <2> HIDE DEF at
  <2>2. d = CompleteAt(told, at)
    BY <1>9 DEF at
  <2>3. d \in Chips /\ Numbered(d) /\ AdcArmed(d) /\ AdcOnly(told, d) /\ d.irq = told.irq
    BY <1>4, <1>6, <2>1, <2>2, ArmConverter
  <2>4. AdcOnly(c, d)
    BY <1>6, <2>3 DEF AdcOnly, OthersKept
  <2> QED BY <1>6, <2>3, <2>4
<1> QED BY <1>3, <1>7, <1>8, <1>9

\* The converter out of reset, its inputs at the levels `volts`.
Rest(volts, oneshot) == AdcAt(FALSE, oneshot, TRUE, 10, 255, 0, volts)

\* The registers before anything is started.
LEMMA ConverterAtRest ==
    ASSUME NEW volts \in [Slots -> Voltages], NEW oneshot \in BOOLEAN
    PROVE  Rest(volts, oneshot) \in AdcUnit /\ Rest(volts, oneshot).expire = NoEvent
<1> DEFINE zeros == [i \in Slots |-> 0]
           a == Rest(volts, oneshot)
<1>1. /\ zeros \in [Slots -> Int] /\ NoEvent \in Nat /\ 0 \in Generation
      /\ 0 \in DOMAIN AdcClocks /\ 0 \in Sources /\ 0 \in Slots /\ 10 \in Resolutions
      /\ 0 \in 0..255 /\ 255 \in 0..255
  BY AdcAssumption DEF NoEvent, Slots, Resolutions, Generation, Generations
<1>2. a = [running |-> FALSE, comparator |-> FALSE, scan |-> FALSE, clock |-> 0,
           slow |-> FALSE, oneshot |-> oneshot, inRange |-> TRUE, resolution |-> 10,
           adul |-> 255, adll |-> 0, adcr |-> 0, slots |-> zeros,
           index |-> 0, hit |-> FALSE, source |-> 0, volts |-> volts,
           expire |-> NoEvent, generation |-> 0]
  BY DEF Rest, AdcAt
<1> HIDE DEF a, zeros
<1>3. a \in AdcUnit
  BY ONLY <1>1, <1>2, volts \in [Slots -> Voltages], oneshot \in BOOLEAN DEF AdcUnit
<1>4. a.expire = NoEvent
  BY ONLY <1>2
<1> QED BY <1>3, <1>4 DEF a

\* restore_reset.
LEMMA ResetConverter ==
    ASSUME NEW c \in Chips, Numbered(c), AdcArmed(c), NEW d, d = AdcReset(c)
    PROVE  /\ d \in Chips /\ Numbered(d) /\ AdcArmed(d) /\ AdcOnly(c, d) /\ d.irq = c.irq
<1> DEFINE r == CancelPending(c)
           a == [AdcAt(FALSE, FALSE, TRUE, 10, 255, 0, c.adc.volts)
                    EXCEPT !.generation = r.adc.generation]
           f == AdcAt(FALSE, FALSE, TRUE, 10, 255, 0, c.adc.volts)
<1>1. /\ r \in Chips /\ Numbered(r) /\ AdcOnly(c, r) /\ r.irq = c.irq
      /\ EventsOf(r, "adc") = {}
  <2>1. AdcHeld(c)
    BY DEF AdcArmed, AdcHeld
  <2> QED BY <2>1, CancelConversion
<1>2. d = [r EXCEPT !.adc = a]
  BY DEF AdcReset
<1> HIDE DEF r
<1>3. a \in AdcUnit /\ a.expire = NoEvent
  <2>1. r.adc.generation \in Generation /\ c.adc.volts \in [Slots -> Voltages]
    BY <1>1 DEF Chips, AdcUnit
  <2>2. f \in AdcUnit /\ f.expire = NoEvent
    <3> DEFINE volts == c.adc.volts
    <3>1. volts \in [Slots -> Voltages] /\ FALSE \in BOOLEAN
      BY ONLY <2>1
    <3> HIDE DEF volts
    <3>2. Rest(volts, FALSE) \in AdcUnit /\ Rest(volts, FALSE).expire = NoEvent
      BY ONLY <3>1, ConverterAtRest
    <3> QED BY ONLY <3>2 DEF f, volts, Rest
  <2>3. a = [f EXCEPT !.generation = r.adc.generation]
    OBVIOUS
  <2> HIDE DEF f, a
  <2>4. a \in AdcUnit
    BY ONLY <2>1, <2>2, <2>3 DEF AdcUnit
  <2>5. a.expire = f.expire
    BY ONLY <2>2, <2>3 DEF AdcUnit
  <2> QED BY ONLY <2>2, <2>4, <2>5
<1> HIDE DEF a
<1>4. /\ d \in Chips /\ Numbered(d) /\ AdcOnly(r, d) /\ d.irq = r.irq
      /\ d.adc = a /\ EventsOf(d, "adc") = {}
  BY <1>1, <1>2, <1>3, ConverterWith
<1>5. AdcArmed(d)
  BY <1>3, <1>4 DEF AdcArmed
<1> QED BY <1>1, <1>4, <1>5 DEF AdcOnly, OthersKept

-----------------------------------------------------------------------------
(* The chip as a whole. *)

\* What every call leaves behind: units and queue agree, the right request is
\* offered, no timer leaves its grid and no shift register is lost.
Moves(c, d) ==
    /\ d \in Chips /\ Armed(d) /\ Offered(d) /\ d.now = c.now
    /\ TauStep(c, d) /\ SauStep(c, d)

\* A timer call leaves the events of the serial channels and of the converter alone.
LEMMA TimersAlone ==
    ASSUME NEW c \in Chips, Armed(c), NEW d \in Chips, Numbered(d), TauArmed(d),
           TauOnly(c, d), TauStep(c, d), OfferedBy(d.irq)
    PROVE  Moves(c, d)
<1>1. /\ EventsOf(d, "sau") = EventsOf(c, "sau") /\ EventsOf(d, "adc") = EventsOf(c, "adc")
      /\ d.sau = c.sau /\ d.adc = c.adc /\ d.now = c.now
  BY DEF TauOnly, OthersKept
<1>2. SauArmed(d) /\ AdcArmed(d)
  BY <1>1 DEF Armed, SauArmed, AdcArmed
<1>3. SauStep(c, d)
  BY <1>1 DEF SauStep
<1> QED BY <1>1, <1>2, <1>3 DEF Moves, Armed, Offered, OfferedBy

\* A serial call leaves those of the timers and of the converter alone.
LEMMA SerialAlone ==
    ASSUME NEW c \in Chips, Armed(c), NEW d \in Chips, Numbered(d), SauArmed(d),
           SauOnly(c, d), SauStep(c, d), OfferedBy(d.irq)
    PROVE  Moves(c, d)
<1>1. /\ EventsOf(d, "tau") = EventsOf(c, "tau") /\ EventsOf(d, "adc") = EventsOf(c, "adc")
      /\ d.tau = c.tau /\ d.adc = c.adc /\ d.now = c.now
  BY DEF SauOnly, OthersKept
<1>2. TauArmed(d) /\ TauStep(c, d)
  BY <1>1, TimersCountOn DEF Armed
<1>3. AdcArmed(d)
  BY <1>1 DEF Armed, AdcArmed
<1> QED BY <1>1, <1>2, <1>3 DEF Moves, Armed, Offered, OfferedBy

\* A call that touches neither timers nor serial channels, nor their events.
LEMMA TransfersAlone ==
    ASSUME NEW c \in Chips, Armed(c), NEW d \in Chips, Numbered(d), AdcArmed(d),
           d.tau = c.tau, d.sau = c.sau, d.now = c.now,
           EventsOf(d, "tau") = EventsOf(c, "tau"), EventsOf(d, "sau") = EventsOf(c, "sau"),
           OfferedBy(d.irq)
    PROVE  Moves(c, d)
<1>1. TauArmed(d) /\ TauStep(c, d)
  BY TimersCountOn DEF Armed
<1>2. SauArmed(d)
  BY DEF Armed, SauArmed
<1>3. SauStep(c, d)
  BY DEF SauStep
<1> QED BY <1>1, <1>2, <1>3 DEF Moves, Armed, Offered, OfferedBy

\* A call on the converter.
LEMMA ConverterAlone ==
    ASSUME NEW c \in Chips, Armed(c), NEW d \in Chips, Numbered(d), AdcArmed(d),
           AdcOnly(c, d), OfferedBy(d.irq)
    PROVE  Moves(c, d)
BY TransfersAlone DEF AdcOnly, OthersKept

\* A call that changes the queue no more than by an event of another kind.
LEMMA UnitsAlone ==
    ASSUME NEW c \in Chips, Armed(c), NEW d \in Chips, Numbered(d),
           d.tau = c.tau, d.sau = c.sau, d.adc = c.adc, d.now = c.now,
           OthersKept(c, d, "semihosting"), OfferedBy(d.irq)
    PROVE  Moves(c, d)
<1>1. /\ EventsOf(d, "tau") = EventsOf(c, "tau") /\ EventsOf(d, "sau") = EventsOf(c, "sau")
      /\ EventsOf(d, "adc") = EventsOf(c, "adc")
  BY DEF OthersKept
<1>2. AdcArmed(d)
  BY <1>1 DEF Armed, AdcArmed
<1> QED BY <1>1, <1>2, TransfersAlone

\* A chip in order has a controller in order.
LEMMA ControllerOffers ==
    ASSUME NEW c \in Chips, Offered(c)
    PROVE  c.irq \in Controller /\ OfferedBy(c.irq)
BY DEF Chips, Offered, OfferedBy

\* A write to registers that arm nothing: clock, ports, requests.
LEMMA QueueAlone ==
    ASSUME NEW c \in Chips, Armed(c), NEW d \in Chips,
           d.tau = c.tau, d.sau = c.sau, d.adc = c.adc, d.now = c.now,
           d.pending = c.pending, d.issued = c.issued, OfferedBy(d.irq)
    PROVE  Moves(c, d)
<1>1. Numbered(d) /\ OthersKept(c, d, "semihosting")
  BY DEF Armed, Numbered, OthersKept, EventsOf
<1> QED BY <1>1, UnitsAlone

-----------------------------------------------------------------------------
(* The actions, as calls on the chip. *)

\* Due events: whatever fires, requests are only added.
LEMMA FireMoves ==
    ASSUME chip \in Chips, Armed(chip), Offered(chip), NEW e \in chip.pending, Fire(e)
    PROVE  Moves(chip, chip') /\ chip.irq.flag \subseteq chip'.irq.flag
<1> DEFINE s == Popped(chip, e)
<1>0. chip.irq \in Controller /\ OfferedBy(chip.irq)
  BY ControllerOffers
<1>1. ASSUME NEW line, chip'.irq = chip.irq \/ chip'.irq = Raised(chip.irq, line)
      PROVE  OfferedBy(chip'.irq) /\ chip.irq.flag \subseteq chip'.irq.flag
  BY <1>0, <1>1, RaisedIsOffered
<1>2. CASE e.unit = "tau" /\ chip' = TauExpire(s, e)
  <2>1. e \in EventsOf(chip, "tau")
    BY <1>2 DEF EventsOf
  <2>2. /\ chip' \in Chips /\ Numbered(chip') /\ TauArmed(chip') /\ TauOnly(chip, chip')
        /\ chip'.irq = Raised(chip.irq, TauLine[e.ch]) /\ TauStep(chip, chip')
    BY <1>2, <2>1, ExpireTimer
  <2> QED BY <1>1, <2>2, TimersAlone
<1>3. CASE e.unit = "sau" /\ chip' = TxDone(s, e)
  <2>1. e \in EventsOf(chip, "sau")
    BY <1>3 DEF EventsOf
  <2>2. /\ chip' \in Chips /\ Numbered(chip') /\ SauArmed(chip') /\ SauOnly(chip, chip')
        /\ chip'.irq = Raised(chip.irq, SauLine[e.ch]) /\ SauStep(chip, chip')
    BY <1>3, <2>1, FinishTransfer DEF Armed
  <2> QED BY <1>1, <2>2, SerialAlone
<1>4. CASE e.unit = "adc" /\ chip' = Complete(s, e)
  <2>1. e \in EventsOf(chip, "adc")
    BY <1>4 DEF EventsOf
  <2>2. /\ chip' \in Chips /\ Numbered(chip') /\ AdcArmed(chip') /\ AdcOnly(chip, chip')
        /\ chip'.irq = chip.irq \/ chip'.irq = Raised(chip.irq, INTAD)
    BY <1>4, <2>1, FinishConversion DEF Armed
  <2> QED BY <1>1, <2>2, ConverterAlone
<1>5. CASE e.unit = "semihosting" /\ chip' = s
  <2>1. /\ chip' \in Chips /\ Numbered(chip') /\ UnitsKept(chip, chip')
        /\ OthersKept(chip, chip', "semihosting")
    BY <1>5, PoppedTakesOne DEF Armed
  <2> QED BY <1>0, <2>1, UnitsAlone DEF UnitsKept
<1> QED BY <1>2, <1>3, <1>4, <1>5 DEF Fire, Becomes

\* Writes to the clock generator stay within its registers.
LEMMA ClockIsTyped ==
    ASSUME NEW g \in Generator, NEW h \in ClockWrites(g)
    PROVE  h \in Generator
<1>1. h \in {WithCmc(g, v) : v \in {0, 1}} => h \in Generator
  <2>1. ASSUME NEW v \in {0, 1} PROVE WithCmc(g, v) \in Generator
    <3>1. [g EXCEPT !.cmc = v, !.cmcDirty = TRUE] \in Generator
      BY DEF Generator
    <3> QED BY <3>1 DEF WithCmc
  <2> QED BY ONLY <2>1
<1>2. h \in {WithCsc(g, x, m) : x \in BOOLEAN, m \in BOOLEAN} => h \in Generator
  <2>1. \A x, m \in BOOLEAN : WithCsc(g, x, m) \in Generator
    BY DEF WithCsc, Generator
  <2> QED BY <2>1
<1>3. h \in {WithCkc(g, m1, m0, c) : m1 \in BOOLEAN, m0 \in BOOLEAN, c \in BOOLEAN}
          => h \in Generator
  <2>1. \A m1, m0, c \in BOOLEAN : WithCkc(g, m1, m0, c) \in Generator
    BY DEF WithCkc, Generator
  <2> QED BY <2>1
<1>4. \A s \in BOOLEAN : [g EXCEPT !.selLow = s] \in Generator
  BY DEF Generator
<1>5. \A d \in DOMAIN HighHz : [g EXCEPT !.hocodiv = d] \in Generator
  BY DEF Generator
<1>6. \A d \in DOMAIN MidHz : [g EXCEPT !.mocodiv = d] \in Generator
  BY DEF Generator
<1> QED BY <1>1, <1>2, <1>3, <1>4, <1>5, <1>6 DEF ClockWrites

\* Writes to the ports and levels from outside stay within theirs.
LEMMA PortsAreTyped ==
    ASSUME NEW g \in Ports
    PROVE  /\ \A h \in GpioWrites(g) : h \in Ports
           /\ \A p \in Pins, level \in {"high", "low", "hiz"} : WithInput(g, p, level) \in Ports
           /\ ResetGpio(g) \in Ports
<1>1. ASSUME NEW m \in SUBSET Pins PROVE WithMode(g, m) \in Ports
  BY PinsAssumption DEF WithMode, Ports
<1>2. ASSUME NEW data \in SUBSET Pins PROVE WithLevel(g, data) \in Ports
  <2> DEFINE r == [g EXCEPT !.high = (@ \cap g.inputs) \cup ((data \ TiedLow) \ g.inputs)]
             wire == [p \in Pins |-> IF (p \in r.high) # (p \in g.high) THEN LevelOf(r, p)
                                     ELSE r.wire[p]]
  <2>1. r \in Ports
    BY DEF Ports
  <2>2. WithLevel(g, data) = [r EXCEPT !.wire = wire]
    BY DEF WithLevel
  <2> HIDE DEF r
  <2>3. wire \in [Pins -> {"undriven", "high", "low"}]
    BY <2>1 DEF Ports, LevelOf
  <2> HIDE DEF wire
  <2> QED BY <2>1, <2>2, <2>3 DEF Ports
<1>3. \A p \in Pins, level \in {"high", "low", "hiz"} : WithInput(g, p, level) \in Ports
  BY DEF WithInput, Ports
<1>4. ResetGpio(g) \in Ports
  BY DEF ResetGpio, Ports
<1> QED BY <1>1, <1>2, <1>3, <1>4 DEF GpioWrites

\* Everything the guest can write to the timers.
LEMMA WriteTimersMoves ==
    ASSUME NEW c \in Chips, Armed(c), Offered(c), NEW d \in TauWrites(c)
    PROVE  Moves(c, d) /\ d.irq = c.irq
<1>1. PICK ch \in TauChannels :
          \/ \E n \in Counts : d = [c EXCEPT !.tau.tdr[ch] = n]
          \/ \E n \in Divisors : d = [c EXCEPT !.tau.div[ch] = n]
          \/ d = StartChannel(c, ch) \/ d = StopChannel(c, ch)
  BY DEF TauWrites
<1>2. /\ d \in Chips /\ Numbered(d) /\ TauArmed(d) /\ TauOnly(c, d)
      /\ d.irq = c.irq /\ TauStep(c, d)
  <2>1. CASE d = StartChannel(c, ch)
    BY <2>1, StartTimer
  <2>2. CASE d = StopChannel(c, ch)
    BY <2>2, StopTimer
  <2>3. CASE \E n : \/ n \in Counts /\ d = [c EXCEPT !.tau.tdr[ch] = n]
                    \/ n \in Divisors /\ d = [c EXCEPT !.tau.div[ch] = n]
    BY <2>3, WriteTimer
  <2> QED BY <1>1, <2>1, <2>2, <2>3
<1> QED BY <1>2, TimersAlone, ControllerOffers

\* The control window of the serial unit.
LEMMA SerialControlsMove ==
    ASSUME NEW c \in Chips, Armed(c), Offered(c), NEW d \in SauControls(c)
    PROVE  Moves(c, d) /\ d.irq = c.irq
<1>1. \/ \E bauds \in [SauChannels -> DOMAIN BitCycles] : d = WithBauds(c, bauds)
      \/ \E ch \in SauChannels : d \in TriggerWrites(c, ch) \/ d \in SettingWrites(c, ch)
  <2>1. CASE d \in UNION {TriggerWrites(c, ch) \cup SettingWrites(c, ch) : ch \in SauChannels}
    <3>1. PICK ch \in SauChannels : d \in TriggerWrites(c, ch) \cup SettingWrites(c, ch)
      BY <2>1
    <3> QED BY <3>1
  <2>2. CASE d \in {WithBauds(c, bauds) : bauds \in [SauChannels -> DOMAIN BitCycles]}
    BY <2>2
  <2> QED BY <2>1, <2>2 DEF SauControls
<1>2. /\ d \in Chips /\ Numbered(d) /\ SauArmed(d) /\ SauOnly(c, d)
      /\ d.irq = c.irq /\ SauStep(c, d)
  <2>1. ASSUME NEW ch \in SauChannels, d = StopSerial(c, ch)
        PROVE  /\ d \in Chips /\ Numbered(d) /\ SauArmed(d) /\ SauOnly(c, d)
               /\ d.irq = c.irq /\ SauStep(c, d)
    BY <2>1, StopTransfer DEF Armed
  <2>2. ASSUME NEW ch \in SauChannels,
               d \in {[c EXCEPT !.sau.se = @ \cup {ch}], ClearErrors(c, ch),
                      [c EXCEPT !.sau.soe = @ \cup {ch}], [c EXCEPT !.sau.soe = @ \ {ch}]}
        PROVE  /\ d \in Chips /\ Numbered(d) /\ SauArmed(d) /\ SauOnly(c, d)
               /\ d.irq = c.irq /\ SauStep(c, d)
    BY <2>2, ControlsKeepTransfer DEF Armed
  <2>3. ASSUME NEW ch \in SauChannels, d \in SettingWrites(c, ch)
        PROVE  /\ d \in Chips /\ Numbered(d) /\ SauArmed(d) /\ SauOnly(c, d)
               /\ d.irq = c.irq /\ SauStep(c, d)
    <3>1. PICK set \in ChannelSettings(c.sau.set[ch]) : d = [c EXCEPT !.sau.set[ch] = set]
      BY <2>3 DEF SettingWrites
    <3>2. set \in Settings
      BY <3>1 DEF ChannelSettings
    <3> QED BY <3>1, <3>2, ControlsKeepTransfer DEF Armed
  <2>4. ASSUME NEW bauds \in [SauChannels -> DOMAIN BitCycles], d = WithBauds(c, bauds)
        PROVE  /\ d \in Chips /\ Numbered(d) /\ SauArmed(d) /\ SauOnly(c, d)
               /\ d.irq = c.irq /\ SauStep(c, d)
    BY <2>4, BaudsKeepTransfer DEF Armed
  <2>5. ASSUME NEW ch \in SauChannels, d \in TriggerWrites(c, ch)
        PROVE  /\ d \in Chips /\ Numbered(d) /\ SauArmed(d) /\ SauOnly(c, d)
               /\ d.irq = c.irq /\ SauStep(c, d)
    <3>1. \/ d = StopSerial(c, ch)
          \/ d \in {[c EXCEPT !.sau.se = @ \cup {ch}], ClearErrors(c, ch),
                    [c EXCEPT !.sau.soe = @ \cup {ch}], [c EXCEPT !.sau.soe = @ \ {ch}]}
      BY <2>5 DEF TriggerWrites
    <3> QED BY <2>1, <2>2, <3>1
  <2> QED BY <1>1, <2>3, <2>4, <2>5
<1> QED BY <1>2, SerialAlone, ControllerOffers

\* The bytes written so far are numbered by data of the model.
LEMMA WrittenIsData ==
    ASSUME chip \in Chips, SauChannels # {}
    PROVE  Written \in Data
<1> DEFINE shown == Range(chip.sau.line) \cup Range(chip.sau.shift)
           datas == {f.data : f \in shown}
           S == Range(chip.sau.sdr) \cup datas
           rest == {MaxBytes - x : x \in S}
<1>1. S \subseteq Data
  <2>1. /\ chip.sau.line \in [SauChannels -> Frame] /\ chip.sau.sdr \in [SauChannels -> Data]
        /\ chip.sau.shift \in [SauChannels -> Frame]
    BY DEF Chips, SauUnit
  <2>2. Range(chip.sau.sdr) \subseteq Data /\ shown \subseteq Frame
    BY <2>1 DEF Range
  <2> HIDE DEF shown
  <2>3. datas \subseteq Data
    BY <2>2 DEF Frame
  <2> QED BY <2>2, <2>3
<1>2. S # {}
  <2>1. PICK ch \in SauChannels : TRUE
    OBVIOUS
  <2>2. chip.sau.shift[ch] \in shown
    BY DEF Chips, SauUnit, Range
  <2> HIDE DEF shown
  <2> QED BY <2>2
<1> HIDE DEF S
<1>3. rest \in SUBSET Nat /\ rest # {}
  <2>1. \A x \in S : MaxBytes - x \in Nat
    BY <1>1, SauAssumption DEF Data
  <2>2. PICK x \in S : TRUE
    BY <1>2
  <2>3. MaxBytes - x \in rest
    OBVIOUS
  <2> QED BY <2>1, <2>3
<1>4. PICK r \in rest : \A q \in rest : r <= q
  <2> HIDE DEF rest
  <2> QED BY <1>3, NatHasMin
<1>5. PICK x \in S : r = MaxBytes - x
  BY DEF rest
<1>6. ASSUME NEW y \in S PROVE x >= y
  <2>1. MaxBytes - x <= MaxBytes - y
    BY <1>4, <1>5
  <2>2. x \in Nat /\ y \in Nat /\ MaxBytes \in Nat
    BY <1>1, SauAssumption DEF Data
  <2> HIDE DEF rest
  <2> QED BY <2>1, <2>2
<1>7. Max(S) \in S
  BY <1>6 DEF Max
<1>8. Written = Max(S)
  BY DEF Written, S
<1> QED BY <1>1, <1>7, <1>8

\* Writes of the guest to any unit but the controller leave the requests alone.
LEMMA AccessMoves ==
    ASSUME chip \in Chips, Armed(chip), Offered(chip),
           WriteClock \/ WriteTau \/ WriteAdc \/ WriteGpio \/ WriteSau \/ WriteSemihosting
    PROVE  Moves(chip, chip') /\ chip'.irq = chip.irq
<1>0. chip.irq \in Controller /\ OfferedBy(chip.irq)
  BY ControllerOffers
<1>1. CASE WriteClock
  <2>1. PICK g \in ClockWrites(chip.clock) : chip' = [chip EXCEPT !.clock = g]
    BY <1>1 DEF WriteClock, Access, Becomes
  <2>2. g \in Generator
    BY ClockIsTyped DEF Chips
  <2>3. /\ chip' \in Chips /\ chip'.tau = chip.tau /\ chip'.sau = chip.sau
        /\ chip'.adc = chip.adc /\ chip'.now = chip.now /\ chip'.pending = chip.pending
        /\ chip'.issued = chip.issued /\ chip'.irq = chip.irq
    BY <2>1, <2>2 DEF Chips
  <2> QED BY <1>0, <2>3, QueueAlone
<1>2. CASE WriteTau
  BY <1>2, WriteTimersMoves DEF WriteTau, Access, Becomes
<1>3. CASE WriteAdc
  <2>1. chip' \in AdcWrites(chip)
    BY <1>3 DEF WriteAdc, Access, Becomes
  <2>2. /\ chip' \in Chips /\ Numbered(chip') /\ AdcArmed(chip') /\ AdcOnly(chip, chip')
        /\ chip'.irq = chip.irq
    BY <2>1, WriteConverter DEF Armed
  <2> QED BY <1>0, <2>2, ConverterAlone
<1>4. CASE WriteGpio
  <2>1. PICK g \in GpioWrites(chip.gpio) : chip' = [chip EXCEPT !.gpio = g]
    BY <1>4 DEF WriteGpio, Access, Becomes
  <2>2. g \in Ports
    BY PortsAreTyped DEF Chips
  <2>3. /\ chip' \in Chips /\ chip'.tau = chip.tau /\ chip'.sau = chip.sau
        /\ chip'.adc = chip.adc /\ chip'.now = chip.now /\ chip'.pending = chip.pending
        /\ chip'.issued = chip.issued /\ chip'.irq = chip.irq
    BY <2>1, <2>2 DEF Chips
  <2> QED BY <1>0, <2>3, QueueAlone
<1>5. CASE WriteSau
  <2>1. CASE chip' \in SauControls(chip)
    BY <2>1, SerialControlsMove
  <2>2. ASSUME NEW ch \in SauChannels, chip' = ReadSdr(chip, ch)
        PROVE  Moves(chip, chip') /\ chip'.irq = chip.irq
    <3>1. /\ chip' \in Chips /\ Numbered(chip') /\ SauArmed(chip') /\ SauOnly(chip, chip')
          /\ chip'.irq = chip.irq /\ SauStep(chip, chip')
      BY <2>2, ControlsKeepTransfer DEF Armed
    <3> QED BY <1>0, <3>1, SerialAlone
  <2>3. ASSUME NEW ch \in SauChannels, NEW n \in DOMAIN BitCycles, Written < MaxBytes,
               chip' = WriteSdr(chip, ch, Written + 1, n)
        PROVE  Moves(chip, chip') /\ chip'.irq = chip.irq
    <3>1. Written + 1 \in Data
      BY <2>3, WrittenIsData, SauAssumption DEF Data
    <3>2. /\ chip' \in Chips /\ Numbered(chip') /\ SauArmed(chip') /\ SauOnly(chip, chip')
          /\ chip'.irq = chip.irq /\ SauStep(chip, chip')
      BY <2>3, <3>1, WriteByte DEF Armed
    <3> QED BY <1>0, <3>2, SerialAlone
  <2> QED BY <1>5, <2>1, <2>2, <2>3 DEF WriteSau, Access, Becomes
<1>6. CASE WriteSemihosting
  <2>1. chip' = Schedule(chip, chip.now, "semihosting", 0, 0)
    BY <1>6 DEF WriteSemihosting, Access, Becomes
  <2> DEFINE e == [at |-> chip.now, id |-> chip.issued + 1, unit |-> "semihosting",
                   ch |-> 0, generation |-> 0]
  <2>2. chip.now \in Nat /\ 0 \in Generation
    BY DEF Chips, Generation, Generations
  <2>3. e = [at |-> chip.now, id |-> chip.issued + 1, unit |-> "semihosting",
             ch |-> 0, generation |-> 0]
    OBVIOUS
  <2> HIDE DEF e
  <2>4. /\ chip' \in Chips /\ Numbered(chip') /\ UnitsKept(chip, chip')
        /\ OthersKept(chip, chip', "semihosting")
    BY <2>1, <2>2, <2>3, ScheduleAddsOne DEF Armed
  <2> QED BY <1>0, <2>4, UnitsAlone DEF UnitsKept
<1> QED BY <1>1, <1>2, <1>3, <1>4, <1>5, <1>6

\* A write to the registers of the controller withdraws requests of one field at most.
LEMMA WriteIrqMoves ==
    ASSUME chip \in Chips, Armed(chip), Offered(chip), WriteIrq
    PROVE  /\ Moves(chip, chip')
           /\ \E f \in Fields : chip.irq.flag \ chip'.irq.flag \subseteq f
<1>0. chip.irq \in Controller
  BY ControllerOffers
<1>1. PICK field \in Fields : \E bits \in SUBSET field :
          \/ chip' = [chip EXCEPT !.irq = WithFlags(@, field, bits)]
          \/ chip' = [chip EXCEPT !.irq = WithMasks(@, field, bits)]
          \/ \E high \in BOOLEAN :
                 chip' = [chip EXCEPT !.irq = WithPriorityBits(@, field, high, bits)]
  BY DEF WriteIrq, Access, Becomes
<1>2. PICK bits \in SUBSET field : \E irq :
          /\ chip' = [chip EXCEPT !.irq = irq]
          /\ \/ irq = WithFlags(chip.irq, field, bits) \/ irq = WithMasks(chip.irq, field, bits)
             \/ \E high \in BOOLEAN : irq = WithPriorityBits(chip.irq, field, high, bits)
  BY <1>1 DEF Chips
<1>3. PICK irq :
          /\ chip' = [chip EXCEPT !.irq = irq]
          /\ \/ irq = WithFlags(chip.irq, field, bits) \/ irq = WithMasks(chip.irq, field, bits)
             \/ \E high \in BOOLEAN : irq = WithPriorityBits(chip.irq, field, high, bits)
  BY <1>2
<1>4. OfferedBy(irq) /\ chip.irq.flag \ irq.flag \subseteq field
  BY <1>0, <1>3, FlagsAreOffered, MasksAreOffered, PrioritiesAreOffered
<1>5. irq \in Controller
  BY <1>4 DEF OfferedBy
<1>6. /\ chip' \in Chips /\ chip'.tau = chip.tau /\ chip'.sau = chip.sau
      /\ chip'.adc = chip.adc /\ chip'.now = chip.now /\ chip'.pending = chip.pending
      /\ chip'.issued = chip.issued /\ chip'.irq = irq
  BY <1>3, <1>5 DEF Chips
<1> QED BY <1>4, <1>6, QueueAlone

\* The CPU takes the request it is offered, and no other.
LEMMA TakeInterruptMoves ==
    ASSUME chip \in Chips, Armed(chip), Offered(chip), TakeInterrupt
    PROVE  /\ Moves(chip, chip')
           /\ chip.irq.flag \ chip'.irq.flag \subseteq {chip.irq.pending.index}
<1> DEFINE irq == Acked(chip.irq, chip.irq.pending.index)
<1>1. chip' = [chip EXCEPT !.irq = irq]
  BY DEF TakeInterrupt, Becomes, Chips
<1>2. OfferedBy(irq) /\ irq.flag = chip.irq.flag \ {chip.irq.pending.index}
  BY ControllerOffers, AckedIsOffered
<1> HIDE DEF irq
<1>3. irq \in Controller
  BY <1>2 DEF OfferedBy
<1>4. /\ chip' \in Chips /\ chip'.tau = chip.tau /\ chip'.sau = chip.sau
      /\ chip'.adc = chip.adc /\ chip'.now = chip.now /\ chip'.pending = chip.pending
      /\ chip'.issued = chip.issued /\ chip'.irq = irq
  BY <1>1, <1>3 DEF Chips
<1>5. Moves(chip, chip')
  BY <1>2, <1>4, QueueAlone
<1> QED BY <1>2, <1>4, <1>5

\* Frames and levels from outside.
LEMMA OutsideMoves ==
    ASSUME chip \in Chips, Armed(chip), Offered(chip),
           ReceiveFrame \/ ChangeLevel \/ ChangeVoltage
    PROVE  Moves(chip, chip')
<1>0. chip.irq \in Controller /\ OfferedBy(chip.irq)
  BY ControllerOffers
<1>1. CASE ReceiveFrame
  <2>1. \E ch \in SauChannels : \E frame :
            chip' = Receive(chip, ch, frame) /\ frame.data = Written + 1 /\ Written < MaxBytes
    <3>1. PICK ch \in SauChannels : \E shape \in Shapes, parity \in Parities :
            \E bitTime \in {0, BitTime(chip, ch)} :
               chip' = Receive(chip, ch, [data |-> Written + 1, bitTime |-> bitTime,
                                          shape |-> shape, parity |-> parity])
      BY <1>1 DEF ReceiveFrame, Outside, Becomes
    <3>2. Written < MaxBytes
      BY <1>1 DEF ReceiveFrame
    <3> QED BY <3>1, <3>2
  <2>2. PICK ch \in SauChannels : \E frame :
            chip' = Receive(chip, ch, frame) /\ frame.data = Written + 1 /\ Written < MaxBytes
    BY <2>1
  <2>3. PICK frame :
            chip' = Receive(chip, ch, frame) /\ frame.data = Written + 1 /\ Written < MaxBytes
    BY <2>2
  <2>4. frame.data \in Data
    BY <2>3, WrittenIsData, SauAssumption DEF Data
  <2>5. /\ chip' \in Chips /\ Numbered(chip') /\ SauArmed(chip') /\ SauOnly(chip, chip')
        /\ SauStep(chip, chip')
        /\ \/ chip'.irq = chip.irq
           \/ \E line : chip'.irq = Raised(chip.irq, line)
           \/ \E line, more : chip'.irq = Raised(Raised(chip.irq, line), more)
    BY <2>3, <2>4, ReceiveKeepsTransfer DEF Armed
  <2>6. \A irq \in Controller : \A line : OfferedBy(Raised(irq, line)) /\ Raised(irq, line) \in Controller
    BY RaisedIsOffered DEF OfferedBy
  <2>7. OfferedBy(chip'.irq)
    BY <1>0, <2>5, <2>6
  <2> QED BY <2>5, <2>7, SerialAlone
<1>2. CASE ChangeLevel
  <2>1. PICK g \in Ports : chip' = [chip EXCEPT !.gpio = g]
    <3>1. chip.gpio \in Ports
      BY DEF Chips
    <3> QED BY <1>2, <3>1, PortsAreTyped DEF ChangeLevel, Outside, Becomes
  <2>2. /\ chip' \in Chips /\ chip'.tau = chip.tau /\ chip'.sau = chip.sau
        /\ chip'.adc = chip.adc /\ chip'.now = chip.now /\ chip'.pending = chip.pending
        /\ chip'.issued = chip.issued /\ chip'.irq = chip.irq
    BY <2>1 DEF Chips
  <2> QED BY <1>0, <2>2, QueueAlone
<1>3. CASE ChangeVoltage
  <2>1. PICK i \in Slots, v \in Voltages : chip' = [chip EXCEPT !.adc.volts[i] = v]
    BY <1>3 DEF ChangeVoltage, Outside, Becomes
  <2> DEFINE volts == [chip.adc.volts EXCEPT ![i] = v]
             a == [chip.adc EXCEPT !.volts = volts]
  <2>2. volts \in [Slots -> Voltages]
    BY DEF Chips, AdcUnit
  <2>3. chip' = [chip EXCEPT !.adc = a]
    BY <2>1 DEF Chips, AdcUnit
  <2> HIDE DEF volts
  <2>4. /\ a \in AdcUnit /\ a.expire = chip.adc.expire /\ a.running = chip.adc.running
        /\ a.generation = chip.adc.generation
    BY <2>2 DEF Chips, AdcUnit
  <2> HIDE DEF a
  <2>5. /\ chip' \in Chips /\ Numbered(chip') /\ AdcOnly(chip, chip') /\ chip'.irq = chip.irq
        /\ chip'.adc = a /\ EventsOf(chip', "adc") = EventsOf(chip, "adc")
    BY <2>3, <2>4, ConverterWith DEF Armed
  <2>6. AdcArmed(chip')
    BY <2>4, <2>5 DEF Armed, AdcArmed
  <2> QED BY <1>0, <2>5, <2>6, ConverterAlone
<1> QED BY <1>1, <1>2, <1>3

\* R7F100Gxl::reset: clock, serial unit, timers, ports, converter and controller in
\* turn.  Nothing counts and nothing is enabled afterwards.
LEMMA ResetMoves ==
    ASSUME chip \in Chips, Armed(chip), Offered(chip), ResetChip
    PROVE  Moves(chip, chip')
<1> DEFINE c0 == [chip EXCEPT !.clock = ResetGenerator(0)]
           c1 == SauReset(c0)
           c2 == TauReset(c1)
           c3 == [c2 EXCEPT !.gpio = ResetGpio(@)]
           c4 == AdcReset(c3)
<1>0. OfferedBy(chip.irq) /\ OfferedBy(ResetController)
  <2>1. OfferedBy([ResetController EXCEPT !.mask = Lines])
    BY ResetIsOffered
  <2>2. [ResetController EXCEPT !.mask = Lines] = ResetController
    BY DEF ResetController
  <2> QED BY <2>1, <2>2, ControllerOffers
<1>1. chip' = [c4 EXCEPT !.irq = ResetController]
  BY DEF ResetChip, Outside, Becomes
<1>2. c0 \in Chips /\ Armed(c0) /\ c0.now = chip.now /\ c0.irq = chip.irq
  <2>1. ResetGenerator(0) \in Generator
    BY ClockAssumption DEF ResetGenerator, Generator
  <2>2. /\ c0 \in Chips /\ c0.tau = chip.tau /\ c0.sau = chip.sau
        /\ c0.adc = chip.adc /\ c0.now = chip.now /\ c0.pending = chip.pending
        /\ c0.issued = chip.issued /\ c0.irq = chip.irq
    BY <2>1 DEF Chips
  <2> HIDE DEF c0
  <2> QED BY <1>0, <2>2, QueueAlone DEF Moves
<1>3. c1 = SauReset(c0) /\ c2 = TauReset(c1) /\ c3 = [c2 EXCEPT !.gpio = ResetGpio(@)]
      /\ c4 = AdcReset(c3)
  OBVIOUS
<1> HIDE DEF c0, c1, c2, c3, c4
<1>4. c1 \in Chips /\ Armed(c1) /\ c1.now = chip.now /\ c1.irq = chip.irq /\ c1.sau.se = {}
  <2>1. /\ c1 \in Chips /\ Numbered(c1) /\ SauArmed(c1) /\ SauOnly(c0, c1)
        /\ c1.irq = c0.irq /\ SauStep(c0, c1)
    BY <1>2, <1>3, ResetSerial DEF Armed
  <2>2. Moves(c0, c1)
    BY <1>0, <1>2, <2>1, SerialAlone
  <2>3. c1.sau.se = {}
    BY <1>2, <1>3 DEF SauReset, SauAt, Chips
  <2> QED BY <1>2, <2>1, <2>2, <2>3 DEF Moves
<1>5. /\ c2 \in Chips /\ Armed(c2) /\ c2.now = chip.now /\ c2.irq = chip.irq
      /\ c2.sau.se = {} /\ c2.tau.te = {}
  <2>1. /\ c2 \in Chips /\ Numbered(c2) /\ TauArmed(c2) /\ TauOnly(c1, c2)
        /\ c2.irq = c1.irq /\ TauStep(c1, c2)
    BY <1>3, <1>4, ResetTimers
  <2>2. Moves(c1, c2)
    BY <1>0, <1>4, <2>1, TimersAlone
  <2>3. c2.tau.te = {}
    BY <1>3, <1>4 DEF TauReset, TauAt, Chips
  <2> QED BY <1>4, <2>1, <2>2, <2>3 DEF Moves, TauOnly
<1>6. /\ c3 \in Chips /\ Armed(c3) /\ c3.now = chip.now /\ c3.irq = chip.irq
      /\ c3.sau.se = {} /\ c3.tau.te = {}
  <2>1. ResetGpio(c2.gpio) \in Ports
    BY <1>5, PortsAreTyped DEF Chips
  <2>2. /\ c3 \in Chips /\ c3.tau = c2.tau /\ c3.sau = c2.sau /\ c3.adc = c2.adc
        /\ c3.now = c2.now /\ c3.pending = c2.pending /\ c3.issued = c2.issued
        /\ c3.irq = c2.irq
    BY <1>3, <1>5, <2>1 DEF Chips
  <2>3. Moves(c2, c3)
    BY <1>0, <1>5, <2>2, QueueAlone
  <2> QED BY <1>5, <2>2, <2>3 DEF Moves
<1>7. /\ c4 \in Chips /\ Armed(c4) /\ c4.now = chip.now
      /\ c4.sau.se = {} /\ c4.tau.te = {}
  <2>1. /\ c4 \in Chips /\ Numbered(c4) /\ AdcArmed(c4) /\ AdcOnly(c3, c4) /\ c4.irq = c3.irq
    BY <1>3, <1>6, ResetConverter DEF Armed
  <2>2. Moves(c3, c4)
    BY <1>0, <1>6, <2>1, ConverterAlone
  <2> QED BY <1>6, <2>1, <2>2 DEF Moves, AdcOnly
<1>8. /\ chip' \in Chips /\ chip'.tau = c4.tau /\ chip'.sau = c4.sau /\ chip'.adc = c4.adc
      /\ chip'.now = c4.now /\ chip'.pending = c4.pending /\ chip'.issued = c4.issued
      /\ chip'.irq = ResetController
  BY <1>0, <1>1, <1>7 DEF Chips, OfferedBy
<1>9. Moves(c4, chip')
  BY <1>0, <1>7, <1>8, QueueAlone
<1>10. TauStep(chip, chip') /\ SauStep(chip, chip')
  BY <1>7, <1>8 DEF TauStep, ChannelStep, SauStep
<1> QED BY <1>7, <1>8, <1>9, <1>10 DEF Moves

-----------------------------------------------------------------------------
(* The grid of the timers. *)

Grids == [TauChannels -> [at : Nat \cup {NoTick}, interval : Nat \cup {NoTick}]]

\* A timer that was started counts from now; one that keeps its interval stays on its
\* grid; all others leave it.
LEMMA StaysOnGrid ==
    ASSUME SocInv, NEW c \in Chips, c.now = chip.now, TauStep(chip, c), Becomes(c)
    PROVE  grid' \in Grids /\ OnGrid(chip', grid')
<1>1. chip' = c /\ grid' = [ch \in TauChannels |-> Kept(c, ch)]
  BY DEF Becomes
<1>2. grid \in Grids /\ OnGrid(chip, grid) /\ chip \in Chips
  BY DEF SocInv, Grids
<1>3. ASSUME NEW ch \in TauChannels
      PROVE  Interval(c, ch) \in (Nat \ {0}) \cup {NoTick}
  BY IntervalIsTime
<1>4. grid' \in Grids
  <2>1. ASSUME NEW ch \in TauChannels
        PROVE  Kept(c, ch) \in [at : Nat \cup {NoTick}, interval : Nat \cup {NoTick}]
    <3>1. Interval(c, ch) \in Nat \cup {NoTick} /\ c.now \in Nat
      BY <1>3 DEF Chips
    <3>2. grid[ch] \in [at : Nat \cup {NoTick}, interval : Nat \cup {NoTick}]
      BY <1>2 DEF Grids
    <3> QED BY <3>1, <3>2 DEF Kept, NoGrid
  <2> QED BY <1>1, <2>1 DEF Grids
<1>5. ASSUME NEW ch \in TauChannels, NEW g, g = Kept(c, ch), g # NoGrid
      PROVE  /\ g.at \in 0..c.now /\ g.interval \in Nat \ {0}
             /\ g.interval = Interval(c, ch)
             /\ ch \in c.tau.te /\ c.tau.expire[ch] # NoEvent
             /\ \A e \in EventsOf(c, "tau") : e.ch = ch =>
                   \E k \in Nat : e.at = g.at + k * g.interval
  <2>0. ChannelStep(chip, c, ch)
    BY DEF TauStep
  <2>1. CASE ch \in c.tau.te \ chip.tau.te
    <3>1. g = [at |-> c.now, interval |-> Interval(c, ch)]
      BY <1>5, <2>1 DEF Kept
    <3>2. /\ c.tau.expire[ch] # NoEvent /\ Interval(c, ch) # NoTick
          /\ \A e \in EventsOf(c, "tau") : e.ch = ch => e.at = c.now + Interval(c, ch)
      BY <2>0, <2>1 DEF ChannelStep
    <3>3. Interval(c, ch) \in Nat \ {0} /\ c.now \in Nat
      BY <1>3, <3>2 DEF Chips
    <3>4. c.now + Interval(c, ch) = c.now + 1 * Interval(c, ch)
      BY <3>3
    <3> QED BY <2>1, <3>1, <3>2, <3>3, <3>4
  <2>2. CASE ch \notin c.tau.te \ chip.tau.te
    <3>1. /\ g = grid[ch] /\ ch \in c.tau.te /\ ch \in chip.tau.te
          /\ g.interval = Interval(c, ch)
      BY <1>5, <2>2 DEF Kept
    <3>2. /\ g.at \in 0..chip.now /\ g.interval \in Nat \ {0}
          /\ chip.tau.expire[ch] # NoEvent
          /\ \A e \in EventsOf(chip, "tau") : e.ch = ch =>
                \E k \in Nat : e.at = g.at + k * g.interval
      BY <1>2, <1>5, <3>1 DEF OnGrid
    <3>3. /\ c.tau.expire[ch] # NoEvent
          /\ \A e \in EventsOf(c, "tau") : e.ch = ch =>
                \E f \in EventsOf(chip, "tau"), k \in Nat :
                    f.ch = ch /\ e.at = f.at + k * g.interval
      BY <2>0, <3>1, <3>2 DEF ChannelStep, NoTick
    <3>4. ASSUME NEW e \in EventsOf(c, "tau"), e.ch = ch
          PROVE  \E k \in Nat : e.at = g.at + k * g.interval
      <4>1. PICK f \in EventsOf(chip, "tau"), k \in Nat :
                f.ch = ch /\ e.at = f.at + k * g.interval
        BY <3>3, <3>4
      <4>2. PICK j \in Nat : f.at = g.at + j * g.interval
        BY <3>2, <4>1
      <4>3. \A x, i, m, n \in Nat : (x + m * i) + n * i = x + (m + n) * i
        OBVIOUS
      <4>4. g.at \in Nat /\ g.interval \in Nat
        BY <3>2
      <4>5. e.at = g.at + (j + k) * g.interval
        BY <4>1, <4>2, <4>3, <4>4
      <4> QED BY <4>5
    <3> QED BY <3>1, <3>2, <3>3, <3>4
  <2> QED BY <2>1, <2>2
<1> QED BY <1>1, <1>4, <1>5 DEF OnGrid

-----------------------------------------------------------------------------
(* The start. *)

\* Serial channels before anything is sent.
LEMMA SerialAtRest ==
    ASSUME NEW set \in [SauChannels -> Settings], NEW se \in SUBSET SauChannels,
           NEW soe \in SUBSET SauChannels
    PROVE  /\ SauAt(set, se, soe) \in SauUnit /\ SauAt(set, se, soe).busy = {}
           /\ \A ch \in SauChannels : /\ SauAt(set, se, soe).txId[ch] = NoEvent
                                      /\ SauAt(set, se, soe).shift[ch] = NoFrame
<1> DEFINE u == SauAt(set, se, soe)
           zeros == [ch \in SauChannels |-> 0]
           ids == [ch \in SauChannels |-> NoEvent]
           shift == [ch \in SauChannels |-> NoFrame]
<1>1. zeros \in [SauChannels -> Data] /\ ids \in [SauChannels -> Nat]
  BY SauAssumption DEF Data, NoEvent
<1>2. shift \in [SauChannels -> Frame]
  <2>1. NoFrame \in Frame
    BY SauAssumption DEF NoFrame, Frame, Data
  <2> QED BY <2>1
<1>3. u = [sdr |-> zeros, set |-> set, se |-> se, soe |-> soe, busy |-> {}, bff |-> {},
           fef |-> {}, pef |-> {}, ovf |-> {}, txId |-> ids, shift |-> shift, line |-> shift]
  BY DEF SauAt
<1>4. \A ch \in SauChannels : ids[ch] = NoEvent /\ shift[ch] = NoFrame
  OBVIOUS
<1> HIDE DEF u, zeros, ids, shift
<1>5. u \in SauUnit
  BY <1>1, <1>2, <1>3 DEF SauUnit
<1>6. u.busy = {} /\ \A ch \in SauChannels : u.txId[ch] = NoEvent /\ u.shift[ch] = NoFrame
  BY <1>3, <1>4
<1> QED BY <1>5, <1>6 DEF u

\* Timer channels before one is started.
LEMMA TimersAtRest ==
    ASSUME NEW tdr \in [TauChannels -> Nat], NEW u,
           u = TauAt(tdr, [ch \in TauChannels |-> 1])
    PROVE  u \in TauUnit /\ \A ch \in TauChannels : u.expire[ch] = NoEvent
<1> DEFINE tcr == [ch \in TauChannels |-> 65535]
           div == [ch \in TauChannels |-> 1]
           ids == [ch \in TauChannels |-> NoEvent]
           zeros == [ch \in TauChannels |-> 0]
<1>1. /\ tcr \in [TauChannels -> Nat] /\ div \in [TauChannels -> Nat \ {0}]
      /\ ids \in [TauChannels -> Nat] /\ zeros \in [TauChannels -> Generation]
  BY DEF NoEvent, Generation, Generations
<1>2. u = [tdr |-> tdr, tcr |-> tcr, div |-> div, tsr |-> {}, te |-> {},
           expire |-> ids, generation |-> zeros]
  BY DEF TauAt
<1>3. \A ch \in TauChannels : ids[ch] = NoEvent
  OBVIOUS
<1> HIDE DEF tcr, div, ids, zeros
<1>4. u \in TauUnit
  BY <1>1, <1>2 DEF TauUnit
<1> QED BY <1>2, <1>3, <1>4

\* Units at rest make a chip in order: no event, and no request.
LEMMA StartIsInOrder ==
    ASSUME NEW tau \in TauUnit, \A ch \in TauChannels : tau.expire[ch] = NoEvent,
           NEW sau \in SauUnit, sau.busy = {},
           \A ch \in SauChannels : sau.txId[ch] = NoEvent /\ sau.shift[ch] = NoFrame,
           NEW adc \in AdcUnit, adc.expire = NoEvent, NEW masked \in SUBSET Lines,
           NEW c, c = Chip(tau, sau, adc, masked)
    PROVE  c \in Chips /\ Offered(c) /\ Armed(c)
<1> DEFINE irq == [ResetController EXCEPT !.mask = masked]
           gpio == [inputs |-> Pins \ OutputOnly, high |-> {},
                    wire |-> [p \in Pins |-> "undriven"]]
<1>1. OfferedBy(irq)
  BY ResetIsOffered
<1>2. gpio \in Ports
  BY DEF Ports
<1>3. ResetGenerator(0) \in Generator
  BY ClockAssumption DEF ResetGenerator, Generator
<1>4. c = [now |-> 0, pending |-> {}, issued |-> 0, clock |-> ResetGenerator(0),
           tau |-> tau, sau |-> sau, adc |-> adc, gpio |-> gpio, irq |-> irq]
  BY DEF Chip
<1> HIDE DEF irq, gpio
<1>5. irq \in Controller
  BY <1>1 DEF OfferedBy
<1>6. c \in Chips
  BY <1>2, <1>3, <1>4, <1>5 DEF Chips
<1>7. Offered(c)
  BY <1>1, <1>4 DEF Offered, OfferedBy
<1>8. Armed(c)
  <2>1. c.pending = {} /\ c.tau = tau /\ c.sau = sau /\ c.adc = adc
    BY <1>4
  <2>2. \A u : EventsOf(c, u) = {}
    BY <2>1 DEF EventsOf
  <2> QED BY <2>1, <2>2 DEF Armed, Numbered, TauArmed, SauArmed, AdcArmed
<1> QED BY <1>6, <1>7, <1>8

\* The chip after start-up is in order.
LEMMA InitIsInOrder == Init => SocInv
<1> SUFFICES ASSUME Init PROVE SocInv
  OBVIOUS
<1> DEFINE none == [ch \in TauChannels |-> 0]
           ones == [ch \in TauChannels |-> 1]
           fresh == SauAt([ch \in SauChannels |-> ResetSettings], {}, {})
           TdrInits == IF guest = "timers" THEN [TauChannels -> Counts] ELSE {none}
           SauInits == IF guest = "serial" THEN SerialInits ELSE {fresh}
           Masks == IF guest = "interrupts" THEN {{}, Lines} ELSE {{}}
           Modes == IF guest = "converter" THEN BOOLEAN ELSE {FALSE}
           Volts == {v \in [Slots -> Voltages] :
                       \A i \in Slots \ (IF guest = "converter" THEN {1} ELSE {}) :
                           v[i] = CHOOSE low \in Voltages : TRUE}
<1>1. PICK tdr \in TdrInits, sau \in SauInits, masked \in Masks, oneshot \in Modes,
           volts \in Volts :
        chip = Chip(TauAt(tdr, ones), sau, AdcAt(FALSE, oneshot, TRUE, 10, 255, 0, volts), masked)
  BY DEF Init
<1>2. \A t \in TdrInits : t \in [TauChannels -> Nat]
  <2>1. [TauChannels -> Counts] \subseteq [TauChannels -> Nat]
    BY TauAssumption
  <2>2. none \in [TauChannels -> Nat]
    OBVIOUS
  <2> HIDE DEF none
  <2> QED BY <2>1, <2>2
<1>3. \A s \in SauInits : \E set \in [SauChannels -> Settings],
                            se, soe \in SUBSET SauChannels : s = SauAt(set, se, soe)
  <2>1. ResetSettings \in Settings
    BY SauAssumption DEF ResetSettings, Settings
  <2>2. [ch \in SauChannels |-> ResetSettings] \in [SauChannels -> Settings]
    BY <2>1
  <2>3. \E set \in [SauChannels -> Settings],
           se, soe \in SUBSET SauChannels : fresh = SauAt(set, se, soe)
    BY <2>2
  <2> HIDE DEF fresh
  <2> QED BY <2>3, SocAssumption
<1>4. Masks \subseteq SUBSET Lines /\ Modes \subseteq BOOLEAN /\ Volts \subseteq [Slots -> Voltages]
  OBVIOUS
<1> DEFINE tau == TauAt(tdr, ones)
           adc == AdcAt(FALSE, oneshot, TRUE, 10, 255, 0, volts)
<1>5. tau \in TauUnit /\ \A ch \in TauChannels : tau.expire[ch] = NoEvent
  <2>1. tdr \in [TauChannels -> Nat]
    BY <1>2
  <2> QED BY <2>1, TimersAtRest
<1> HIDE DEF ones, tau, TdrInits, SauInits, Masks, Modes, Volts
<1>6. /\ sau \in SauUnit /\ sau.busy = {}
      /\ \A ch \in SauChannels : sau.txId[ch] = NoEvent /\ sau.shift[ch] = NoFrame
  <2>1. PICK set \in [SauChannels -> Settings], se \in SUBSET SauChannels,
             soe \in SUBSET SauChannels : sau = SauAt(set, se, soe)
    BY <1>3
  <2>2. /\ SauAt(set, se, soe) \in SauUnit /\ SauAt(set, se, soe).busy = {}
        /\ \A ch \in SauChannels : /\ SauAt(set, se, soe).txId[ch] = NoEvent
                                   /\ SauAt(set, se, soe).shift[ch] = NoFrame
    BY ONLY SerialAtRest
  <2> QED BY ONLY <2>1, <2>2
<1>7. adc \in AdcUnit /\ adc.expire = NoEvent
  <2>1. oneshot \in BOOLEAN /\ volts \in [Slots -> Voltages]
    BY <1>4
  <2>2. Rest(volts, oneshot) \in AdcUnit /\ Rest(volts, oneshot).expire = NoEvent
    BY ONLY <2>1, ConverterAtRest
  <2> QED BY ONLY <2>2 DEF adc, Rest
<1>8. chip \in Chips /\ Offered(chip) /\ Armed(chip)
  <2>1. masked \in SUBSET Lines
    BY <1>4
  <2>2. chip = Chip(tau, sau, adc, masked)
    BY <1>1 DEF tau
  <2> HIDE DEF adc
  <2> QED BY <1>5, <1>6, <1>7, <2>1, <2>2, StartIsInOrder
<1>9. grid \in Grids /\ OnGrid(chip, grid)
  <2>1. grid = [ch \in TauChannels |-> NoGrid]
    BY DEF Init
  <2>2. NoGrid \in [at : Nat \cup {NoTick}, interval : Nat \cup {NoTick}]
    BY DEF NoGrid
  <2>3. \A ch \in TauChannels : grid[ch] = NoGrid
    BY <2>1
  <2> QED BY <2>1, <2>2, <2>3 DEF Grids, OnGrid
<1>10. quantumEnd \in Nat /\ accesses \in Nat /\ frames \in Nat
  BY DEF Init
<1> QED BY <1>8, <1>9, <1>10 DEF SocInv, Grids

-----------------------------------------------------------------------------
(* The theorems. *)

\* The invariant of the next state, as what the calls are shown to establish.
LEMMA InOrderAfter ==
    ASSUME chip' \in Chips, Armed(chip'), Offered(chip'), grid' \in Grids,
           OnGrid(chip', grid'), quantumEnd' \in Nat, accesses' \in Nat, frames' \in Nat
    PROVE  SocInv'
BY DEF SocInv, Grids, Armed, Numbered, TauArmed, SauArmed, AdcArmed, Offered, OnGrid

\* A call keeps the invariant.
LEMMA MovesKeepOrder ==
    ASSUME SocInv, Moves(chip, chip'), Becomes(chip'), accesses' \in Nat, frames' \in Nat
    PROVE  SocInv'
<1>1. /\ chip' \in Chips /\ chip'.now = chip.now /\ TauStep(chip, chip')
      /\ Armed(chip') /\ Offered(chip')
  BY DEF Moves
<1>2. grid' \in Grids /\ OnGrid(chip', grid')
  BY <1>1, StaysOnGrid
<1>3. quantumEnd' \in Nat
  BY DEF SocInv, Becomes
<1> QED BY <1>1, <1>2, <1>3, InOrderAfter

\* What one action does to the requests, the conjunct of RequestsKept.
KeepsRequests ==
    \A l \in chip.irq.flag \ chip'.irq.flag :
        \/ accesses' = accesses /\ l = chip.irq.pending.index
        \/ accesses' # accesses /\ \E f \in Fields : chip.irq.flag \ chip'.irq.flag \subseteq f
        \/ frames' # frames

\* Every action keeps the invariant, the requests and the shift registers.
LEMMA ActionsKeepOrder ==
    ASSUME SocInv, Next
    PROVE  SocInv' /\ KeepsRequests /\ SauStep(chip, chip')
<1>0. /\ chip \in Chips /\ Armed(chip) /\ Offered(chip)
      /\ accesses \in Nat /\ frames \in Nat /\ quantumEnd \in Nat
  BY DEF SocInv
<1>1. ASSUME Moves(chip, chip'), Becomes(chip'), KeepsRequests,
             accesses' \in {accesses, accesses + 1}, frames' \in {frames, frames + 1}
      PROVE  SocInv' /\ KeepsRequests /\ SauStep(chip, chip')
  BY <1>0, <1>1, MovesKeepOrder DEF Moves
<1>2. CASE BeginQuantum
  <2>1. /\ chip' = chip /\ grid' = grid /\ accesses' = accesses /\ frames' = frames
        /\ quantumEnd' \in Nat
    BY <1>0, <1>2, SocAssumption DEF BeginQuantum, Chips
  <2>2. SocInv'
    BY <2>1 DEF SocInv, Armed, Numbered, TauArmed, SauArmed, AdcArmed, Offered, OnGrid
  <2> QED BY <2>1, <2>2 DEF KeepsRequests, SauStep
<1>3. CASE EndQuantum
  <2>1. /\ chip' = [chip EXCEPT !.now = quantumEnd] /\ quantumEnd > chip.now
        /\ grid' = grid /\ accesses' = accesses /\ frames' = frames
        /\ quantumEnd' = quantumEnd
    BY <1>3 DEF EndQuantum, InQuantum
  <2>2. /\ chip' \in Chips /\ chip'.tau = chip.tau /\ chip'.sau = chip.sau
        /\ chip'.adc = chip.adc /\ chip'.pending = chip.pending /\ chip'.issued = chip.issued
        /\ chip'.irq = chip.irq /\ chip'.clock = chip.clock /\ chip'.now = quantumEnd
    BY <1>0, <2>1 DEF Chips
  <2>3. \A u : EventsOf(chip', u) = EventsOf(chip, u)
    BY <2>2 DEF EventsOf
  <2>4. Armed(chip') /\ Offered(chip')
    BY <1>0, <2>2, <2>3 DEF Armed, Numbered, TauArmed, SauArmed, AdcArmed, Offered
  <2>5. OnGrid(chip', grid)
    <3>1. \A ch \in TauChannels : Interval(chip', ch) = Interval(chip, ch)
      BY <2>2 DEF Interval, Hz
    <3>2. OnGrid(chip, grid)
      BY DEF SocInv
    <3>3. \A n : n \in 0..chip.now => n \in 0..chip'.now
      BY <1>0, <2>1, <2>2 DEF Chips
    <3> QED BY <2>2, <2>3, <3>1, <3>2, <3>3 DEF OnGrid
  <2>6. SocInv'
    <3>1. grid \in Grids
      BY DEF SocInv, Grids
    <3> QED BY <1>0, <2>1, <2>2, <2>4, <2>5, <3>1, InOrderAfter
  <2> QED BY <2>2, <2>6 DEF KeepsRequests, SauStep
<1>4. CASE \E e \in chip.pending : Fire(e)
  <2>1. PICK e \in chip.pending : Fire(e)
    BY <1>4
  <2>2. Moves(chip, chip') /\ chip.irq.flag \subseteq chip'.irq.flag
    BY <1>0, <2>1, FireMoves
  <2>3. Becomes(chip') /\ accesses' = accesses /\ frames' = frames
    BY <2>1 DEF Fire, Becomes
  <2> QED BY <1>1, <2>2, <2>3 DEF KeepsRequests
<1>5. CASE WriteClock \/ WriteTau \/ WriteAdc \/ WriteGpio \/ WriteSau \/ WriteSemihosting
  <2>1. Moves(chip, chip') /\ chip'.irq = chip.irq
    BY <1>0, <1>5, AccessMoves
  <2>2. Becomes(chip') /\ accesses' = accesses + 1 /\ frames' = frames
    BY <1>5 DEF WriteClock, WriteTau, WriteAdc, WriteGpio, WriteSau, WriteSemihosting,
       Access, Becomes
  <2> QED BY <1>1, <2>1, <2>2 DEF KeepsRequests
<1>6. CASE WriteIrq
  <2>1. /\ Moves(chip, chip')
        /\ \E f \in Fields : chip.irq.flag \ chip'.irq.flag \subseteq f
    BY <1>0, <1>6, WriteIrqMoves
  <2>2. Becomes(chip') /\ accesses' = accesses + 1 /\ frames' = frames
    BY <1>6 DEF WriteIrq, Access, Becomes
  <2>3. accesses' # accesses
    BY <1>0, <2>2
  <2> QED BY <1>1, <2>1, <2>2, <2>3 DEF KeepsRequests
<1>7. CASE TakeInterrupt
  <2>1. /\ Moves(chip, chip')
        /\ chip.irq.flag \ chip'.irq.flag \subseteq {chip.irq.pending.index}
    BY <1>0, <1>7, TakeInterruptMoves
  <2>2. Becomes(chip') /\ accesses' = accesses /\ frames' = frames
    BY <1>7 DEF TakeInterrupt, Becomes
  <2> QED BY <1>1, <2>1, <2>2 DEF KeepsRequests
<1>8. CASE ReceiveFrame \/ ChangeLevel \/ ChangeVoltage \/ ResetChip
  <2>1. Moves(chip, chip')
    BY <1>0, <1>8, OutsideMoves, ResetMoves
  <2>2. Becomes(chip') /\ accesses' = accesses /\ frames' = frames + 1
    BY <1>8 DEF ReceiveFrame, ChangeLevel, ChangeVoltage, ResetChip, Outside, Becomes
  <2>3. frames' # frames
    BY <1>0, <2>2
  <2> QED BY <1>1, <2>1, <2>2, <2>3 DEF KeepsRequests
<1> QED BY <1>2, <1>3, <1>4, <1>5, <1>6, <1>7, <1>8 DEF Next

\* The chip is in order in every state: every unit's registers have their ranges, units
\* and event queue agree, the right request is offered and timers are on their grid.
THEOREM ChipInOrder == Spec => []SocInv
<1>1. SocInv /\ [Next]_vars => SocInv'
  <2>1. CASE Next
    BY <2>1, ActionsKeepOrder
  <2>2. CASE UNCHANGED vars
    BY <2>2 DEF vars, SocInv, Armed, Numbered, TauArmed, SauArmed, AdcArmed, Offered, OnGrid
  <2> QED BY <2>1, <2>2
<1> QED BY <1>1, InitIsInOrder, PTL DEF Spec

\* The request offered to the CPU is always the unmasked one of highest priority
\* (the controller's recompute after every write, pulse and acknowledge).
THEOREM OffersHighest == Spec => []HighestOffered
<1>1. SocInv => HighestOffered
  BY OfferedIsHighest DEF SocInv
<1> QED BY <1>1, ChipInOrder, PTL

\* The queue and the ids the units keep agree (stop_channel, cancel_tx and
\* cancel_pending against the fire methods).
THEOREM EventsArmedOnce == Spec => []ArmedOnce
<1>1. SocInv => ArmedOnce
  <2> SUFFICES ASSUME SocInv PROVE ArmedOnce
    OBVIOUS
  <2>1. /\ chip.pending \in SUBSET Event /\ TauArmed(chip) /\ SauArmed(chip) /\ AdcArmed(chip)
    BY DEF SocInv, Armed, Chips
  <2>2. ASSUME NEW e \in chip.pending
        PROVE  CASE e.unit = "tau" -> /\ chip.tau.expire[e.ch] = e.id /\ e.ch \in chip.tau.te
                                      /\ chip.tau.generation[e.ch] = e.generation
                 [] e.unit = "sau" -> /\ chip.sau.txId[e.ch] = e.id
                                      /\ chip.sau.shift[e.ch] # NoFrame
                 [] e.unit = "adc" -> /\ chip.adc.expire = e.id /\ chip.adc.running
                                      /\ chip.adc.generation = e.generation
                 [] OTHER -> TRUE
    <3>1. e \in EventsOf(chip, e.unit)
      BY DEF EventsOf
    <3> QED BY <2>1, <3>1 DEF TauArmed, SauArmed, AdcArmed
  <2>3. \A u : \A e \in EventsOf(chip, u) : e \in chip.pending
    BY DEF EventsOf
  <2>4. \A ch \in TauChannels : chip.tau.expire[ch] # NoEvent => Live(chip, chip.tau.expire[ch])
    BY <2>1, <2>3 DEF TauArmed, Live
  <2>5. \A ch \in chip.sau.busy : Live(chip, chip.sau.txId[ch])
    BY <2>1, <2>3 DEF SauArmed, Live
  <2>6. chip.adc.expire # NoEvent => Live(chip, chip.adc.expire)
    BY <2>1, <2>3 DEF AdcArmed, Live
  <2> QED BY <2>2, <2>4, <2>5, <2>6 DEF ArmedOnce
<1> QED BY <1>1, ChipInOrder, PTL

\* A multiple leaves no remainder.
LEMMA MultipleDivides ==
    ASSUME NEW k \in Nat, NEW p \in Nat \ {0}
    PROVE  (k * p) % p = 0
<1> DEFINE x == k * p
           q == x \div p
           r == x % p
<1>1. x \in Nat
  BY Products
<1>2. \A y \in Nat, n \in Nat \ {0} : y \div n \in Int /\ y % n \in 0 .. n - 1
  OBVIOUS
<1>3. \A y \in Nat, n \in Nat \ {0} : y = n * (y \div n) + (y % n)
  OBVIOUS
<1> HIDE DEF x
<1>4. q \in Int /\ r \in 0 .. p - 1 /\ x = p * q + r
  BY <1>1, <1>2, <1>3
<1> HIDE DEF q, r
<1>5. p * (k - q) = r
  BY <1>4 DEF x
<1>6. \A n \in Nat \ {0}, d \in Int : n * d >= 0 /\ n * d < n => d = 0
  OBVIOUS
<1>7. k - q = 0
  <2>1. p * (k - q) >= 0 /\ p * (k - q) < p /\ k - q \in Int
    BY <1>4, <1>5
  <2> QED BY <1>6, <2>1
<1>8. r = 0
  BY <1>5, <1>7
<1> QED BY <1>8 DEF r, x

\* A timer that keeps its interval ticks on the grid of its start, however late its
\* events are handled (TauExpire::fire).
THEOREM TimersTickOnGrid == Spec => []TicksOnGrid
<1>1. SocInv => TicksOnGrid
  <2> SUFFICES ASSUME SocInv, NEW ch \in TauChannels, NEW e \in chip.pending,
                      e.unit = "tau", e.ch = ch, grid[ch] # NoGrid
               PROVE  (e.at - grid[ch].at) % grid[ch].interval = 0
    BY DEF TicksOnGrid
  <2>1. e \in EventsOf(chip, "tau")
    BY DEF EventsOf
  <2>2. /\ grid[ch].at \in 0..chip.now /\ grid[ch].interval \in Nat \ {0}
        /\ \E k \in Nat : e.at = grid[ch].at + k * grid[ch].interval
    BY <2>1 DEF SocInv, OnGrid
  <2>3. PICK k \in Nat : e.at = grid[ch].at + k * grid[ch].interval
    BY <2>2
  <2>4. k * grid[ch].interval \in Nat /\ grid[ch].at \in Nat
    BY <2>2, Products
  <2>5. e.at - grid[ch].at = k * grid[ch].interval
    BY <2>3, <2>4
  <2> QED BY <2>2, <2>5, MultipleDivides
<1> QED BY <1>1, ChipInOrder, PTL

\* A request is withdrawn only when it is taken, by a write to its own IF byte or by
\* a reset.
THEOREM RequestsAreKept == Spec => RequestsKept
<1>1. SocInv /\ [Next]_vars => [KeepsRequests]_vars
  BY ActionsKeepOrder
<1> QED BY <1>1, ChipInOrder, PTL DEF Spec, RequestsKept, KeepsRequests

\* A byte in the shift register of a channel that stays enabled goes out on the line
\* (start_tx against write_sdr and SauTxDone::fire).
THEOREM ShiftedBytesGoOut == Spec => ShiftedGoesOut
<1> DEFINE Goes == \A ch \in SauChannels :
                      chip.sau.shift[ch] \notin {NoFrame, chip'.sau.shift[ch]}
                          => ch \notin chip'.sau.se
                             \/ chip'.sau.line[ch] = chip.sau.shift[ch]
<1>1. SocInv /\ [Next]_vars => [Goes]_vars
  BY ActionsKeepOrder DEF SauStep
<1> QED BY <1>1, ChipInOrder, PTL DEF Spec, ShiftedGoesOut
=============================================================================
