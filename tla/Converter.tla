----------------------------- MODULE Converter ------------------------------
(***************************************************************************)
(* The A/D converter (peripherals/adc.rs): select or scan of four inputs,  *)
(* once or over and over, results compared with a window that gates the    *)
(* interrupt.  Voltages are in millivolts.  Trigger, reference and test    *)
(* selections have no effect in the code and are left out; the clock       *)
(* counts of a conversion are scaled.                                      *)
(***************************************************************************)
EXTENDS SocEvents

CONSTANTS AdcClocks, \* by the setting of LV and FR: conversion cycles, and by the choice
                     \* of the low-speed clock the divider and the cycles to wake up
          Sources,   \* ADS: the first input of a conversion; what is no input reads 0
          Voltages,  \* levels of the analog inputs, in mV
          Limits     \* values of ADUL and ADLL

ASSUME AdcAssumption ==
    /\ 0 \in DOMAIN AdcClocks /\ 0 \in Sources /\ Sources \subseteq Nat
    /\ \A n \in DOMAIN AdcClocks :
          AdcClocks[n] \in [conversion : Nat \ {0}, divider : [BOOLEAN -> Nat \ {0}],
                           wakeup : [BOOLEAN -> Nat]]
    /\ Voltages \subseteq Int /\ Limits \subseteq 0..255
    /\ INTAD \in Lines

Slots == 0..3
Resolutions == {8, 10, 12}
RefMilliVolt == 5000

\* Registers before anything is started.
AdcAt(comparator, oneshot, inRange, resolution, adul, adll, volts) ==
    [running |-> FALSE, comparator |-> comparator, scan |-> FALSE, clock |-> 0,
     slow |-> FALSE, oneshot |-> oneshot, inRange |-> inRange, resolution |-> resolution,
     adul |-> adul, adll |-> adll, adcr |-> 0, slots |-> [i \in Slots |-> 0],
     index |-> 0, hit |-> FALSE, source |-> 0, volts |-> volts, expire |-> NoEvent, generation |-> 0]

\* The unit u that waits for no conversion any more.
Withdrawn(u) == [u EXCEPT !.generation = NextGeneration(@), !.expire = NoEvent]

CancelPending(s) == [Cancel(s, s.adc.expire) EXCEPT !.adc = Withdrawn(@)]

WakeUp(s) == IF s.adc.comparator THEN 1 ELSE AdcClocks[s.adc.clock].wakeup[s.adc.slow]

InterruptDelay(s) == IF s.adc.comparator \/ ~ s.adc.oneshot THEN 1 ELSE 4

NextDuration(s) ==
    LET c == AdcClocks[s.adc.clock]
    IN  TicksAt(Hz(s), (c.conversion + InterruptDelay(s)) * c.divider[s.adc.slow])

FirstDuration(s) ==
    LET c == AdcClocks[s.adc.clock]
    IN  TicksAt(Hz(s), (c.conversion + WakeUp(s) + InterruptDelay(s)) * c.divider[s.adc.slow])

CompleteAt(s, at) ==
    LET r == Schedule(s, at, "adc", 0, s.adc.generation)
    IN  [r EXCEPT !.adc.expire = r.issued]

\* The unit u at the first input of its scan.
AtFirstInput(u) == [u EXCEPT !.index = 0, !.hit = FALSE]

StartConversion(s) ==
    LET r == [CancelPending(s) EXCEPT !.adc = AtFirstInput(@)]
    IN  IF FirstDuration(r) = NoTick THEN r ELSE CompleteAt(r, r.now + FirstDuration(r))

\* fetch_result: left-aligned in 16 bits except at 12 bits.
Least(a, b) == IF a <= b THEN a ELSE b

Result(s) ==
    LET input == s.adc.source + s.adc.index
        mv == IF input \notin Slots \/ s.adc.volts[input] < 0 THEN 0 ELSE s.adc.volts[input]
        scaled(scale) == Least((mv * scale) \div RefMilliVolt, scale - 1)
    IN  CASE s.adc.resolution = 8  -> scaled(256) * 256
          [] s.adc.resolution = 10 -> scaled(1024) * 64
          [] s.adc.resolution = 12 -> scaled(4096)

ComparisonBits(resolution, r) == IF resolution = 12 THEN (r \div 16) % 256 ELSE r \div 256

InWindow(s, c) ==
    IF s.adc.inRange THEN s.adc.adll <= c /\ c <= s.adc.adul
    ELSE c < s.adc.adll \/ s.adc.adul <= c

\* The unit u with the result of input u.index, about to convert input `next`.
Stored(u, result, valid, next) ==
    [u EXCEPT !.expire = NoEvent,
              !.adcr = IF u.index = 0 THEN result ELSE @,
              !.slots[u.index] = IF valid THEN result ELSE @,
              !.hit = next # 0 /\ (@ \/ valid),
              !.index = next]

\* AdcComplete::fire and complete.
Complete(s, e) ==
    LET a == s.adc
        i == a.index
        result == Result(s)
        valid == InWindow(s, ComparisonBits(a.resolution, result))
        next == IF a.scan THEN (i + 1) % 4 ELSE i
        stored == [s EXCEPT !.adc = Stored(@, result, valid, next)]
        told == IF next = 0 /\ (a.hit \/ valid) THEN Interrupt(stored, INTAD) ELSE stored
    IN  IF a.generation # e.generation \/ ~ a.running THEN [s EXCEPT !.adc.expire = NoEvent]
        ELSE IF a.oneshot /\ next = 0 THEN [told EXCEPT !.adc.running = FALSE]
        ELSE IF NextDuration(s) = NoTick THEN told
        ELSE CompleteAt(told, FirstAfter(s.now, e.at, NextDuration(s)))

WriteAdm0(s, run, scan, comparator, clock) ==
    LET r == [s EXCEPT !.adc.running = run, !.adc.scan = scan,
                       !.adc.comparator = comparator, !.adc.clock = clock]
    IN  IF run THEN StartConversion(r) ELSE CancelPending(r)

WriteAdm1(s, oneshot, slow) == [s EXCEPT !.adc.oneshot = oneshot, !.adc.slow = slow]

WriteAds(s, source) ==
    LET r == [s EXCEPT !.adc.source = source]
    IN  IF r.adc.running THEN StartConversion(r) ELSE r

\* ADRCK and ADTYP.
WriteAdm2(s, inRange, resolution) ==
    [s EXCEPT !.adc.inRange = inRange, !.adc.resolution = resolution]

\* The registers a guest writes.
AdcModes(s) ==
    {WriteAdm0(s, run, scan, comparator, n) : run \in BOOLEAN, scan \in BOOLEAN,
                                              comparator \in BOOLEAN, n \in DOMAIN AdcClocks}

AdcRanges(s) == {WriteAdm2(s, r, b) : r \in BOOLEAN, b \in Resolutions}

AdcWrites(s) ==
    AdcModes(s) \cup AdcRanges(s) \cup {WriteAds(s, i) : i \in Sources}
        \cup {WriteAdm1(s, o, slow) : o \in BOOLEAN, slow \in BOOLEAN}
        \cup {[s EXCEPT !.adc.adul = l] : l \in Limits} \cup {[s EXCEPT !.adc.adll = l] : l \in Limits}

\* restore_reset; the inputs keep their levels.
AdcReset(s) ==
    LET r == CancelPending(s)
    IN  [r EXCEPT !.adc = [AdcAt(FALSE, FALSE, TRUE, 10, 255, 0, s.adc.volts)
                              EXCEPT !.generation = r.adc.generation]]
=============================================================================
