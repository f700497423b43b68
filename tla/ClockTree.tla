----------------------------- MODULE ClockTree ------------------------------
(***************************************************************************)
(* The clock generator (peripherals/clock.rs): oscillator enables and      *)
(* selections, and the f_clk they derive, which times CPU and peripherals.  *)
(* Frequencies are small numbers of cycles in NsPerSec units of time; what  *)
(* matters is which are equal, which are slower and that 0 is stopped.      *)
(* Registers that only the guest reads back are left out.                  *)
(***************************************************************************)
EXTENDS Integers

CONSTANTS NsPerSec, \* NS_PER_SEC
          HighHz,   \* HIGH_OSC_MHZ of the option byte's FRQSEL3, by HOCODIV
          MidHz,    \* MID_OSC_MHZ, by MOCODIV
          LowHz     \* LOW_OSC

\* No oscillator is faster than one cycle per unit of time; the dividers of a reset
\* are settings of the registers.
ASSUME ClockAssumption ==
    /\ NsPerSec \in Nat \ {0} /\ LowHz \in 1..NsPerSec
    /\ 0 \in DOMAIN HighHz \cap DOMAIN MidHz
    /\ \A d \in DOMAIN HighHz : HighHz[d] \in 1..NsPerSec
    /\ \A d \in DOMAIN MidHz : MidHz[d] \in 1..NsPerSec

Stopped == 0

HighOsc(g) == IF g.hiostop THEN Stopped ELSE HighHz[g.hocodiv]
MidOsc(g) == IF g.mioen THEN MidHz[g.mocodiv] ELSE Stopped
SubOsc(g) == IF g.selLow THEN LowHz ELSE Stopped

MainClock(g) ==
    IF g.mcm0 THEN Stopped ELSE IF g.mcm1 THEN MidOsc(g) ELSE HighOsc(g)

\* f_clk of the tree that `commit` publishes.
FClk(g) == IF g.css THEN SubOsc(g) ELSE MainClock(g)

\* cycles_to_tick; NoTick when the clock is stopped.
NoTick == -1
TicksAt(hz, cycles) == IF hz = Stopped THEN NoTick ELSE (cycles * NsPerSec) \div hz

\* Registers the guest writes.  CMC takes one change after a reset.
WithCmc(g, value) ==
    IF g.cmcDirty \/ g.cmc = value THEN g
    ELSE [g EXCEPT !.cmc = value, !.cmcDirty = TRUE]

WithCsc(g, hiostop, mioen) == [g EXCEPT !.hiostop = hiostop, !.mioen = mioen]

WithCkc(g, mcm1, mcm0, css) == [g EXCEPT !.mcm1 = mcm1, !.mcm0 = mcm0, !.css = css]

ClockWrites(g) ==
    {WithCmc(g, v) : v \in {0, 1}}
        \cup {WithCsc(g, h, m) : h \in BOOLEAN, m \in BOOLEAN}
        \cup {WithCkc(g, m1, m0, c) : m1 \in BOOLEAN, m0 \in BOOLEAN, c \in BOOLEAN}
        \cup {[g EXCEPT !.selLow = s] : s \in BOOLEAN}
        \cup {[g EXCEPT !.hocodiv = d] : d \in DOMAIN HighHz}
        \cup {[g EXCEPT !.mocodiv = d] : d \in DOMAIN MidHz}

\* HOCODIV comes from the option byte.
ResetGenerator(optionDiv) ==
    [hiostop |-> FALSE, mioen |-> FALSE, selLow |-> FALSE,
     mcm1 |-> FALSE, mcm0 |-> FALSE, css |-> FALSE,
     hocodiv |-> optionDiv, mocodiv |-> 0, cmc |-> 0, cmcDirty |-> FALSE]
=============================================================================
