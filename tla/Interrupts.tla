----------------------------- MODULE Interrupts -----------------------------
(***************************************************************************)
(* The interrupt controller (peripherals/irq.rs): request flags IF, masks  *)
(* MK and two priority bits per line; `pending` is the request offered to  *)
(* the CPU, which drive_cpu passes on as soon as it is recomputed.  Lines  *)
(* keep their vector numbers.  The edge registers EGP and EGN, which       *)
(* nothing reads back but the guest, are left out.                         *)
(***************************************************************************)
EXTENDS Integers, FiniteSets

CONSTANT Lines \* the request lines in use, by their vector number

ASSUME LinesAssumption == Lines \subseteq 0..58

INTST0  == 13
INTTM00 == 14
INTSRE0 == 15
INTSR0  == 20
INTTM01 == 21
INTAD   == 24

NoRequest == [index |-> 99, priority |-> 0]

\* Vector a is served before vector b.
Outranks(c, a, b) ==
    c.priority[a] < c.priority[b] \/ (c.priority[a] = c.priority[b] /\ a < b)

Unmasked(c) == c.flag \ c.mask

Request(c) ==
    IF Unmasked(c) = {} THEN NoRequest
    ELSE LET first == CHOOSE l \in Unmasked(c) :
                          \A m \in Unmasked(c) \ {l} : Outranks(c, l, m)
         IN  [index |-> first, priority |-> c.priority[first]]

\* Mutant: the priority levels are not looked at.
RecomputedByIndex(c) ==
    IF Unmasked(c) = {} THEN [c EXCEPT !.pending = NoRequest]
    ELSE LET first == CHOOSE l \in Unmasked(c) : \A m \in Unmasked(c) : l <= m
         IN  [c EXCEPT !.pending = [index |-> first, priority |-> c.priority[first]]]

Recomputed(c) == [c EXCEPT !.pending = Request(c)]

Raised(c, line) == Recomputed([c EXCEPT !.flag = @ \cup ({line} \cap Lines)])

\* Mutant: an acknowledge drops everything that waits at the same priority.
AckedLevel(c, line) ==
    Recomputed([c EXCEPT !.flag = @ \ {l \in Lines : c.priority[l] = c.priority[line]}])

Acked(c, line) == Recomputed([c EXCEPT !.flag = @ \ {line}])

\* The lines of one byte of an IF/MK/PR register, and of one 16-bit register.
LinesOfByte(b) == {l \in Lines : l \div 8 = b}
LinesOfWord(g) == {l \in Lines : l \div 16 = g}

\* Bytes and words the guest can address.
Fields == {LinesOfByte(b) : b \in 0..7} \cup {LinesOfWord(g) : g \in 0..3}

\* deposit_lines: the lines of the field take the written bits, the others keep theirs.
Deposited(old, field, bits) == (old \ field) \cup (bits \cap field)

WithFlags(c, field, bits) == Recomputed([c EXCEPT !.flag = Deposited(@, field, bits)])

WithMasks(c, field, bits) == Recomputed([c EXCEPT !.mask = Deposited(@, field, bits)])

\* PRn0 holds the low and PRn1 the high bit of the lines' priorities.
WithPriorityBits(c, field, high, bits) ==
    Recomputed([c EXCEPT !.priority =
        [l \in Lines |->
            IF l \notin field THEN @[l]
            ELSE LET bit == IF l \in bits THEN 1 ELSE 0
                 IN  IF high THEN 2 * bit + (@[l] % 2) ELSE 2 * (@[l] \div 2) + bit]])

ResetController ==
    [flag |-> {}, mask |-> Lines, priority |-> [l \in Lines |-> 3], pending |-> NoRequest]
=============================================================================
