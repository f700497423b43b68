----------------------------- MODULE MemoryBus -----------------------------
(***************************************************************************)
(* The memory map of a board (sim-kernel/src/bus.rs): devices and aliases  *)
(* are put into a builder one after the other, maps are merged, and build  *)
(* turns every alias into a window of a device.  A map is the sequence of  *)
(* its regions.  A call that fails ends the construction of the board;     *)
(* here its result is Failed.                                              *)
(***************************************************************************)
EXTENDS Integers, SequencesExt

CONSTANT Top \* u64::MAX, where sums of addresses saturate

ASSUME TopAssumption == Top \in Nat \ {0}

Sat(a, b) == IF a + b > Top THEN Top ELSE a + b

Failed == <<[kind |-> "failed"]>>

Device(base, size, kind) == [base |-> base, size |-> size, kind |-> kind, target |-> 0, offset |-> 0]
Alias(base, size, target, offset) ==
    [base |-> base, size |-> size, kind |-> "alias", target |-> target, offset |-> offset]

Hits(region, addr) == region.base <= addr /\ addr < Sat(region.base, region.size)
Overlaps(r, s) == r.base < Sat(s.base, s.size) /\ s.base < Sat(r.base, r.size)

\* The first region that is hit, or that is based at an address; 0 if there is none.
First(found) == IF found = {} THEN 0 ELSE Min(found)
FindRegion(map, addr) == First({i \in DOMAIN map : Hits(map[i], addr)})
FindBase(map, base) == First({i \in DOMAIN map : map[i].base = base})

Inserted(map, region) ==
    IF \E i \in DOMAIN map : Overlaps(map[i], region) THEN Failed ELSE Append(map, region)

MapDevice(map, base, size, kind) ==
    IF size = 0 THEN Failed ELSE Inserted(map, Device(base, size, kind))

\* The window must lie in the region that `target` hits, be it a device or an alias.
MapAlias(map, base, target, size) ==
    LET i == FindRegion(map, target) IN
    IF size = 0 \/ i = 0 THEN Failed
    ELSE IF Sat(target - map[i].base, size) > map[i].size THEN Failed
    ELSE Inserted(map, Alias(base, size, map[i].base, target - map[i].base))

\* The regions of the other map are put into this one, one after the other.
PutInto(map, r) ==
    IF map = Failed THEN Failed
    ELSE IF r.kind = "alias" THEN MapAlias(map, r.base, Sat(r.target, r.offset), r.size)
    ELSE MapDevice(map, r.base, r.size, r.kind)

Merged(map, other) ==
    LET upTo[n \in 0..Len(other)] == IF n = 0 THEN map ELSE PutInto(upTo[n - 1], other[n])
    IN  upTo[Len(other)]

\* Mutant: the offset into the device is that of the last alias of the chain.
OwnerOfLast(map, start) ==
    LET walk[n \in 0..Len(map)] ==
            IF n = 0 THEN [at |-> start, offset |-> 0]
            ELSE LET here == map[walk[n - 1].at]
                 IN  IF here.kind # "alias" THEN walk[n - 1]
                     ELSE [at |-> FindBase(map, here.target), offset |-> here.offset]
    IN  walk[Len(map)]

\* The device at the end of an alias's chain, with the sum of the offsets.  A chain as
\* long as the map is a cycle and ends nowhere.
Owner(map, start) ==
    LET walk[n \in 0..Len(map)] ==
            IF n = 0 THEN [at |-> start, offset |-> 0]
            ELSE LET here == map[walk[n - 1].at]
                 IN  IF here.kind # "alias" THEN walk[n - 1]
                     ELSE [at |-> FindBase(map, here.target),
                           offset |-> Sat(walk[n - 1].offset, here.offset)]
    IN  walk[Len(map)]

Flattened(map) ==
    LET owner(i) == Owner(map, i)
        fits(i) == LET device == map[owner(i).at]
                   IN  device.kind # "alias" /\ Sat(owner(i).offset, map[i].size) <= device.size
    IN  IF \E i \in DOMAIN map : map[i].kind = "alias" /\ ~fits(i) THEN Failed
        ELSE [i \in DOMAIN map |->
                 IF map[i].kind # "alias" THEN map[i]
                 ELSE [map[i] EXCEPT !.target = map[owner(i).at].base, !.offset = owner(i).offset]]

-----------------------------------------------------------------------------
(* The bus that was built.                                                  *)

\* The device an access goes to and where in it.
Resolve(bus, addr, len) ==
    LET i == FindRegion(bus, addr)
        inWindow == addr - bus[i].base
    IN  IF i = 0 THEN [result |-> "Unmapped"]
        ELSE IF Sat(inWindow, len) > bus[i].size THEN [result |-> "OutOfRange"]
        ELSE IF bus[i].kind # "alias"
             THEN [result |-> "ok", device |-> bus[i].base, offset |-> inWindow]
        ELSE [result |-> "ok", device |-> bus[i].target, offset |-> Sat(bus[i].offset, inWindow)]

\* What the device makes of an access: flash refuses writes, and only flash is loaded.
Accessed(bus, op, addr, len) ==
    LET hit == Resolve(bus, addr, len)
        kind == bus[FindBase(bus, hit.device)].kind
    IN  IF hit.result # "ok" THEN hit.result
        ELSE IF op = "write" /\ kind = "rom" THEN "ReadOnly"
        ELSE IF op = "load" /\ kind # "rom" THEN "NotLoadable"
        ELSE "ok"

\* for_each_region: where the CPU finds region i in the memory of the host, if it does.
HostPointer(bus, i) ==
    LET device == IF bus[i].kind = "alias" THEN bus[FindBase(bus, bus[i].target)] ELSE bus[i]
    IN  IF device.kind = "mmio" THEN <<>>
        ELSE <<[device |-> device.base,
                offset |-> IF bus[i].kind = "alias" THEN bus[i].offset ELSE 0]>>
=============================================================================
