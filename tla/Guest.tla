------------------------------- MODULE Guest -------------------------------
(***************************************************************************)
(* What the RL78 core and a debugger reach of the same memory.  The board  *)
(* puts its memory map together, the core binds it (Rl78Cpu::bind_memory): *)
(* RAM and flash are accessed through host pointers, past the bus, and     *)
(* everything else through the bus (hw/cpus/rl78/src/callbacks.rs).  A     *)
(* debugger always goes through the bus.                                   *)
(***************************************************************************)
EXTENDS MemoryBus

CONSTANTS Devices,     \* <<base, size, kind>> a board may map
          Aliases,     \* <<base, target, size>> a board may map
          PageSize,    \* TLIB_PAGE_SIZE
          Addresses,   \* where accesses begin
          MaxRegions,  \* bound: regions of the two maps together
          MaxAccesses  \* bound: accesses

\* No region begins at the last address of all or is as long as all of them together, where
\* sums saturate: the boards' maps lie in the first 2^20 of 2^64.
ASSUME GuestAssumption ==
    /\ Devices \subseteq (0..(Top - 1)) \X (0..(Top - 1)) \X {"ram", "rom", "mmio"}
    /\ Aliases \subseteq (0..(Top - 1)) \X (0..Top) \X (0..(Top - 1))
    /\ Addresses \subseteq 0..Top /\ PageSize \in Nat \ {0} /\ MaxRegions \in Nat /\ MaxAccesses \in Nat

Nothing == <<>>

VARIABLES parts,   \* the core's map and that of the package: two builders
          policy,  \* UnmappedPolicy
          bus,     \* the regions of the bus, once it is built
          hosts,   \* CallbackState: the windows with a host pointer
          ioPages, \* pages tlib asks the callbacks for
          trap,    \* MemoryBus::trap
          latch,   \* the stop the callbacks have latched
          stop,    \* what the last quantum reported
          accesses, quanta, \* bounds
          failed   \* ghost: the guest's accesses that failed in this quantum

guestVars == <<parts, policy, bus, hosts, ioPages, trap, latch, stop, accesses, quanta, failed>>

Init ==
    /\ parts = [part \in {"core", "package"} |-> <<>>] /\ policy \in {"Log", "Trap"}
    /\ bus = Nothing /\ hosts = {} /\ ioPages = {}
    /\ trap = Nothing /\ latch = Nothing /\ stop = Nothing
    /\ accesses = 0 /\ quanta = 0 /\ failed = <<>>

-----------------------------------------------------------------------------
(* The board is put together.                                               *)

building == UNCHANGED <<policy, trap, latch, stop, accesses, quanta, failed>>

Extend(part, map) ==
    /\ bus = Nothing /\ map # Failed
    /\ Len(parts.core) + Len(parts.package) < MaxRegions
    /\ parts' = [parts EXCEPT ![part] = map]
    /\ building /\ UNCHANGED <<bus, hosts, ioPages>>

AddDevice(part) == \E d \in Devices : Extend(part, MapDevice(parts[part], d[1], d[2], d[3]))
AddAlias(part) == \E a \in Aliases : Extend(part, MapAlias(parts[part], a[1], a[2], a[3]))

\* A window of the host replaces those it overlaps.
MapHostRegion(windows, base, size, pointer) ==
    {w \in windows : Sat(w.base, w.size) <= base \/ Sat(base, size) <= w.base}
        \cup {[base |-> base, size |-> size, pointer |-> pointer]}

WithHost(windows, regions, i) ==
    IF HostPointer(regions, i) = Nothing THEN windows
    ELSE MapHostRegion(windows, regions[i].base, regions[i].size, Head(HostPointer(regions, i)))

PagesOf(region) ==
    {page \in 0..Top : page * PageSize < Sat(region.base, region.size)
                       /\ region.base < (page + 1) * PageSize}

\* bind_memory: windows with a host pointer, and pages without.
Bind(regions) ==
    /\ LET windows[n \in 0..Len(regions)] ==
               IF n = 0 THEN {} ELSE WithHost(windows[n - 1], regions, n)
       IN  hosts' = windows[Len(regions)]
    /\ ioPages' = UNION {PagesOf(regions[i]) : i \in {j \in DOMAIN regions :
                                                          HostPointer(regions, j) = Nothing}}

\* The package's map is merged into the core's, built, and bound.
Build ==
    /\ bus = Nothing
    /\ LET map == Merged(parts.core, parts.package)
           regions == Flattened(map)
       IN  /\ map \notin {Failed, <<>>} /\ regions # Failed
           /\ bus' = regions /\ Bind(regions)
    /\ building /\ UNCHANGED parts

-----------------------------------------------------------------------------
(* Accesses.                                                                *)

\* An unmapped access is what the kernel stops at if the policy is Trap.
TrapAfter(result, addr) == IF result = "Unmapped" /\ policy = "Trap" THEN <<addr>> ELSE trap

\* Mutant: the last stop is kept.
LatchLast(addr) == <<addr>>

\* The first stop is kept until the quantum ends.
RequestStop(addr) == IF latch = Nothing THEN <<addr>> ELSE latch

HostWindows(addr) ==
    {w \in hosts : addr >= w.base /\ addr < Sat(w.base, w.size) /\ addr \div PageSize \notin ioPages}

MayAccess == bus # Nothing /\ accesses < MaxAccesses /\ accesses' = accesses + 1
accessed == UNCHANGED <<parts, policy, bus, hosts, ioPages, stop, quanta>>

\* An aligned load or store of the guest that no host window serves; a failure latches
\* a stop whatever the policy is.
GuestAccess(op, addr, len) ==
    LET result == Accessed(bus, op, addr, len) IN
    /\ MayAccess /\ addr % len = 0 /\ HostWindows(addr) = {}
    /\ trap' = TrapAfter(result, addr)
    /\ IF result = "ok" THEN UNCHANGED <<latch, failed>>
       ELSE latch' = RequestStop(addr) /\ failed' = Append(failed, addr)
    /\ accessed

\* read_mem and write_mem of a debugger, and the loading of an image.
InspectAccess(op, addr, len) ==
    /\ MayAccess /\ trap' = TrapAfter(Accessed(bus, op, addr, len), addr)
    /\ accessed /\ UNCHANGED <<latch, failed>>

\* A quantum that retired an instruction, or stopped, ends: what the bus trapped comes
\* before what the callbacks latched, and both are taken.  One that did neither returns
\* before it looks at the trap and changes nothing here (machine.rs:370): a stutter.
EndQuantum ==
    /\ bus # Nothing /\ quanta < MaxAccesses /\ quanta' = quanta + 1
    /\ stop' = IF trap # Nothing THEN trap ELSE latch
    /\ trap' = Nothing /\ latch' = Nothing /\ failed' = <<>>
    /\ UNCHANGED <<parts, policy, bus, hosts, ioPages, accesses>>

Next ==
    \/ \E part \in {"core", "package"} : AddDevice(part) \/ AddAlias(part)
    \/ Build \/ EndQuantum
    \/ \E addr \in Addresses, len \in {1, 2} :
          \/ \E op \in {"read", "write"} : GuestAccess(op, addr, len)
          \/ \E op \in {"read", "write", "load"} : InspectAccess(op, addr, len)

Spec == Init /\ [][Next]_guestVars

-----------------------------------------------------------------------------
(* What the map means: an alias shows, address by address, what is at the   *)
(* addresses it was made for.                                               *)

AllRegions == parts.core \o parts.package
Covers(region, addr) == region.base <= addr /\ addr < region.base + region.size
At(addr) == {i \in DOMAIN AllRegions : Covers(AllRegions[i], addr)}
OnTheWay(addr) ==
    LET i == CHOOSE j \in At(addr) : TRUE
        region == AllRegions[i]
    IN  IF At(addr) = {} \/ region.kind # "alias" THEN addr
        ELSE region.target + region.offset + (addr - region.base)
Meaning(addr) ==
    LET way[n \in 0..MaxRegions] == IF n = 0 THEN addr ELSE OnTheWay(way[n - 1])
    IN  way[MaxRegions]

\* One memory: what the bus gives a debugger at an address, and what the host windows
\* give the guest, is the cell that the map as it was put together means, however long
\* the chain of aliases and whichever map each came from; and an access succeeds unless
\* it leaves its window.  (The last address of all, where sums saturate, is in no region.)
OneMemory ==
    bus # Nothing => \A addr \in 0..(Top - 1) :
        /\ \A len \in 1..PageSize :
              LET hit == Resolve(bus, addr, len) IN
              /\ hit.result = "Unmapped" <=> At(addr) = {}
              /\ hit.result = "ok" <=> \E i \in At(addr) : Covers(AllRegions[i], addr + len - 1)
              /\ hit.result = "ok" => \A k \in 0..(len - 1) :
                                         hit.device + hit.offset + k = Meaning(addr + k)
        /\ \A w \in HostWindows(addr) :
              w.pointer.device + w.pointer.offset + (addr - w.base) = Meaning(addr)

\* A quantum in which an access of the guest failed reports a stop.  Unless unmapped
\* accesses trap, it is the first access that failed, and what a debugger touches
\* never stops the guest.
StopIsGuests ==
    [][ quanta' # quanta =>
          /\ failed # <<>> => stop' # Nothing
          /\ policy = "Log" => stop' = (IF failed = <<>> THEN Nothing ELSE <<Head(failed)>>) ]_guestVars
=============================================================================
